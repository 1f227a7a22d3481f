----------------------------- MODULE FlowTokens -----------------------------
(***************************************************************************)
(* The grammar of the flow commands: the lists of tokens that may follow a *)
(* token, and the table that gives every token its callback, the lists and *)
(* arguments it pushes and the structure it reserves in the output buffer. *)
(*                                                                         *)
(* A list is the set of its tokens.  An argument is the structure it is an *)
(* offset into ("none": it stores nothing; "id": a bare 32-bit value), for *)
(* ARGS_ENTRY_PTR the element pointed to.  "priv" is the structure whose   *)
(* size the token gives in PRIV_ITEM or PRIV_ACTION, "void" for a size of  *)
(* zero and "none" without private data.  The prefix rte_flow_ is dropped. *)
(***************************************************************************)
-----------------------------------------------------------------------------
(* The lists of subsequent tokens.                                         *)

next_flex_item == {"FLEX_ITEM_INIT", "FLEX_ITEM_CREATE", "FLEX_ITEM_DESTROY"}
next_ia_create_attr_open ==
  {"INDIRECT_ACTION_CREATE_ID", "INDIRECT_ACTION_INGRESS", "INDIRECT_ACTION_EGRESS",
   "INDIRECT_ACTION_TRANSFER"}
next_ia_create_attr ==
  {"INDIRECT_ACTION_CREATE_ID", "INDIRECT_ACTION_INGRESS", "INDIRECT_ACTION_EGRESS",
   "INDIRECT_ACTION_TRANSFER", "INDIRECT_ACTION_SPEC"}
next_dump_subcmd == {"DUMP_ALL", "DUMP_ONE"}
next_ia_subcmd ==
  {"INDIRECT_ACTION_CREATE", "INDIRECT_ACTION_UPDATE", "INDIRECT_ACTION_DESTROY",
   "INDIRECT_ACTION_QUERY"}
next_vc_attr ==
  {"VC_GROUP", "VC_PRIORITY", "VC_INGRESS", "VC_EGRESS", "VC_TRANSFER", "VC_TUNNEL_SET",
   "VC_TUNNEL_MATCH", "ITEM_PATTERN"}
next_destroy_attr == {"DESTROY_RULE", "END"}
next_dump_attr == {"COMMON_FILE_PATH", "END"}
next_list_attr == {"LIST_GROUP", "END"}
next_aged_attr == {"AGED_DESTROY", "END"}
next_ia_destroy_attr == {"INDIRECT_ACTION_DESTROY_ID", "END"}
item_param ==
  {"ITEM_PARAM_IS", "ITEM_PARAM_SPEC", "ITEM_PARAM_LAST", "ITEM_PARAM_MASK",
   "ITEM_PARAM_PREFIX"}
next_item ==
  {"ITEM_END", "ITEM_VOID", "ITEM_INVERT", "ITEM_ANY", "ITEM_PF", "ITEM_VF",
   "ITEM_PHY_PORT", "ITEM_PORT_ID", "ITEM_MARK", "ITEM_RAW", "ITEM_ETH", "ITEM_VLAN",
   "ITEM_IPV4", "ITEM_IPV6", "ITEM_ICMP", "ITEM_UDP", "ITEM_TCP", "ITEM_SCTP", "ITEM_VXLAN",
   "ITEM_E_TAG", "ITEM_NVGRE", "ITEM_MPLS", "ITEM_GRE", "ITEM_FUZZY", "ITEM_GTP",
   "ITEM_GTPC", "ITEM_GTPU", "ITEM_GENEVE", "ITEM_VXLAN_GPE", "ITEM_ARP_ETH_IPV4",
   "ITEM_IPV6_EXT", "ITEM_IPV6_FRAG_EXT", "ITEM_ICMP6", "ITEM_ICMP6_ND_NS",
   "ITEM_ICMP6_ND_NA", "ITEM_ICMP6_ND_OPT", "ITEM_ICMP6_ND_OPT_SLA_ETH",
   "ITEM_ICMP6_ND_OPT_TLA_ETH", "ITEM_META", "ITEM_GRE_KEY", "ITEM_GTP_PSC", "ITEM_PPPOES",
   "ITEM_PPPOED", "ITEM_PPPOE_PROTO_ID", "ITEM_HIGIG2", "ITEM_TAG", "ITEM_L2TPV3OIP",
   "ITEM_ESP", "ITEM_AH", "ITEM_PFCP", "ITEM_ECPRI", "ITEM_GENEVE_OPT", "ITEM_INTEGRITY",
   "ITEM_CONNTRACK", "ITEM_PORT_REPRESENTOR", "ITEM_REPRESENTED_PORT", "ITEM_FLEX",
   "ITEM_L2TPV2", "ITEM_PPP", "END_SET"}
item_fuzzy == {"ITEM_FUZZY_THRESH", "ITEM_NEXT"}
item_any == {"ITEM_ANY_NUM", "ITEM_NEXT"}
item_vf_pasted == {"ITEM_PORT_ID_ID", "ITEM_NEXT"}
item_vf == {"ITEM_VF_ID", "ITEM_NEXT"}
item_phy_port == {"ITEM_PHY_PORT_INDEX", "ITEM_NEXT"}
item_port_id == {"ITEM_PORT_ID_ID", "ITEM_NEXT"}
item_mark == {"ITEM_MARK_ID", "ITEM_NEXT"}
item_raw ==
  {"ITEM_RAW_RELATIVE", "ITEM_RAW_SEARCH", "ITEM_RAW_OFFSET", "ITEM_RAW_LIMIT",
   "ITEM_RAW_PATTERN", "ITEM_NEXT"}
item_eth == {"ITEM_ETH_DST", "ITEM_ETH_SRC", "ITEM_ETH_TYPE", "ITEM_ETH_HAS_VLAN", "ITEM_NEXT"}
item_vlan ==
  {"ITEM_VLAN_TCI", "ITEM_VLAN_PCP", "ITEM_VLAN_DEI", "ITEM_VLAN_VID",
   "ITEM_VLAN_INNER_TYPE", "ITEM_VLAN_HAS_MORE_VLAN", "ITEM_NEXT"}
item_ipv4 ==
  {"ITEM_IPV4_VER_IHL", "ITEM_IPV4_TOS", "ITEM_IPV4_ID", "ITEM_IPV4_FRAGMENT_OFFSET",
   "ITEM_IPV4_TTL", "ITEM_IPV4_PROTO", "ITEM_IPV4_SRC", "ITEM_IPV4_DST", "ITEM_NEXT"}
item_ipv6 ==
  {"ITEM_IPV6_TC", "ITEM_IPV6_FLOW", "ITEM_IPV6_PROTO", "ITEM_IPV6_HOP", "ITEM_IPV6_SRC",
   "ITEM_IPV6_DST", "ITEM_IPV6_HAS_FRAG_EXT", "ITEM_NEXT"}
item_icmp ==
  {"ITEM_ICMP_TYPE", "ITEM_ICMP_CODE", "ITEM_ICMP_IDENT", "ITEM_ICMP_SEQ", "ITEM_NEXT"}
item_udp == {"ITEM_UDP_SRC", "ITEM_UDP_DST", "ITEM_NEXT"}
item_tcp == {"ITEM_TCP_SRC", "ITEM_TCP_DST", "ITEM_TCP_FLAGS", "ITEM_NEXT"}
item_sctp == {"ITEM_SCTP_SRC", "ITEM_SCTP_DST", "ITEM_SCTP_TAG", "ITEM_SCTP_CKSUM", "ITEM_NEXT"}
item_vxlan == {"ITEM_VXLAN_VNI", "ITEM_VXLAN_LAST_RSVD", "ITEM_NEXT"}
item_e_tag == {"ITEM_E_TAG_GRP_ECID_B", "ITEM_NEXT"}
item_nvgre == {"ITEM_NVGRE_TNI", "ITEM_NEXT"}
item_mpls == {"ITEM_MPLS_LABEL", "ITEM_MPLS_TC", "ITEM_MPLS_S", "ITEM_NEXT"}
item_gre ==
  {"ITEM_GRE_PROTO", "ITEM_GRE_C_RSVD0_VER", "ITEM_GRE_C_BIT", "ITEM_GRE_K_BIT",
   "ITEM_GRE_S_BIT", "ITEM_NEXT"}
item_gre_key == {"ITEM_GRE_KEY_VALUE", "ITEM_NEXT"}
item_gtp == {"ITEM_GTP_FLAGS", "ITEM_GTP_MSG_TYPE", "ITEM_GTP_TEID", "ITEM_NEXT"}
item_geneve == {"ITEM_GENEVE_VNI", "ITEM_GENEVE_PROTO", "ITEM_GENEVE_OPTLEN", "ITEM_NEXT"}
item_vxlan_gpe == {"ITEM_VXLAN_GPE_VNI", "ITEM_NEXT"}
item_arp_eth_ipv4 ==
  {"ITEM_ARP_ETH_IPV4_SHA", "ITEM_ARP_ETH_IPV4_SPA", "ITEM_ARP_ETH_IPV4_THA",
   "ITEM_ARP_ETH_IPV4_TPA", "ITEM_NEXT"}
item_ipv6_ext == {"ITEM_IPV6_EXT_NEXT_HDR", "ITEM_NEXT"}
item_ipv6_frag_ext ==
  {"ITEM_IPV6_FRAG_EXT_NEXT_HDR", "ITEM_IPV6_FRAG_EXT_FRAG_DATA", "ITEM_IPV6_FRAG_EXT_ID",
   "ITEM_NEXT"}
item_icmp6 == {"ITEM_ICMP6_TYPE", "ITEM_ICMP6_CODE", "ITEM_NEXT"}
item_icmp6_nd_ns == {"ITEM_ICMP6_ND_NS_TARGET_ADDR", "ITEM_NEXT"}
item_icmp6_nd_na == {"ITEM_ICMP6_ND_NA_TARGET_ADDR", "ITEM_NEXT"}
item_icmp6_nd_opt == {"ITEM_ICMP6_ND_OPT_TYPE", "ITEM_NEXT"}
item_icmp6_nd_opt_sla_eth == {"ITEM_ICMP6_ND_OPT_SLA_ETH_SLA", "ITEM_NEXT"}
item_icmp6_nd_opt_tla_eth == {"ITEM_ICMP6_ND_OPT_TLA_ETH_TLA", "ITEM_NEXT"}
item_meta == {"ITEM_META_DATA", "ITEM_NEXT"}
item_gtp_psc == {"ITEM_GTP_PSC_QFI", "ITEM_GTP_PSC_PDU_T", "ITEM_NEXT"}
item_pppoed == {"ITEM_PPPOE_SEID", "ITEM_NEXT"}
item_pppoes == {"ITEM_PPPOE_SEID", "ITEM_NEXT"}
item_pppoe_proto_id == {"ITEM_NEXT"}
item_higig2 == {"ITEM_HIGIG2_CLASSIFICATION", "ITEM_HIGIG2_VID", "ITEM_NEXT"}
item_esp == {"ITEM_ESP_SPI", "ITEM_NEXT"}
item_ah == {"ITEM_AH_SPI", "ITEM_NEXT"}
item_pfcp == {"ITEM_PFCP_S_FIELD", "ITEM_PFCP_SEID", "ITEM_NEXT"}
next_set_raw == {"SET_RAW_INDEX", "ITEM_ETH"}
item_tag == {"ITEM_TAG_DATA", "ITEM_TAG_INDEX", "ITEM_NEXT"}
item_l2tpv3oip == {"ITEM_L2TPV3OIP_SESSION_ID", "ITEM_NEXT"}
item_ecpri == {"ITEM_ECPRI_COMMON", "ITEM_NEXT"}
item_ecpri_common == {"ITEM_ECPRI_COMMON_TYPE"}
item_ecpri_common_type ==
  {"ITEM_ECPRI_COMMON_TYPE_IQ_DATA", "ITEM_ECPRI_COMMON_TYPE_RTC_CTRL",
   "ITEM_ECPRI_COMMON_TYPE_DLY_MSR"}
item_geneve_opt ==
  {"ITEM_GENEVE_OPT_CLASS", "ITEM_GENEVE_OPT_TYPE", "ITEM_GENEVE_OPT_LENGTH",
   "ITEM_GENEVE_OPT_DATA", "ITEM_NEXT"}
item_integrity == {"ITEM_INTEGRITY_LEVEL", "ITEM_INTEGRITY_VALUE"}
item_integrity_lv == {"ITEM_INTEGRITY_LEVEL", "ITEM_INTEGRITY_VALUE", "ITEM_NEXT"}
item_port_representor == {"ITEM_PORT_REPRESENTOR_PORT_ID", "ITEM_NEXT"}
item_represented_port == {"ITEM_REPRESENTED_PORT_ETHDEV_PORT_ID", "ITEM_NEXT"}
item_flex == {"ITEM_FLEX_PATTERN_HANDLE", "ITEM_FLEX_ITEM_HANDLE", "ITEM_NEXT"}
item_l2tpv2 == {"ITEM_L2TPV2_COMMON", "ITEM_NEXT"}
item_l2tpv2_common == {"ITEM_L2TPV2_COMMON_TYPE"}
item_l2tpv2_common_type == {"ITEM_L2TPV2_COMMON_TYPE_DATA_L", "ITEM_L2TPV2_COMMON_TYPE_CTRL"}
item_ppp == {"ITEM_PPP_ADDR", "ITEM_PPP_CTRL", "ITEM_PPP_PROTO_ID", "ITEM_NEXT"}
next_action ==
  {"ACTION_END", "ACTION_VOID", "ACTION_PASSTHRU", "ACTION_JUMP", "ACTION_MARK",
   "ACTION_FLAG", "ACTION_QUEUE", "ACTION_DROP", "ACTION_COUNT", "ACTION_RSS", "ACTION_PF",
   "ACTION_VF", "ACTION_PHY_PORT", "ACTION_PORT_ID", "ACTION_METER", "ACTION_METER_COLOR",
   "ACTION_OF_SET_MPLS_TTL", "ACTION_OF_DEC_MPLS_TTL", "ACTION_OF_SET_NW_TTL",
   "ACTION_OF_DEC_NW_TTL", "ACTION_OF_COPY_TTL_OUT", "ACTION_OF_COPY_TTL_IN",
   "ACTION_OF_POP_VLAN", "ACTION_OF_PUSH_VLAN", "ACTION_OF_SET_VLAN_VID",
   "ACTION_OF_SET_VLAN_PCP", "ACTION_OF_POP_MPLS", "ACTION_OF_PUSH_MPLS",
   "ACTION_VXLAN_ENCAP", "ACTION_VXLAN_DECAP", "ACTION_NVGRE_ENCAP", "ACTION_NVGRE_DECAP",
   "ACTION_L2_ENCAP", "ACTION_L2_DECAP", "ACTION_MPLSOGRE_ENCAP", "ACTION_MPLSOGRE_DECAP",
   "ACTION_MPLSOUDP_ENCAP", "ACTION_MPLSOUDP_DECAP", "ACTION_SET_IPV4_SRC",
   "ACTION_SET_IPV4_DST", "ACTION_SET_IPV6_SRC", "ACTION_SET_IPV6_DST", "ACTION_SET_TP_SRC",
   "ACTION_SET_TP_DST", "ACTION_MAC_SWAP", "ACTION_DEC_TTL", "ACTION_SET_TTL",
   "ACTION_SET_MAC_SRC", "ACTION_SET_MAC_DST", "ACTION_INC_TCP_SEQ", "ACTION_DEC_TCP_SEQ",
   "ACTION_INC_TCP_ACK", "ACTION_DEC_TCP_ACK", "ACTION_RAW_ENCAP", "ACTION_RAW_DECAP",
   "ACTION_SET_TAG", "ACTION_SET_META", "ACTION_SET_IPV4_DSCP", "ACTION_SET_IPV6_DSCP",
   "ACTION_AGE", "ACTION_SAMPLE", "ACTION_INDIRECT", "ACTION_MODIFY_FIELD",
   "ACTION_CONNTRACK", "ACTION_CONNTRACK_UPDATE", "ACTION_PORT_REPRESENTOR",
   "ACTION_REPRESENTED_PORT"}
action_mark == {"ACTION_MARK_ID", "ACTION_NEXT"}
action_queue == {"ACTION_QUEUE_INDEX", "ACTION_NEXT"}
action_count == {"ACTION_COUNT_ID", "ACTION_NEXT"}
action_rss ==
  {"ACTION_RSS_FUNC", "ACTION_RSS_LEVEL", "ACTION_RSS_TYPES", "ACTION_RSS_KEY",
   "ACTION_RSS_KEY_LEN", "ACTION_RSS_QUEUES", "ACTION_NEXT"}
action_vf == {"ACTION_VF_ORIGINAL", "ACTION_VF_ID", "ACTION_NEXT"}
action_phy_port == {"ACTION_PHY_PORT_ORIGINAL", "ACTION_PHY_PORT_INDEX", "ACTION_NEXT"}
action_port_id == {"ACTION_PORT_ID_ORIGINAL", "ACTION_PORT_ID_ID", "ACTION_NEXT"}
action_meter == {"ACTION_METER_ID", "ACTION_NEXT"}
action_meter_color == {"ACTION_METER_COLOR_TYPE", "ACTION_NEXT"}
action_of_set_mpls_ttl == {"ACTION_OF_SET_MPLS_TTL_MPLS_TTL", "ACTION_NEXT"}
action_of_set_nw_ttl == {"ACTION_OF_SET_NW_TTL_NW_TTL", "ACTION_NEXT"}
action_of_push_vlan == {"ACTION_OF_PUSH_VLAN_ETHERTYPE", "ACTION_NEXT"}
action_of_set_vlan_vid == {"ACTION_OF_SET_VLAN_VID_VLAN_VID", "ACTION_NEXT"}
action_of_set_vlan_pcp == {"ACTION_OF_SET_VLAN_PCP_VLAN_PCP", "ACTION_NEXT"}
action_of_pop_mpls == {"ACTION_OF_POP_MPLS_ETHERTYPE", "ACTION_NEXT"}
action_of_push_mpls == {"ACTION_OF_PUSH_MPLS_ETHERTYPE", "ACTION_NEXT"}
action_set_ipv4_src == {"ACTION_SET_IPV4_SRC_IPV4_SRC", "ACTION_NEXT"}
action_set_mac_src == {"ACTION_SET_MAC_SRC_MAC_SRC", "ACTION_NEXT"}
action_set_ipv4_dst == {"ACTION_SET_IPV4_DST_IPV4_DST", "ACTION_NEXT"}
action_set_ipv6_src == {"ACTION_SET_IPV6_SRC_IPV6_SRC", "ACTION_NEXT"}
action_set_ipv6_dst == {"ACTION_SET_IPV6_DST_IPV6_DST", "ACTION_NEXT"}
action_set_tp_src == {"ACTION_SET_TP_SRC_TP_SRC", "ACTION_NEXT"}
action_set_tp_dst == {"ACTION_SET_TP_DST_TP_DST", "ACTION_NEXT"}
action_set_ttl == {"ACTION_SET_TTL_TTL", "ACTION_NEXT"}
action_jump == {"ACTION_JUMP_GROUP", "ACTION_NEXT"}
action_set_mac_dst == {"ACTION_SET_MAC_DST_MAC_DST", "ACTION_NEXT"}
action_inc_tcp_seq == {"ACTION_INC_TCP_SEQ_VALUE", "ACTION_NEXT"}
action_dec_tcp_seq == {"ACTION_DEC_TCP_SEQ_VALUE", "ACTION_NEXT"}
action_inc_tcp_ack == {"ACTION_INC_TCP_ACK_VALUE", "ACTION_NEXT"}
action_dec_tcp_ack == {"ACTION_DEC_TCP_ACK_VALUE", "ACTION_NEXT"}
action_raw_encap == {"ACTION_RAW_ENCAP_INDEX", "ACTION_NEXT"}
action_raw_decap == {"ACTION_RAW_DECAP_INDEX", "ACTION_NEXT"}
action_set_tag ==
  {"ACTION_SET_TAG_DATA", "ACTION_SET_TAG_INDEX", "ACTION_SET_TAG_MASK", "ACTION_NEXT"}
action_set_meta == {"ACTION_SET_META_DATA", "ACTION_SET_META_MASK", "ACTION_NEXT"}
action_set_ipv4_dscp == {"ACTION_SET_IPV4_DSCP_VALUE", "ACTION_NEXT"}
action_set_ipv6_dscp == {"ACTION_SET_IPV6_DSCP_VALUE", "ACTION_NEXT"}
action_age == {"ACTION_AGE", "ACTION_AGE_TIMEOUT", "ACTION_NEXT"}
action_sample == {"ACTION_SAMPLE", "ACTION_SAMPLE_RATIO", "ACTION_SAMPLE_INDEX", "ACTION_NEXT"}
next_action_sample ==
  {"ACTION_QUEUE", "ACTION_RSS", "ACTION_MARK", "ACTION_COUNT", "ACTION_PORT_ID",
   "ACTION_RAW_ENCAP", "ACTION_VXLAN_ENCAP", "ACTION_NVGRE_ENCAP", "ACTION_NEXT"}
action_modify_field_dst ==
  {"ACTION_MODIFY_FIELD_DST_LEVEL", "ACTION_MODIFY_FIELD_DST_OFFSET",
   "ACTION_MODIFY_FIELD_SRC_TYPE"}
action_modify_field_src ==
  {"ACTION_MODIFY_FIELD_SRC_LEVEL", "ACTION_MODIFY_FIELD_SRC_OFFSET",
   "ACTION_MODIFY_FIELD_SRC_VALUE", "ACTION_MODIFY_FIELD_SRC_POINTER",
   "ACTION_MODIFY_FIELD_WIDTH"}
action_update_conntrack ==
  {"ACTION_CONNTRACK_UPDATE_DIR", "ACTION_CONNTRACK_UPDATE_CTX", "ACTION_NEXT"}
action_port_representor == {"ACTION_PORT_REPRESENTOR_PORT_ID", "ACTION_NEXT"}
action_represented_port == {"ACTION_REPRESENTED_PORT_ETHDEV_PORT_ID", "ACTION_NEXT"}

\* Lists the table spells out.
NEXT_ENTRY(t) == {t}
NEXT_ENTRY_2(t, u) == {t, u}
NEXT_ENTRY_3(t, u, v) == {t, u, v}
flow_keywords ==
  {"INDIRECT_ACTION", "VALIDATE", "CREATE", "DESTROY", "FLUSH", "DUMP", "LIST", "AGED",
   "QUERY", "ISOLATE", "TUNNEL", "FLEX"}
item_l2tpv2_msg_data_l ==
  {"ITEM_L2TPV2_MSG_DATA_L_LENGTH", "ITEM_L2TPV2_MSG_DATA_L_TUNNEL_ID",
   "ITEM_L2TPV2_MSG_DATA_L_SESSION_ID", "ITEM_NEXT"}
item_l2tpv2_msg_ctrl ==
  {"ITEM_L2TPV2_MSG_CTRL_LENGTH", "ITEM_L2TPV2_MSG_CTRL_TUNNEL_ID",
   "ITEM_L2TPV2_MSG_CTRL_SESSION_ID", "ITEM_L2TPV2_MSG_CTRL_NS", "ITEM_L2TPV2_MSG_CTRL_NR",
   "ITEM_NEXT"}
action_rss_func ==
  {"ACTION_RSS_FUNC_DEFAULT", "ACTION_RSS_FUNC_TOEPLITZ", "ACTION_RSS_FUNC_SIMPLE_XOR",
   "ACTION_RSS_FUNC_SYMMETRIC_TOEPLITZ"}
-----------------------------------------------------------------------------
(* The shapes a token takes.                                               *)

Token(callback, lists, fields, struct) ==
  [call |-> callback, next |-> lists, args |-> fields, priv |-> struct]

Word(lists) == Token("parse_default", lists, <<>>, "none")
Call(callback, lists) == Token(callback, lists, <<>>, "none")

\* An item or an action, and the list of its fields.
Place(fields, struct) == Token("parse_vc", <<fields>>, <<>>, struct)
BareItem == Place(NEXT_ENTRY("ITEM_NEXT"), "void")
BareAction == Place(NEXT_ENTRY("ACTION_NEXT"), "void")

\* A field of an item (is, spec, last, mask or prefix, then its value) and
\* a field of an action (its value).
Field(fields, value, struct) ==
  Token("parse_default", <<fields, NEXT_ENTRY(value), item_param>>, <<struct>>, "none")
Conf(fields, value, struct) ==
  Token("parse_vc_conf", <<fields, NEXT_ENTRY(value)>>, <<struct>>, "none")

\* A row of the table: what each of the names has.
Each(names, token) == [names |-> names, token |-> token]

-----------------------------------------------------------------------------
(* The token definitions.                                                  *)

common_tokens ==
  { Each({"ZERO"}, Word(<<NEXT_ENTRY_2("FLOW", "ADD")>>)),
    Each({"END", "END_SET"}, Word(<<>>)),
    Each({"START_SET"}, Word(<<NEXT_ENTRY("SET")>>)),
    Each({"COMMON_INTEGER", "COMMON_UNSIGNED", "COMMON_RULE_ID", "COMMON_GROUP_ID",
           "COMMON_PRIORITY_LEVEL", "COMMON_INDIRECT_ACTION_ID", "COMMON_POLICY_ID",
           "COMMON_FLEX_TOKEN"}, Call("parse_int", <<>>)),
    Each({"COMMON_PREFIX"}, Call("parse_prefix", <<>>)),
    Each({"COMMON_BOOLEAN"}, Call("parse_boolean", <<>>)),
    Each({"COMMON_STRING"}, Call("parse_string", <<>>)),
    Each({"COMMON_HEX"}, Call("parse_hex", <<>>)),
    Each({"COMMON_FILE_PATH"}, Call("parse_string0", <<>>)),
    Each({"COMMON_MAC_ADDR"}, Call("parse_mac_addr", <<>>)),
    Each({"COMMON_IPV4_ADDR"}, Call("parse_ipv4_addr", <<>>)),
    Each({"COMMON_IPV6_ADDR"}, Call("parse_ipv6_addr", <<>>)),
    Each({"COMMON_PORT_ID"}, Call("parse_port", <<>>)),
    Each({"COMMON_FLEX_HANDLE"}, Call("parse_flex_handle", <<>>)) }

command_tokens ==
  { Each({"FLOW"}, Call("parse_init", <<flow_keywords>>)),
    Each({"INDIRECT_ACTION"}, Token("parse_ia", <<next_ia_subcmd,
           NEXT_ENTRY("COMMON_PORT_ID")>>, <<"buffer">>, "none")),
    Each({"INDIRECT_ACTION_CREATE"}, Call("parse_ia", <<next_ia_create_attr>>)),
    Each({"INDIRECT_ACTION_UPDATE"}, Token("parse_ia", <<NEXT_ENTRY("INDIRECT_ACTION_SPEC"),
           NEXT_ENTRY("COMMON_INDIRECT_ACTION_ID")>>, <<"buffer">>, "none")),
    Each({"INDIRECT_ACTION_DESTROY"}, Token("parse_ia_destroy",
           <<NEXT_ENTRY("INDIRECT_ACTION_DESTROY_ID")>>, <<"buffer">>, "none")),
    Each({"INDIRECT_ACTION_QUERY"}, Token("parse_ia", <<NEXT_ENTRY("END"),
           NEXT_ENTRY("COMMON_INDIRECT_ACTION_ID")>>, <<"buffer">>, "none")),
    Each({"VALIDATE", "CREATE"}, Token("parse_vc", <<next_vc_attr,
           NEXT_ENTRY("COMMON_PORT_ID")>>, <<"buffer">>, "none")),
    Each({"DESTROY"}, Token("parse_destroy", <<NEXT_ENTRY("DESTROY_RULE"),
           NEXT_ENTRY("COMMON_PORT_ID")>>, <<"buffer">>, "none")),
    Each({"FLUSH"}, Token("parse_flush", <<NEXT_ENTRY("COMMON_PORT_ID")>>, <<"buffer">>,
           "none")),
    Each({"DUMP"}, Token("parse_dump", <<next_dump_subcmd, NEXT_ENTRY("COMMON_PORT_ID")>>,
           <<"buffer">>, "none")),
    Each({"QUERY"}, Token("parse_query", <<NEXT_ENTRY("QUERY_ACTION"),
           NEXT_ENTRY("COMMON_RULE_ID"), NEXT_ENTRY("COMMON_PORT_ID")>>, <<"buffer",
           "buffer", "buffer">>, "none")),
    Each({"LIST"}, Token("parse_list", <<next_list_attr, NEXT_ENTRY("COMMON_PORT_ID")>>,
           <<"buffer">>, "none")),
    Each({"AGED"}, Token("parse_aged", <<next_aged_attr, NEXT_ENTRY("COMMON_PORT_ID")>>,
           <<"buffer">>, "none")),
    Each({"ISOLATE"}, Token("parse_isolate", <<NEXT_ENTRY("COMMON_BOOLEAN"),
           NEXT_ENTRY("COMMON_PORT_ID")>>, <<"buffer", "buffer">>, "none")) }

flex_tunnel_tokens ==
  { Each({"FLEX"}, Call("parse_flex", <<next_flex_item>>)),
    Each({"FLEX_ITEM_INIT", "FLEX_ITEM_DESTROY"}, Token("parse_flex",
           <<NEXT_ENTRY("COMMON_FLEX_TOKEN"), NEXT_ENTRY("COMMON_PORT_ID")>>, <<"buffer",
           "buffer">>, "none")),
    Each({"FLEX_ITEM_CREATE"}, Token("parse_flex", <<NEXT_ENTRY("COMMON_FILE_PATH"),
           NEXT_ENTRY("COMMON_FLEX_TOKEN"), NEXT_ENTRY("COMMON_PORT_ID")>>, <<"buffer",
           "buffer", "buffer">>, "none")),
    Each({"TUNNEL"}, Call("parse_tunnel", <<NEXT_ENTRY_3("TUNNEL_CREATE", "TUNNEL_LIST",
           "TUNNEL_DESTROY")>>)),
    Each({"TUNNEL_CREATE"}, Token("parse_tunnel", <<NEXT_ENTRY("TUNNEL_CREATE_TYPE"),
           NEXT_ENTRY("COMMON_PORT_ID")>>, <<"buffer">>, "none")),
    Each({"TUNNEL_CREATE_TYPE"}, Token("parse_tunnel", <<NEXT_ENTRY("COMMON_FILE_PATH")>>,
           <<"tunnel_ops">>, "none")),
    Each({"TUNNEL_DESTROY"}, Token("parse_tunnel", <<NEXT_ENTRY("TUNNEL_DESTROY_ID"),
           NEXT_ENTRY("COMMON_PORT_ID")>>, <<"buffer">>, "none")),
    Each({"TUNNEL_DESTROY_ID"}, Token("parse_tunnel", <<NEXT_ENTRY("COMMON_UNSIGNED")>>,
           <<"tunnel_ops">>, "none")),
    Each({"TUNNEL_LIST"}, Token("parse_tunnel", <<NEXT_ENTRY("COMMON_PORT_ID")>>,
           <<"buffer">>, "none")),
    Each({"DESTROY_RULE"}, Token("parse_destroy", <<next_destroy_attr,
           NEXT_ENTRY("COMMON_RULE_ID")>>, <<"rule">>, "none")),
    Each({"DUMP_ALL"}, Token("parse_dump", <<next_dump_attr>>, <<"buffer">>, "none")),
    Each({"DUMP_ONE"}, Token("parse_dump", <<next_dump_attr, NEXT_ENTRY("COMMON_RULE_ID")>>,
           <<"buffer", "buffer">>, "none")),
    Each({"QUERY_ACTION"}, Call("parse_action", <<>>)),
    Each({"LIST_GROUP"}, Token("parse_list", <<next_list_attr,
           NEXT_ENTRY("COMMON_GROUP_ID")>>, <<"group">>, "none")),
    Each({"AGED_DESTROY"}, Call("parse_aged", <<>>)) }

attr_tokens ==
  { Each({"VC_GROUP"}, Token("parse_vc", <<next_vc_attr, NEXT_ENTRY("COMMON_GROUP_ID")>>,
           <<"attr">>, "none")),
    Each({"VC_PRIORITY"}, Token("parse_vc", <<next_vc_attr,
           NEXT_ENTRY("COMMON_PRIORITY_LEVEL")>>, <<"attr">>, "none")),
    Each({"VC_INGRESS", "VC_EGRESS", "VC_TRANSFER"}, Call("parse_vc", <<next_vc_attr>>)),
    Each({"VC_TUNNEL_SET", "VC_TUNNEL_MATCH"}, Token("parse_vc", <<next_vc_attr,
           NEXT_ENTRY("COMMON_UNSIGNED")>>, <<"tunnel_ops">>, "none")),
    Each({"ITEM_PATTERN"}, Call("parse_vc", <<next_item>>)),
    Each({"ITEM_PARAM_IS", "ITEM_PARAM_SPEC", "ITEM_PARAM_LAST", "ITEM_PARAM_MASK",
           "ITEM_PARAM_PREFIX"}, Call("parse_vc_spec", <<>>)) }

pattern_items ==
  { Each({"ITEM_NEXT"}, Word(<<next_item>>)),
    Each({"ITEM_END"}, Place(NEXT_ENTRY("ACTIONS"), "void")),
    Each({"ITEM_VOID", "ITEM_INVERT", "ITEM_PF"}, BareItem),
    Each({"ITEM_ANY"}, Place(item_any, "item_any")),
    Each({"ITEM_ANY_NUM"}, Field(item_any, "COMMON_UNSIGNED", "item_any")),
    Each({"ITEM_VF"}, Place(item_vf, "item_vf")),
    Each({"ITEM_VF_ID"}, Field(item_vf, "COMMON_UNSIGNED", "item_vf")),
    Each({"ITEM_PHY_PORT"}, Place(item_phy_port, "item_phy_port")),
    Each({"ITEM_PHY_PORT_INDEX"}, Field(item_phy_port, "COMMON_UNSIGNED", "item_phy_port")),
    Each({"ITEM_PORT_ID"}, Place(item_port_id, "item_port_id")),
    Each({"ITEM_PORT_ID_ID"}, Field(item_port_id, "COMMON_UNSIGNED", "item_port_id")),
    Each({"ITEM_MARK"}, Place(item_mark, "item_mark")),
    Each({"ITEM_MARK_ID"}, Field(item_mark, "COMMON_UNSIGNED", "item_mark")),
    Each({"ITEM_RAW"}, Place(item_raw, "item_raw")),
    Each({"ITEM_RAW_RELATIVE", "ITEM_RAW_SEARCH"}, Field(item_raw, "COMMON_BOOLEAN",
           "item_raw")),
    Each({"ITEM_RAW_OFFSET"}, Field(item_raw, "COMMON_INTEGER", "item_raw")),
    Each({"ITEM_RAW_LIMIT"}, Field(item_raw, "COMMON_UNSIGNED", "item_raw")),
    Each({"ITEM_RAW_PATTERN"}, Token("parse_default", <<item_raw,
           NEXT_ENTRY("COMMON_STRING"), NEXT_ENTRY_3("ITEM_PARAM_IS", "ITEM_PARAM_SPEC",
           "ITEM_PARAM_MASK")>>, <<"item_raw", "item_raw", "item_raw">>, "none")) }

l2_items ==
  { Each({"ITEM_ETH"}, Place(item_eth, "item_eth")),
    Each({"ITEM_ETH_DST", "ITEM_ETH_SRC"}, Field(item_eth, "COMMON_MAC_ADDR", "item_eth")),
    Each({"ITEM_ETH_TYPE", "ITEM_ETH_HAS_VLAN"}, Field(item_eth, "COMMON_UNSIGNED",
           "item_eth")),
    Each({"ITEM_VLAN"}, Place(item_vlan, "item_vlan")),
    Each({"ITEM_VLAN_TCI", "ITEM_VLAN_PCP", "ITEM_VLAN_DEI", "ITEM_VLAN_VID",
           "ITEM_VLAN_INNER_TYPE", "ITEM_VLAN_HAS_MORE_VLAN"}, Field(item_vlan,
           "COMMON_UNSIGNED", "item_vlan")) }

ip_items ==
  { Each({"ITEM_IPV4"}, Place(item_ipv4, "item_ipv4")),
    Each({"ITEM_IPV4_VER_IHL", "ITEM_IPV4_TOS", "ITEM_IPV4_ID", "ITEM_IPV4_FRAGMENT_OFFSET",
           "ITEM_IPV4_TTL", "ITEM_IPV4_PROTO"}, Field(item_ipv4, "COMMON_UNSIGNED",
           "item_ipv4")),
    Each({"ITEM_IPV4_SRC", "ITEM_IPV4_DST"}, Field(item_ipv4, "COMMON_IPV4_ADDR",
           "item_ipv4")),
    Each({"ITEM_IPV6"}, Place(item_ipv6, "item_ipv6")),
    Each({"ITEM_IPV6_TC", "ITEM_IPV6_FLOW", "ITEM_IPV6_PROTO", "ITEM_IPV6_HOP",
           "ITEM_IPV6_HAS_FRAG_EXT"}, Field(item_ipv6, "COMMON_UNSIGNED", "item_ipv6")),
    Each({"ITEM_IPV6_SRC", "ITEM_IPV6_DST"}, Field(item_ipv6, "COMMON_IPV6_ADDR",
           "item_ipv6")) }

l4_items ==
  { Each({"ITEM_ICMP"}, Place(item_icmp, "item_icmp")),
    Each({"ITEM_ICMP_TYPE", "ITEM_ICMP_CODE", "ITEM_ICMP_IDENT", "ITEM_ICMP_SEQ"},
           Field(item_icmp, "COMMON_UNSIGNED", "item_icmp")),
    Each({"ITEM_UDP"}, Place(item_udp, "item_udp")),
    Each({"ITEM_UDP_SRC", "ITEM_UDP_DST"}, Field(item_udp, "COMMON_UNSIGNED", "item_udp")),
    Each({"ITEM_TCP"}, Place(item_tcp, "item_tcp")),
    Each({"ITEM_TCP_SRC", "ITEM_TCP_DST", "ITEM_TCP_FLAGS"}, Field(item_tcp,
           "COMMON_UNSIGNED", "item_tcp")),
    Each({"ITEM_SCTP"}, Place(item_sctp, "item_sctp")),
    Each({"ITEM_SCTP_SRC", "ITEM_SCTP_DST", "ITEM_SCTP_TAG", "ITEM_SCTP_CKSUM"},
           Field(item_sctp, "COMMON_UNSIGNED", "item_sctp")) }

tunnel_items ==
  { Each({"ITEM_VXLAN"}, Place(item_vxlan, "item_vxlan")),
    Each({"ITEM_VXLAN_VNI", "ITEM_VXLAN_LAST_RSVD"}, Field(item_vxlan, "COMMON_UNSIGNED",
           "item_vxlan")),
    Each({"ITEM_E_TAG"}, Place(item_e_tag, "item_e_tag")),
    Each({"ITEM_E_TAG_GRP_ECID_B"}, Field(item_e_tag, "COMMON_UNSIGNED", "item_e_tag")),
    Each({"ITEM_NVGRE"}, Place(item_nvgre, "item_nvgre")),
    Each({"ITEM_NVGRE_TNI"}, Field(item_nvgre, "COMMON_UNSIGNED", "item_nvgre")),
    Each({"ITEM_MPLS"}, Place(item_mpls, "item_mpls")),
    Each({"ITEM_MPLS_LABEL", "ITEM_MPLS_TC", "ITEM_MPLS_S"}, Field(item_mpls,
           "COMMON_UNSIGNED", "item_mpls")),
    Each({"ITEM_GRE"}, Place(item_gre, "item_gre")),
    Each({"ITEM_GRE_PROTO", "ITEM_GRE_C_RSVD0_VER"}, Field(item_gre, "COMMON_UNSIGNED",
           "item_gre")),
    Each({"ITEM_GRE_C_BIT", "ITEM_GRE_S_BIT", "ITEM_GRE_K_BIT"}, Field(item_gre,
           "COMMON_BOOLEAN", "item_gre")) }

gtp_geneve_items ==
  { Each({"ITEM_FUZZY"}, Place(item_fuzzy, "item_fuzzy")),
    Each({"ITEM_FUZZY_THRESH"}, Field(item_fuzzy, "COMMON_UNSIGNED", "item_fuzzy")),
    Each({"ITEM_GTP", "ITEM_GTPC", "ITEM_GTPU"}, Place(item_gtp, "item_gtp")),
    Each({"ITEM_GTP_FLAGS", "ITEM_GTP_MSG_TYPE", "ITEM_GTP_TEID"}, Field(item_gtp,
           "COMMON_UNSIGNED", "item_gtp")),
    Each({"ITEM_GENEVE"}, Place(item_geneve, "item_geneve")),
    Each({"ITEM_GENEVE_VNI", "ITEM_GENEVE_PROTO", "ITEM_GENEVE_OPTLEN"}, Field(item_geneve,
           "COMMON_UNSIGNED", "item_geneve")),
    Each({"ITEM_VXLAN_GPE"}, Place(item_vxlan_gpe, "item_vxlan_gpe")),
    Each({"ITEM_VXLAN_GPE_VNI"}, Field(item_vxlan_gpe, "COMMON_UNSIGNED", "item_vxlan_gpe")) }

ipv6_ext_items ==
  { Each({"ITEM_ARP_ETH_IPV4"}, Place(item_arp_eth_ipv4, "item_arp_eth_ipv4")),
    Each({"ITEM_ARP_ETH_IPV4_SHA", "ITEM_ARP_ETH_IPV4_THA"}, Field(item_arp_eth_ipv4,
           "COMMON_MAC_ADDR", "item_arp_eth_ipv4")),
    Each({"ITEM_ARP_ETH_IPV4_SPA", "ITEM_ARP_ETH_IPV4_TPA"}, Field(item_arp_eth_ipv4,
           "COMMON_IPV4_ADDR", "item_arp_eth_ipv4")),
    Each({"ITEM_IPV6_EXT"}, Place(item_ipv6_ext, "item_ipv6_ext")),
    Each({"ITEM_IPV6_EXT_NEXT_HDR"}, Field(item_ipv6_ext, "COMMON_UNSIGNED",
           "item_ipv6_ext")),
    Each({"ITEM_IPV6_FRAG_EXT"}, Place(item_ipv6_frag_ext, "item_ipv6_frag_ext")),
    Each({"ITEM_IPV6_FRAG_EXT_NEXT_HDR", "ITEM_IPV6_FRAG_EXT_FRAG_DATA",
           "ITEM_IPV6_FRAG_EXT_ID"}, Field(item_ipv6_frag_ext, "COMMON_UNSIGNED",
           "item_ipv6_frag_ext")) }

icmp6_items ==
  { Each({"ITEM_ICMP6"}, Place(item_icmp6, "item_icmp6")),
    Each({"ITEM_ICMP6_TYPE", "ITEM_ICMP6_CODE"}, Field(item_icmp6, "COMMON_UNSIGNED",
           "item_icmp6")),
    Each({"ITEM_ICMP6_ND_NS"}, Place(item_icmp6_nd_ns, "item_icmp6_nd_ns")),
    Each({"ITEM_ICMP6_ND_NS_TARGET_ADDR"}, Field(item_icmp6_nd_ns, "COMMON_IPV6_ADDR",
           "item_icmp6_nd_ns")),
    Each({"ITEM_ICMP6_ND_NA"}, Place(item_icmp6_nd_na, "item_icmp6_nd_na")),
    Each({"ITEM_ICMP6_ND_NA_TARGET_ADDR"}, Field(item_icmp6_nd_na, "COMMON_IPV6_ADDR",
           "item_icmp6_nd_na")),
    Each({"ITEM_ICMP6_ND_OPT"}, Place(item_icmp6_nd_opt, "item_icmp6_nd_opt")),
    Each({"ITEM_ICMP6_ND_OPT_TYPE"}, Field(item_icmp6_nd_opt, "COMMON_UNSIGNED",
           "item_icmp6_nd_opt")),
    Each({"ITEM_ICMP6_ND_OPT_SLA_ETH"}, Place(item_icmp6_nd_opt_sla_eth,
           "item_icmp6_nd_opt_sla_eth")),
    Each({"ITEM_ICMP6_ND_OPT_SLA_ETH_SLA"}, Field(item_icmp6_nd_opt_sla_eth,
           "COMMON_MAC_ADDR", "item_icmp6_nd_opt_sla_eth")),
    Each({"ITEM_ICMP6_ND_OPT_TLA_ETH"}, Place(item_icmp6_nd_opt_tla_eth,
           "item_icmp6_nd_opt_tla_eth")),
    Each({"ITEM_ICMP6_ND_OPT_TLA_ETH_TLA"}, Field(item_icmp6_nd_opt_tla_eth,
           "COMMON_MAC_ADDR", "item_icmp6_nd_opt_tla_eth")),
    Each({"ITEM_META"}, Place(item_meta, "item_meta")),
    Each({"ITEM_META_DATA"}, Field(item_meta, "COMMON_UNSIGNED", "item_meta")) }

session_items ==
  { Each({"ITEM_GRE_KEY"}, Place(item_gre_key, "rte_be32_t")),
    Each({"ITEM_GRE_KEY_VALUE"}, Field(item_gre_key, "COMMON_UNSIGNED", "rte_be32_t")),
    Each({"ITEM_GTP_PSC"}, Place(item_gtp_psc, "item_gtp_psc")),
    Each({"ITEM_GTP_PSC_QFI", "ITEM_GTP_PSC_PDU_T"}, Field(item_gtp_psc, "COMMON_UNSIGNED",
           "item_gtp_psc")),
    Each({"ITEM_PPPOES"}, Place(item_pppoes, "item_pppoe")),
    Each({"ITEM_PPPOED"}, Place(item_pppoed, "item_pppoe")),
    Each({"ITEM_PPPOE_SEID"}, Field(item_pppoes, "COMMON_UNSIGNED", "item_pppoe")),
    Each({"ITEM_PPPOE_PROTO_ID"}, Token("parse_vc", <<item_pppoe_proto_id,
           NEXT_ENTRY("COMMON_UNSIGNED"), item_param>>, <<"item_pppoe_proto_id">>,
           "item_pppoe_proto_id")),
    Each({"ITEM_HIGIG2"}, Place(item_higig2, "item_higig2_hdr")),
    Each({"ITEM_HIGIG2_CLASSIFICATION", "ITEM_HIGIG2_VID"}, Field(item_higig2,
           "COMMON_UNSIGNED", "item_higig2_hdr")),
    Each({"ITEM_TAG"}, Place(item_tag, "item_tag")),
    Each({"ITEM_TAG_DATA"}, Field(item_tag, "COMMON_UNSIGNED", "item_tag")),
    Each({"ITEM_TAG_INDEX"}, Token("parse_default", <<item_tag,
           NEXT_ENTRY("COMMON_UNSIGNED"), NEXT_ENTRY("ITEM_PARAM_IS")>>, <<"item_tag">>,
           "none")) }

ecpri_items ==
  { Each({"ITEM_L2TPV3OIP"}, Place(item_l2tpv3oip, "item_l2tpv3oip")),
    Each({"ITEM_L2TPV3OIP_SESSION_ID"}, Field(item_l2tpv3oip, "COMMON_UNSIGNED",
           "item_l2tpv3oip")),
    Each({"ITEM_ESP"}, Place(item_esp, "item_esp")),
    Each({"ITEM_ESP_SPI"}, Field(item_esp, "COMMON_UNSIGNED", "item_esp")),
    Each({"ITEM_AH"}, Place(item_ah, "item_ah")),
    Each({"ITEM_AH_SPI"}, Field(item_ah, "COMMON_UNSIGNED", "item_ah")),
    Each({"ITEM_PFCP"}, Place(item_pfcp, "item_pfcp")),
    Each({"ITEM_PFCP_S_FIELD", "ITEM_PFCP_SEID"}, Field(item_pfcp, "COMMON_UNSIGNED",
           "item_pfcp")),
    Each({"ITEM_ECPRI"}, Place(item_ecpri, "item_ecpri")),
    Each({"ITEM_ECPRI_COMMON"}, Word(<<item_ecpri_common>>)),
    Each({"ITEM_ECPRI_COMMON_TYPE"}, Token("parse_default", <<item_ecpri_common_type>>,
           <<"item_ecpri">>, "none")),
    Each({"ITEM_ECPRI_COMMON_TYPE_IQ_DATA"}, Call("parse_vc_item_ecpri_type",
           <<NEXT_ENTRY_2("ITEM_ECPRI_MSG_IQ_DATA_PCID", "ITEM_NEXT")>>)),
    Each({"ITEM_ECPRI_MSG_IQ_DATA_PCID"}, Field(NEXT_ENTRY_3("ITEM_ECPRI_MSG_IQ_DATA_PCID",
           "ITEM_ECPRI_COMMON", "ITEM_NEXT"), "COMMON_UNSIGNED", "item_ecpri")),
    Each({"ITEM_ECPRI_COMMON_TYPE_RTC_CTRL"}, Call("parse_vc_item_ecpri_type",
           <<NEXT_ENTRY_2("ITEM_ECPRI_MSG_RTC_CTRL_RTCID", "ITEM_NEXT")>>)),
    Each({"ITEM_ECPRI_MSG_RTC_CTRL_RTCID"},
           Field(NEXT_ENTRY_3("ITEM_ECPRI_MSG_RTC_CTRL_RTCID", "ITEM_ECPRI_COMMON",
           "ITEM_NEXT"), "COMMON_UNSIGNED", "item_ecpri")),
    Each({"ITEM_ECPRI_COMMON_TYPE_DLY_MSR"}, Call("parse_vc_item_ecpri_type",
           <<NEXT_ENTRY_2("ITEM_ECPRI_MSG_DLY_MSR_MSRID", "ITEM_NEXT")>>)),
    Each({"ITEM_ECPRI_MSG_DLY_MSR_MSRID"},
           Field(NEXT_ENTRY_3("ITEM_ECPRI_MSG_DLY_MSR_MSRID", "ITEM_ECPRI_COMMON",
           "ITEM_NEXT"), "COMMON_UNSIGNED", "item_ecpri")) }

option_items ==
  { Each({"ITEM_GENEVE_OPT"}, Place(item_geneve_opt, "item_geneve_opt")),
    Each({"ITEM_GENEVE_OPT_CLASS", "ITEM_GENEVE_OPT_TYPE", "ITEM_GENEVE_OPT_LENGTH"},
           Field(item_geneve_opt, "COMMON_UNSIGNED", "item_geneve_opt")),
    Each({"ITEM_GENEVE_OPT_DATA"}, Token("parse_default", <<item_geneve_opt,
           NEXT_ENTRY("COMMON_HEX"), item_param>>, <<"item_geneve_opt", "none",
           "item_geneve_opt">>, "none")),
    Each({"ITEM_INTEGRITY"}, Place(item_integrity, "item_integrity")),
    Each({"ITEM_INTEGRITY_LEVEL", "ITEM_INTEGRITY_VALUE"}, Field(item_integrity_lv,
           "COMMON_UNSIGNED", "item_integrity")),
    Each({"ITEM_CONNTRACK"}, Field(NEXT_ENTRY("ITEM_NEXT"), "COMMON_UNSIGNED",
           "item_conntrack")),
    Each({"ITEM_PORT_REPRESENTOR"}, Place(item_port_representor, "item_ethdev")),
    Each({"ITEM_PORT_REPRESENTOR_PORT_ID"}, Field(item_port_representor, "COMMON_UNSIGNED",
           "item_ethdev")),
    Each({"ITEM_REPRESENTED_PORT"}, Place(item_represented_port, "item_ethdev")),
    Each({"ITEM_REPRESENTED_PORT_ETHDEV_PORT_ID"}, Field(item_represented_port,
           "COMMON_UNSIGNED", "item_ethdev")),
    Each({"ITEM_FLEX"}, Place(item_flex, "item_flex")),
    Each({"ITEM_FLEX_ITEM_HANDLE", "ITEM_FLEX_PATTERN_HANDLE"}, Token("parse_default",
           <<item_flex, NEXT_ENTRY("COMMON_FLEX_HANDLE"), NEXT_ENTRY("ITEM_PARAM_IS")>>,
           <<"item_flex">>, "none")) }

l2tpv2_items ==
  { Each({"ITEM_L2TPV2"}, Place(item_l2tpv2, "item_l2tpv2")),
    Each({"ITEM_L2TPV2_COMMON"}, Word(<<item_l2tpv2_common>>)),
    Each({"ITEM_L2TPV2_COMMON_TYPE"}, Token("parse_default", <<item_l2tpv2_common_type>>,
           <<"item_l2tpv2">>, "none")),
    Each({"ITEM_L2TPV2_COMMON_TYPE_DATA_L"}, Call("parse_vc_item_l2tpv2_type",
           <<item_l2tpv2_msg_data_l>>)),
    Each({"ITEM_L2TPV2_MSG_DATA_L_LENGTH"},
           Field(NEXT_ENTRY_3("ITEM_L2TPV2_MSG_DATA_L_LENGTH", "ITEM_L2TPV2_COMMON",
           "ITEM_NEXT"), "COMMON_UNSIGNED", "item_l2tpv2")),
    Each({"ITEM_L2TPV2_MSG_DATA_L_TUNNEL_ID"},
           Field(NEXT_ENTRY_3("ITEM_L2TPV2_MSG_DATA_L_TUNNEL_ID", "ITEM_L2TPV2_COMMON",
           "ITEM_NEXT"), "COMMON_UNSIGNED", "item_l2tpv2")),
    Each({"ITEM_L2TPV2_MSG_DATA_L_SESSION_ID"},
           Field(NEXT_ENTRY_3("ITEM_L2TPV2_MSG_DATA_L_SESSION_ID", "ITEM_L2TPV2_COMMON",
           "ITEM_NEXT"), "COMMON_UNSIGNED", "item_l2tpv2")),
    Each({"ITEM_L2TPV2_COMMON_TYPE_CTRL"}, Call("parse_vc_item_l2tpv2_type",
           <<item_l2tpv2_msg_ctrl>>)),
    Each({"ITEM_L2TPV2_MSG_CTRL_LENGTH"}, Field(NEXT_ENTRY_3("ITEM_L2TPV2_MSG_CTRL_LENGTH",
           "ITEM_L2TPV2_COMMON", "ITEM_NEXT"), "COMMON_UNSIGNED", "item_l2tpv2")),
    Each({"ITEM_L2TPV2_MSG_CTRL_TUNNEL_ID"},
           Field(NEXT_ENTRY_3("ITEM_L2TPV2_MSG_CTRL_TUNNEL_ID", "ITEM_L2TPV2_COMMON",
           "ITEM_NEXT"), "COMMON_UNSIGNED", "item_l2tpv2")),
    Each({"ITEM_L2TPV2_MSG_CTRL_SESSION_ID"},
           Field(NEXT_ENTRY_3("ITEM_L2TPV2_MSG_CTRL_SESSION_ID", "ITEM_L2TPV2_COMMON",
           "ITEM_NEXT"), "COMMON_UNSIGNED", "item_l2tpv2")),
    Each({"ITEM_L2TPV2_MSG_CTRL_NS", "ITEM_L2TPV2_MSG_CTRL_NR"},
           Field(NEXT_ENTRY_3("ITEM_L2TPV2_MSG_CTRL_NS", "ITEM_L2TPV2_COMMON", "ITEM_NEXT"),
           "COMMON_UNSIGNED", "item_l2tpv2")),
    Each({"ITEM_PPP"}, Place(item_ppp, "item_ppp")),
    Each({"ITEM_PPP_ADDR", "ITEM_PPP_CTRL", "ITEM_PPP_PROTO_ID"}, Field(item_ppp,
           "COMMON_UNSIGNED", "item_ppp")) }

actions_tokens ==
  { Each({"ACTIONS"}, Call("parse_vc", <<next_action>>)),
    Each({"ACTION_NEXT"}, Word(<<next_action>>)),
    Each({"ACTION_END"}, Token("parse_vc", <<>>, <<>>, "void")),
    Each({"ACTION_VOID", "ACTION_PASSTHRU", "ACTION_FLAG", "ACTION_DROP"}, BareAction),
    Each({"ACTION_JUMP"}, Place(action_jump, "action_jump")),
    Each({"ACTION_JUMP_GROUP"}, Conf(action_jump, "COMMON_UNSIGNED", "action_jump")),
    Each({"ACTION_MARK"}, Place(action_mark, "action_mark")),
    Each({"ACTION_MARK_ID"}, Conf(action_mark, "COMMON_UNSIGNED", "action_mark")),
    Each({"ACTION_QUEUE"}, Place(action_queue, "action_queue")),
    Each({"ACTION_QUEUE_INDEX"}, Conf(action_queue, "COMMON_UNSIGNED", "action_queue")),
    Each({"ACTION_COUNT"}, Place(action_count, "action_count")),
    Each({"ACTION_COUNT_ID"}, Conf(action_count, "COMMON_UNSIGNED", "action_count")) }

rss_tokens ==
  { Each({"ACTION_RSS"}, Token("parse_vc_action_rss", <<action_rss>>, <<>>,
           "action_rss_data")),
    Each({"ACTION_RSS_FUNC"}, Word(<<action_rss, action_rss_func>>)),
    Each({"ACTION_RSS_FUNC_DEFAULT", "ACTION_RSS_FUNC_TOEPLITZ",
           "ACTION_RSS_FUNC_SIMPLE_XOR", "ACTION_RSS_FUNC_SYMMETRIC_TOEPLITZ"},
           Call("parse_vc_action_rss_func", <<>>)),
    Each({"ACTION_RSS_LEVEL", "ACTION_RSS_KEY_LEN"}, Token("parse_default", <<action_rss,
           NEXT_ENTRY("COMMON_UNSIGNED")>>, <<"action_rss_data">>, "none")),
    Each({"ACTION_RSS_TYPES"}, Word(<<action_rss, NEXT_ENTRY("ACTION_RSS_TYPE")>>)),
    Each({"ACTION_RSS_TYPE"}, Call("parse_vc_action_rss_type", <<>>)),
    Each({"ACTION_RSS_KEY"}, Token("parse_default", <<action_rss,
           NEXT_ENTRY("COMMON_HEX")>>, <<"action_rss_data", "action_rss_data",
           "action_rss_data">>, "none")),
    Each({"ACTION_RSS_QUEUES"}, Call("parse_vc_conf", <<action_rss,
           NEXT_ENTRY("ACTION_RSS_QUEUE")>>)),
    Each({"ACTION_RSS_QUEUE"}, Call("parse_vc_action_rss_queue", <<>>)) }

port_meter_actions ==
  { Each({"ACTION_PF"}, BareAction),
    Each({"ACTION_VF"}, Place(action_vf, "action_vf")),
    Each({"ACTION_VF_ORIGINAL"}, Conf(action_vf, "COMMON_BOOLEAN", "action_vf")),
    Each({"ACTION_VF_ID"}, Conf(action_vf, "COMMON_UNSIGNED", "action_vf")),
    Each({"ACTION_PHY_PORT"}, Place(action_phy_port, "action_phy_port")),
    Each({"ACTION_PHY_PORT_ORIGINAL"}, Conf(action_phy_port, "COMMON_BOOLEAN",
           "action_phy_port")),
    Each({"ACTION_PHY_PORT_INDEX"}, Conf(action_phy_port, "COMMON_UNSIGNED",
           "action_phy_port")),
    Each({"ACTION_PORT_ID"}, Place(action_port_id, "action_port_id")),
    Each({"ACTION_PORT_ID_ORIGINAL"}, Conf(action_port_id, "COMMON_BOOLEAN",
           "action_port_id")),
    Each({"ACTION_PORT_ID_ID"}, Conf(action_port_id, "COMMON_UNSIGNED", "action_port_id")),
    Each({"ACTION_METER"}, Place(action_meter, "action_meter")),
    Each({"ACTION_METER_COLOR"}, Place(action_meter_color, "action_meter_color")),
    Each({"ACTION_METER_COLOR_TYPE"}, Word(<<NEXT_ENTRY("ACTION_NEXT"),
           NEXT_ENTRY_3("ACTION_METER_COLOR_GREEN", "ACTION_METER_COLOR_YELLOW",
           "ACTION_METER_COLOR_RED")>>)),
    Each({"ACTION_METER_COLOR_GREEN", "ACTION_METER_COLOR_YELLOW",
           "ACTION_METER_COLOR_RED"}, Call("parse_vc_action_meter_color_type", <<>>)),
    Each({"ACTION_METER_ID"}, Conf(action_meter, "COMMON_UNSIGNED", "action_meter")),
    Each({"ACTION_OF_SET_MPLS_TTL"}, Place(action_of_set_mpls_ttl,
           "action_of_set_mpls_ttl")),
    Each({"ACTION_OF_SET_MPLS_TTL_MPLS_TTL"}, Conf(action_of_set_mpls_ttl,
           "COMMON_UNSIGNED", "action_of_set_mpls_ttl")) }

openflow_actions ==
  { Each({"ACTION_OF_DEC_MPLS_TTL", "ACTION_OF_DEC_NW_TTL", "ACTION_OF_COPY_TTL_OUT",
           "ACTION_OF_COPY_TTL_IN", "ACTION_OF_POP_VLAN"}, BareAction),
    Each({"ACTION_OF_SET_NW_TTL"}, Place(action_of_set_nw_ttl, "action_of_set_nw_ttl")),
    Each({"ACTION_OF_SET_NW_TTL_NW_TTL"}, Conf(action_of_set_nw_ttl, "COMMON_UNSIGNED",
           "action_of_set_nw_ttl")),
    Each({"ACTION_OF_PUSH_VLAN"}, Place(action_of_push_vlan, "action_of_push_vlan")),
    Each({"ACTION_OF_PUSH_VLAN_ETHERTYPE"}, Conf(action_of_push_vlan, "COMMON_UNSIGNED",
           "action_of_push_vlan")),
    Each({"ACTION_OF_SET_VLAN_VID"}, Place(action_of_set_vlan_vid,
           "action_of_set_vlan_vid")),
    Each({"ACTION_OF_SET_VLAN_VID_VLAN_VID"}, Conf(action_of_set_vlan_vid,
           "COMMON_UNSIGNED", "action_of_set_vlan_vid")),
    Each({"ACTION_OF_SET_VLAN_PCP"}, Place(action_of_set_vlan_pcp,
           "action_of_set_vlan_pcp")),
    Each({"ACTION_OF_SET_VLAN_PCP_VLAN_PCP"}, Conf(action_of_set_vlan_pcp,
           "COMMON_UNSIGNED", "action_of_set_vlan_pcp")),
    Each({"ACTION_OF_POP_MPLS"}, Place(action_of_pop_mpls, "action_of_pop_mpls")),
    Each({"ACTION_OF_POP_MPLS_ETHERTYPE"}, Conf(action_of_pop_mpls, "COMMON_UNSIGNED",
           "action_of_pop_mpls")),
    Each({"ACTION_OF_PUSH_MPLS"}, Place(action_of_push_mpls, "action_of_push_mpls")),
    Each({"ACTION_OF_PUSH_MPLS_ETHERTYPE"}, Conf(action_of_push_mpls, "COMMON_UNSIGNED",
           "action_of_push_mpls")) }

encap_actions ==
  { Each({"ACTION_VXLAN_ENCAP"}, Token("parse_vc_action_vxlan_encap",
           <<NEXT_ENTRY("ACTION_NEXT")>>, <<>>, "action_vxlan_encap_data")),
    Each({"ACTION_VXLAN_DECAP", "ACTION_NVGRE_DECAP"}, BareAction),
    Each({"ACTION_NVGRE_ENCAP"}, Token("parse_vc_action_nvgre_encap",
           <<NEXT_ENTRY("ACTION_NEXT")>>, <<>>, "action_nvgre_encap_data")),
    Each({"ACTION_L2_ENCAP"}, Token("parse_vc_action_l2_encap",
           <<NEXT_ENTRY("ACTION_NEXT")>>, <<>>, "action_raw_encap_data")),
    Each({"ACTION_L2_DECAP"}, Token("parse_vc_action_l2_decap",
           <<NEXT_ENTRY("ACTION_NEXT")>>, <<>>, "action_raw_decap_data")),
    Each({"ACTION_MPLSOGRE_ENCAP"}, Token("parse_vc_action_mplsogre_encap",
           <<NEXT_ENTRY("ACTION_NEXT")>>, <<>>, "action_raw_encap_data")),
    Each({"ACTION_MPLSOGRE_DECAP"}, Token("parse_vc_action_mplsogre_decap",
           <<NEXT_ENTRY("ACTION_NEXT")>>, <<>>, "action_raw_decap_data")),
    Each({"ACTION_MPLSOUDP_ENCAP"}, Token("parse_vc_action_mplsoudp_encap",
           <<NEXT_ENTRY("ACTION_NEXT")>>, <<>>, "action_raw_encap_data")),
    Each({"ACTION_MPLSOUDP_DECAP"}, Token("parse_vc_action_mplsoudp_decap",
           <<NEXT_ENTRY("ACTION_NEXT")>>, <<>>, "action_raw_decap_data")) }

set_address_actions ==
  { Each({"ACTION_SET_IPV4_SRC"}, Place(action_set_ipv4_src, "action_set_ipv4")),
    Each({"ACTION_SET_IPV4_SRC_IPV4_SRC"}, Conf(action_set_ipv4_src, "COMMON_IPV4_ADDR",
           "action_set_ipv4")),
    Each({"ACTION_SET_IPV4_DST"}, Place(action_set_ipv4_dst, "action_set_ipv4")),
    Each({"ACTION_SET_IPV4_DST_IPV4_DST"}, Conf(action_set_ipv4_dst, "COMMON_IPV4_ADDR",
           "action_set_ipv4")),
    Each({"ACTION_SET_IPV6_SRC"}, Place(action_set_ipv6_src, "action_set_ipv6")),
    Each({"ACTION_SET_IPV6_SRC_IPV6_SRC"}, Conf(action_set_ipv6_src, "COMMON_IPV6_ADDR",
           "action_set_ipv6")),
    Each({"ACTION_SET_IPV6_DST"}, Place(action_set_ipv6_dst, "action_set_ipv6")),
    Each({"ACTION_SET_IPV6_DST_IPV6_DST"}, Conf(action_set_ipv6_dst, "COMMON_IPV6_ADDR",
           "action_set_ipv6")),
    Each({"ACTION_SET_TP_SRC"}, Place(action_set_tp_src, "action_set_tp")),
    Each({"ACTION_SET_TP_SRC_TP_SRC"}, Conf(action_set_tp_src, "COMMON_UNSIGNED",
           "action_set_tp")),
    Each({"ACTION_SET_TP_DST"}, Place(action_set_tp_dst, "action_set_tp")),
    Each({"ACTION_SET_TP_DST_TP_DST"}, Conf(action_set_tp_dst, "COMMON_UNSIGNED",
           "action_set_tp")) }

mac_tcp_actions ==
  { Each({"ACTION_MAC_SWAP", "ACTION_DEC_TTL"}, BareAction),
    Each({"ACTION_SET_TTL"}, Place(action_set_ttl, "action_set_ttl")),
    Each({"ACTION_SET_TTL_TTL"}, Conf(action_set_ttl, "COMMON_UNSIGNED", "action_set_ttl")),
    Each({"ACTION_SET_MAC_SRC"}, Place(action_set_mac_src, "action_set_mac")),
    Each({"ACTION_SET_MAC_SRC_MAC_SRC"}, Conf(action_set_mac_src, "COMMON_MAC_ADDR",
           "action_set_mac")),
    Each({"ACTION_SET_MAC_DST"}, Place(action_set_mac_dst, "action_set_mac")),
    Each({"ACTION_SET_MAC_DST_MAC_DST"}, Conf(action_set_mac_dst, "COMMON_MAC_ADDR",
           "action_set_mac")),
    Each({"ACTION_INC_TCP_SEQ"}, Place(action_inc_tcp_seq, "rte_be32_t")),
    Each({"ACTION_INC_TCP_SEQ_VALUE"}, Conf(action_inc_tcp_seq, "COMMON_UNSIGNED",
           "rte_be32_t")),
    Each({"ACTION_DEC_TCP_SEQ"}, Place(action_dec_tcp_seq, "rte_be32_t")),
    Each({"ACTION_DEC_TCP_SEQ_VALUE"}, Conf(action_dec_tcp_seq, "COMMON_UNSIGNED",
           "rte_be32_t")),
    Each({"ACTION_INC_TCP_ACK"}, Place(action_inc_tcp_ack, "rte_be32_t")),
    Each({"ACTION_INC_TCP_ACK_VALUE"}, Conf(action_inc_tcp_ack, "COMMON_UNSIGNED",
           "rte_be32_t")),
    Each({"ACTION_DEC_TCP_ACK"}, Place(action_dec_tcp_ack, "rte_be32_t")),
    Each({"ACTION_DEC_TCP_ACK_VALUE"}, Conf(action_dec_tcp_ack, "COMMON_UNSIGNED",
           "rte_be32_t")) }

raw_actions ==
  { Each({"ACTION_RAW_ENCAP"}, Token("parse_vc_action_raw_encap", <<action_raw_encap>>,
           <<>>, "action_raw_encap_data")),
    Each({"ACTION_RAW_ENCAP_INDEX"}, Word(<<NEXT_ENTRY("ACTION_RAW_ENCAP_INDEX_VALUE")>>)),
    Each({"ACTION_RAW_ENCAP_INDEX_VALUE"}, Call("parse_vc_action_raw_encap_index",
           <<NEXT_ENTRY("ACTION_NEXT")>>)),
    Each({"ACTION_RAW_DECAP"}, Token("parse_vc_action_raw_decap", <<action_raw_decap>>,
           <<>>, "action_raw_decap_data")),
    Each({"ACTION_RAW_DECAP_INDEX"}, Word(<<NEXT_ENTRY("ACTION_RAW_DECAP_INDEX_VALUE")>>)),
    Each({"ACTION_RAW_DECAP_INDEX_VALUE"}, Call("parse_vc_action_raw_decap_index",
           <<NEXT_ENTRY("ACTION_NEXT")>>)) }

modify_field_actions ==
  { Each({"ACTION_MODIFY_FIELD"}, Place(NEXT_ENTRY("ACTION_MODIFY_FIELD_OP"),
           "action_modify_field")),
    Each({"ACTION_MODIFY_FIELD_OP"}, Call("parse_vc_conf",
           <<NEXT_ENTRY("ACTION_MODIFY_FIELD_DST_TYPE"),
           NEXT_ENTRY("ACTION_MODIFY_FIELD_OP_VALUE")>>)),
    Each({"ACTION_MODIFY_FIELD_OP_VALUE"}, Call("parse_vc_modify_field_op", <<>>)),
    Each({"ACTION_MODIFY_FIELD_DST_TYPE"}, Call("parse_vc_conf", <<action_modify_field_dst,
           NEXT_ENTRY("ACTION_MODIFY_FIELD_DST_TYPE_VALUE")>>)),
    Each({"ACTION_MODIFY_FIELD_DST_TYPE_VALUE", "ACTION_MODIFY_FIELD_SRC_TYPE_VALUE"},
           Call("parse_vc_modify_field_id", <<>>)),
    Each({"ACTION_MODIFY_FIELD_DST_LEVEL", "ACTION_MODIFY_FIELD_DST_OFFSET"},
           Conf(action_modify_field_dst, "COMMON_UNSIGNED", "action_modify_field")),
    Each({"ACTION_MODIFY_FIELD_SRC_TYPE"}, Call("parse_vc_conf", <<action_modify_field_src,
           NEXT_ENTRY("ACTION_MODIFY_FIELD_SRC_TYPE_VALUE")>>)),
    Each({"ACTION_MODIFY_FIELD_SRC_LEVEL", "ACTION_MODIFY_FIELD_SRC_OFFSET"},
           Conf(action_modify_field_src, "COMMON_UNSIGNED", "action_modify_field")),
    Each({"ACTION_MODIFY_FIELD_SRC_VALUE"}, Token("parse_vc_conf",
           <<NEXT_ENTRY("ACTION_MODIFY_FIELD_WIDTH"), NEXT_ENTRY("COMMON_HEX")>>, <<"none",
           "none", "action_modify_field">>, "none")),
    Each({"ACTION_MODIFY_FIELD_SRC_POINTER"}, Token("parse_vc_conf",
           <<NEXT_ENTRY("ACTION_MODIFY_FIELD_WIDTH"), NEXT_ENTRY("COMMON_HEX")>>,
           <<"action_modify_field", "none", "action_modify_field">>, "none")),
    Each({"ACTION_MODIFY_FIELD_WIDTH"}, Conf(NEXT_ENTRY("ACTION_NEXT"), "COMMON_UNSIGNED",
           "action_modify_field")) }

set_tokens ==
  { Each({"SET"}, Call("parse_set_init", <<NEXT_ENTRY_3("SET_RAW_ENCAP", "SET_RAW_DECAP",
           "SET_SAMPLE_ACTIONS")>>)),
    Each({"SET_RAW_ENCAP", "SET_RAW_DECAP"}, Token("parse_set_raw_encap_decap",
           <<next_set_raw>>, <<"buffer">>, "none")),
    Each({"SET_RAW_INDEX"}, Call("parse_port", <<next_item>>)),
    Each({"SET_SAMPLE_INDEX"}, Call("parse_port", <<next_action_sample>>)),
    Each({"SET_SAMPLE_ACTIONS"}, Token("parse_set_sample_action",
           <<NEXT_ENTRY("SET_SAMPLE_INDEX")>>, <<"buffer">>, "none")),
    Each({"ACTION_SET_TAG"}, Place(action_set_tag, "action_set_tag")),
    Each({"ACTION_SET_TAG_INDEX", "ACTION_SET_TAG_DATA", "ACTION_SET_TAG_MASK"},
           Conf(action_set_tag, "COMMON_UNSIGNED", "action_set_tag")),
    Each({"ACTION_SET_META"}, Token("parse_vc_action_set_meta", <<action_set_meta>>, <<>>,
           "action_set_meta")),
    Each({"ACTION_SET_META_DATA", "ACTION_SET_META_MASK"}, Conf(action_set_meta,
           "COMMON_UNSIGNED", "action_set_meta")) }

age_sample_actions ==
  { Each({"ACTION_SET_IPV4_DSCP"}, Place(action_set_ipv4_dscp, "action_set_dscp")),
    Each({"ACTION_SET_IPV4_DSCP_VALUE"}, Conf(action_set_ipv4_dscp, "COMMON_UNSIGNED",
           "action_set_dscp")),
    Each({"ACTION_SET_IPV6_DSCP"}, Place(action_set_ipv6_dscp, "action_set_dscp")),
    Each({"ACTION_SET_IPV6_DSCP_VALUE"}, Conf(action_set_ipv6_dscp, "COMMON_UNSIGNED",
           "action_set_dscp")),
    Each({"ACTION_AGE"}, Place(action_age, "action_age")),
    Each({"ACTION_AGE_TIMEOUT"}, Conf(action_age, "COMMON_UNSIGNED", "action_age")),
    Each({"ACTION_SAMPLE"}, Token("parse_vc_action_sample", <<action_sample>>, <<>>,
           "action_sample_data")),
    Each({"ACTION_SAMPLE_RATIO"}, Token("parse_default", <<action_sample,
           NEXT_ENTRY("COMMON_UNSIGNED")>>, <<"action_sample_data">>, "none")),
    Each({"ACTION_SAMPLE_INDEX"}, Word(<<NEXT_ENTRY("ACTION_SAMPLE_INDEX_VALUE")>>)),
    Each({"ACTION_SAMPLE_INDEX_VALUE"}, Call("parse_vc_action_sample_index",
           <<NEXT_ENTRY("ACTION_NEXT")>>)),
    Each({"ACTION_CONNTRACK"}, Place(NEXT_ENTRY("ACTION_NEXT"), "action_conntrack")),
    Each({"ACTION_CONNTRACK_UPDATE"}, Place(action_update_conntrack, "modify_conntrack")),
    Each({"ACTION_CONNTRACK_UPDATE_DIR", "ACTION_CONNTRACK_UPDATE_CTX"},
           Call("parse_vc_action_conntrack_update", <<action_update_conntrack>>)),
    Each({"ACTION_PORT_REPRESENTOR"}, Place(action_port_representor, "action_ethdev")),
    Each({"ACTION_PORT_REPRESENTOR_PORT_ID"}, Conf(action_port_representor,
           "COMMON_UNSIGNED", "action_ethdev")),
    Each({"ACTION_REPRESENTED_PORT"}, Place(action_represented_port, "action_ethdev")),
    Each({"ACTION_REPRESENTED_PORT_ETHDEV_PORT_ID"}, Conf(action_represented_port,
           "COMMON_UNSIGNED", "action_ethdev")) }

indirect_policy_tokens ==
  { Each({"INDIRECT_ACTION_DESTROY_ID"}, Token("parse_ia_destroy", <<next_ia_destroy_attr,
           NEXT_ENTRY("COMMON_INDIRECT_ACTION_ID")>>, <<"action_id">>, "none")),
    Each({"INDIRECT_ACTION_CREATE_ID"}, Token("parse_default", <<next_ia_create_attr,
           NEXT_ENTRY("COMMON_INDIRECT_ACTION_ID")>>, <<"buffer">>, "none")),
    Each({"ACTION_INDIRECT"}, Token("parse_vc", <<NEXT_ENTRY("INDIRECT_ACTION_ID2PTR")>>,
           <<"id">>, "void")),
    Each({"INDIRECT_ACTION_ID2PTR"}, Call("parse_ia_id2ptr", <<NEXT_ENTRY("ACTION_NEXT")>>)),
    Each({"INDIRECT_ACTION_INGRESS", "INDIRECT_ACTION_EGRESS", "INDIRECT_ACTION_TRANSFER"},
           Call("parse_ia", <<next_ia_create_attr>>)),
    Each({"INDIRECT_ACTION_SPEC", "ACTION_POL_Y", "ACTION_POL_R"}, Word(<<next_action>>)),
    Each({"ACTION_POL_G"}, Call("parse_mp", <<next_action>>)),
    Each({"ADD"}, Call("parse_init", <<NEXT_ENTRY("ITEM_POL_PORT")>>)),
    Each({"ITEM_POL_PORT"}, Word(<<NEXT_ENTRY("ITEM_POL_METER")>>)),
    Each({"ITEM_POL_METER"}, Word(<<NEXT_ENTRY("ITEM_POL_POLICY")>>)),
    Each({"ITEM_POL_POLICY"}, Token("parse_mp", <<NEXT_ENTRY("ACTION_POL_R"),
           NEXT_ENTRY("ACTION_POL_Y"), NEXT_ENTRY("ACTION_POL_G"),
           NEXT_ENTRY("COMMON_POLICY_ID"), NEXT_ENTRY("COMMON_PORT_ID")>>, <<"buffer",
           "buffer">>, "none")) }

-----------------------------------------------------------------------------
(* The table.                                                              *)

rows ==
  common_tokens \cup command_tokens \cup flex_tunnel_tokens \cup attr_tokens \cup
  pattern_items \cup l2_items \cup ip_items \cup l4_items \cup tunnel_items \cup
  gtp_geneve_items \cup ipv6_ext_items \cup icmp6_items \cup session_items \cup
  ecpri_items \cup option_items \cup l2tpv2_items \cup actions_tokens \cup rss_tokens \cup
  port_meter_actions \cup openflow_actions \cup encap_actions \cup set_address_actions \cup
  mac_tcp_actions \cup raw_actions \cup modify_field_actions \cup set_tokens \cup
  age_sample_actions \cup indirect_policy_tokens

token_list ==
  [t \in UNION {row.names : row \in rows} |-> (CHOOSE row \in rows : t \in row.names).token]

=============================================================================
