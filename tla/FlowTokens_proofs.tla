--------------------------- MODULE FlowTokens_proofs ---------------------------
(***************************************************************************)
(* Lemmas about the table of the flow commands: its rows, the lists it     *)
(* names, and which tokens each list offers.                               *)
(***************************************************************************)
EXTENDS FlowTokens, SequenceTheorems, TLAPS

-----------------------------------------------------------------------------
(* The rows of the table: which names each group has.                      *)

common_tokens_names ==
  {"ZERO", "END", "END_SET", "START_SET", "COMMON_INTEGER", "COMMON_UNSIGNED",
   "COMMON_RULE_ID", "COMMON_GROUP_ID", "COMMON_PRIORITY_LEVEL",
   "COMMON_INDIRECT_ACTION_ID", "COMMON_POLICY_ID", "COMMON_FLEX_TOKEN", "COMMON_PREFIX",
   "COMMON_BOOLEAN", "COMMON_STRING", "COMMON_HEX", "COMMON_FILE_PATH", "COMMON_MAC_ADDR",
   "COMMON_IPV4_ADDR", "COMMON_IPV6_ADDR", "COMMON_PORT_ID", "COMMON_FLEX_HANDLE"}
command_tokens_names ==
  {"FLOW", "INDIRECT_ACTION", "INDIRECT_ACTION_CREATE", "INDIRECT_ACTION_UPDATE",
   "INDIRECT_ACTION_DESTROY", "INDIRECT_ACTION_QUERY", "VALIDATE", "CREATE", "DESTROY",
   "FLUSH", "DUMP", "QUERY", "LIST", "AGED", "ISOLATE"}
flex_tunnel_tokens_names ==
  {"FLEX", "FLEX_ITEM_INIT", "FLEX_ITEM_DESTROY", "FLEX_ITEM_CREATE", "TUNNEL",
   "TUNNEL_CREATE", "TUNNEL_CREATE_TYPE", "TUNNEL_DESTROY", "TUNNEL_DESTROY_ID",
   "TUNNEL_LIST", "DESTROY_RULE", "DUMP_ALL", "DUMP_ONE", "QUERY_ACTION", "LIST_GROUP",
   "AGED_DESTROY"}
attr_tokens_names ==
  {"VC_GROUP", "VC_PRIORITY", "VC_INGRESS", "VC_EGRESS", "VC_TRANSFER", "VC_TUNNEL_SET",
   "VC_TUNNEL_MATCH", "ITEM_PATTERN", "ITEM_PARAM_IS", "ITEM_PARAM_SPEC", "ITEM_PARAM_LAST",
   "ITEM_PARAM_MASK", "ITEM_PARAM_PREFIX"}
pattern_items_names ==
  {"ITEM_NEXT", "ITEM_END", "ITEM_VOID", "ITEM_INVERT", "ITEM_PF", "ITEM_ANY",
   "ITEM_ANY_NUM", "ITEM_VF", "ITEM_VF_ID", "ITEM_PHY_PORT", "ITEM_PHY_PORT_INDEX",
   "ITEM_PORT_ID", "ITEM_PORT_ID_ID", "ITEM_MARK", "ITEM_MARK_ID", "ITEM_RAW",
   "ITEM_RAW_RELATIVE", "ITEM_RAW_SEARCH", "ITEM_RAW_OFFSET", "ITEM_RAW_LIMIT",
   "ITEM_RAW_PATTERN"}
l2_items_names ==
  {"ITEM_ETH", "ITEM_ETH_DST", "ITEM_ETH_SRC", "ITEM_ETH_TYPE", "ITEM_ETH_HAS_VLAN",
   "ITEM_VLAN", "ITEM_VLAN_TCI", "ITEM_VLAN_PCP", "ITEM_VLAN_DEI", "ITEM_VLAN_VID",
   "ITEM_VLAN_INNER_TYPE", "ITEM_VLAN_HAS_MORE_VLAN"}
ip_items_names ==
  {"ITEM_IPV4", "ITEM_IPV4_VER_IHL", "ITEM_IPV4_TOS", "ITEM_IPV4_ID",
   "ITEM_IPV4_FRAGMENT_OFFSET", "ITEM_IPV4_TTL", "ITEM_IPV4_PROTO", "ITEM_IPV4_SRC",
   "ITEM_IPV4_DST", "ITEM_IPV6", "ITEM_IPV6_TC", "ITEM_IPV6_FLOW", "ITEM_IPV6_PROTO",
   "ITEM_IPV6_HOP", "ITEM_IPV6_HAS_FRAG_EXT", "ITEM_IPV6_SRC", "ITEM_IPV6_DST"}
l4_items_names ==
  {"ITEM_ICMP", "ITEM_ICMP_TYPE", "ITEM_ICMP_CODE", "ITEM_ICMP_IDENT", "ITEM_ICMP_SEQ",
   "ITEM_UDP", "ITEM_UDP_SRC", "ITEM_UDP_DST", "ITEM_TCP", "ITEM_TCP_SRC", "ITEM_TCP_DST",
   "ITEM_TCP_FLAGS", "ITEM_SCTP", "ITEM_SCTP_SRC", "ITEM_SCTP_DST", "ITEM_SCTP_TAG",
   "ITEM_SCTP_CKSUM"}
tunnel_items_names ==
  {"ITEM_VXLAN", "ITEM_VXLAN_VNI", "ITEM_VXLAN_LAST_RSVD", "ITEM_E_TAG",
   "ITEM_E_TAG_GRP_ECID_B", "ITEM_NVGRE", "ITEM_NVGRE_TNI", "ITEM_MPLS", "ITEM_MPLS_LABEL",
   "ITEM_MPLS_TC", "ITEM_MPLS_S", "ITEM_GRE", "ITEM_GRE_PROTO", "ITEM_GRE_C_RSVD0_VER",
   "ITEM_GRE_C_BIT", "ITEM_GRE_S_BIT", "ITEM_GRE_K_BIT"}
gtp_geneve_items_names ==
  {"ITEM_FUZZY", "ITEM_FUZZY_THRESH", "ITEM_GTP", "ITEM_GTPC", "ITEM_GTPU",
   "ITEM_GTP_FLAGS", "ITEM_GTP_MSG_TYPE", "ITEM_GTP_TEID", "ITEM_GENEVE", "ITEM_GENEVE_VNI",
   "ITEM_GENEVE_PROTO", "ITEM_GENEVE_OPTLEN", "ITEM_VXLAN_GPE", "ITEM_VXLAN_GPE_VNI"}
ipv6_ext_items_names ==
  {"ITEM_ARP_ETH_IPV4", "ITEM_ARP_ETH_IPV4_SHA", "ITEM_ARP_ETH_IPV4_THA",
   "ITEM_ARP_ETH_IPV4_SPA", "ITEM_ARP_ETH_IPV4_TPA", "ITEM_IPV6_EXT",
   "ITEM_IPV6_EXT_NEXT_HDR", "ITEM_IPV6_FRAG_EXT", "ITEM_IPV6_FRAG_EXT_NEXT_HDR",
   "ITEM_IPV6_FRAG_EXT_FRAG_DATA", "ITEM_IPV6_FRAG_EXT_ID"}
icmp6_items_names ==
  {"ITEM_ICMP6", "ITEM_ICMP6_TYPE", "ITEM_ICMP6_CODE", "ITEM_ICMP6_ND_NS",
   "ITEM_ICMP6_ND_NS_TARGET_ADDR", "ITEM_ICMP6_ND_NA", "ITEM_ICMP6_ND_NA_TARGET_ADDR",
   "ITEM_ICMP6_ND_OPT", "ITEM_ICMP6_ND_OPT_TYPE", "ITEM_ICMP6_ND_OPT_SLA_ETH",
   "ITEM_ICMP6_ND_OPT_SLA_ETH_SLA", "ITEM_ICMP6_ND_OPT_TLA_ETH",
   "ITEM_ICMP6_ND_OPT_TLA_ETH_TLA", "ITEM_META", "ITEM_META_DATA"}
session_items_names ==
  {"ITEM_GRE_KEY", "ITEM_GRE_KEY_VALUE", "ITEM_GTP_PSC", "ITEM_GTP_PSC_QFI",
   "ITEM_GTP_PSC_PDU_T", "ITEM_PPPOES", "ITEM_PPPOED", "ITEM_PPPOE_SEID",
   "ITEM_PPPOE_PROTO_ID", "ITEM_HIGIG2", "ITEM_HIGIG2_CLASSIFICATION", "ITEM_HIGIG2_VID",
   "ITEM_TAG", "ITEM_TAG_DATA", "ITEM_TAG_INDEX"}
ecpri_items_names ==
  {"ITEM_L2TPV3OIP", "ITEM_L2TPV3OIP_SESSION_ID", "ITEM_ESP", "ITEM_ESP_SPI", "ITEM_AH",
   "ITEM_AH_SPI", "ITEM_PFCP", "ITEM_PFCP_S_FIELD", "ITEM_PFCP_SEID", "ITEM_ECPRI",
   "ITEM_ECPRI_COMMON", "ITEM_ECPRI_COMMON_TYPE", "ITEM_ECPRI_COMMON_TYPE_IQ_DATA",
   "ITEM_ECPRI_MSG_IQ_DATA_PCID", "ITEM_ECPRI_COMMON_TYPE_RTC_CTRL",
   "ITEM_ECPRI_MSG_RTC_CTRL_RTCID", "ITEM_ECPRI_COMMON_TYPE_DLY_MSR",
   "ITEM_ECPRI_MSG_DLY_MSR_MSRID"}
option_items_names ==
  {"ITEM_GENEVE_OPT", "ITEM_GENEVE_OPT_CLASS", "ITEM_GENEVE_OPT_TYPE",
   "ITEM_GENEVE_OPT_LENGTH", "ITEM_GENEVE_OPT_DATA", "ITEM_INTEGRITY",
   "ITEM_INTEGRITY_LEVEL", "ITEM_INTEGRITY_VALUE", "ITEM_CONNTRACK",
   "ITEM_PORT_REPRESENTOR", "ITEM_PORT_REPRESENTOR_PORT_ID", "ITEM_REPRESENTED_PORT",
   "ITEM_REPRESENTED_PORT_ETHDEV_PORT_ID", "ITEM_FLEX", "ITEM_FLEX_ITEM_HANDLE",
   "ITEM_FLEX_PATTERN_HANDLE"}
l2tpv2_items_names ==
  {"ITEM_L2TPV2", "ITEM_L2TPV2_COMMON", "ITEM_L2TPV2_COMMON_TYPE",
   "ITEM_L2TPV2_COMMON_TYPE_DATA_L", "ITEM_L2TPV2_MSG_DATA_L_LENGTH",
   "ITEM_L2TPV2_MSG_DATA_L_TUNNEL_ID", "ITEM_L2TPV2_MSG_DATA_L_SESSION_ID",
   "ITEM_L2TPV2_COMMON_TYPE_CTRL", "ITEM_L2TPV2_MSG_CTRL_LENGTH",
   "ITEM_L2TPV2_MSG_CTRL_TUNNEL_ID", "ITEM_L2TPV2_MSG_CTRL_SESSION_ID",
   "ITEM_L2TPV2_MSG_CTRL_NS", "ITEM_L2TPV2_MSG_CTRL_NR", "ITEM_PPP", "ITEM_PPP_ADDR",
   "ITEM_PPP_CTRL", "ITEM_PPP_PROTO_ID"}
actions_tokens_names ==
  {"ACTIONS", "ACTION_NEXT", "ACTION_END", "ACTION_VOID", "ACTION_PASSTHRU", "ACTION_FLAG",
   "ACTION_DROP", "ACTION_JUMP", "ACTION_JUMP_GROUP", "ACTION_MARK", "ACTION_MARK_ID",
   "ACTION_QUEUE", "ACTION_QUEUE_INDEX", "ACTION_COUNT", "ACTION_COUNT_ID"}
rss_tokens_names ==
  {"ACTION_RSS", "ACTION_RSS_FUNC", "ACTION_RSS_FUNC_DEFAULT", "ACTION_RSS_FUNC_TOEPLITZ",
   "ACTION_RSS_FUNC_SIMPLE_XOR", "ACTION_RSS_FUNC_SYMMETRIC_TOEPLITZ", "ACTION_RSS_LEVEL",
   "ACTION_RSS_KEY_LEN", "ACTION_RSS_TYPES", "ACTION_RSS_TYPE", "ACTION_RSS_KEY",
   "ACTION_RSS_QUEUES", "ACTION_RSS_QUEUE"}
port_meter_actions_names ==
  {"ACTION_PF", "ACTION_VF", "ACTION_VF_ORIGINAL", "ACTION_VF_ID", "ACTION_PHY_PORT",
   "ACTION_PHY_PORT_ORIGINAL", "ACTION_PHY_PORT_INDEX", "ACTION_PORT_ID",
   "ACTION_PORT_ID_ORIGINAL", "ACTION_PORT_ID_ID", "ACTION_METER", "ACTION_METER_COLOR",
   "ACTION_METER_COLOR_TYPE", "ACTION_METER_COLOR_GREEN", "ACTION_METER_COLOR_YELLOW",
   "ACTION_METER_COLOR_RED", "ACTION_METER_ID", "ACTION_OF_SET_MPLS_TTL",
   "ACTION_OF_SET_MPLS_TTL_MPLS_TTL"}
openflow_actions_names ==
  {"ACTION_OF_DEC_MPLS_TTL", "ACTION_OF_DEC_NW_TTL", "ACTION_OF_COPY_TTL_OUT",
   "ACTION_OF_COPY_TTL_IN", "ACTION_OF_POP_VLAN", "ACTION_OF_SET_NW_TTL",
   "ACTION_OF_SET_NW_TTL_NW_TTL", "ACTION_OF_PUSH_VLAN", "ACTION_OF_PUSH_VLAN_ETHERTYPE",
   "ACTION_OF_SET_VLAN_VID", "ACTION_OF_SET_VLAN_VID_VLAN_VID", "ACTION_OF_SET_VLAN_PCP",
   "ACTION_OF_SET_VLAN_PCP_VLAN_PCP", "ACTION_OF_POP_MPLS", "ACTION_OF_POP_MPLS_ETHERTYPE",
   "ACTION_OF_PUSH_MPLS", "ACTION_OF_PUSH_MPLS_ETHERTYPE"}
encap_actions_names ==
  {"ACTION_VXLAN_ENCAP", "ACTION_VXLAN_DECAP", "ACTION_NVGRE_DECAP", "ACTION_NVGRE_ENCAP",
   "ACTION_L2_ENCAP", "ACTION_L2_DECAP", "ACTION_MPLSOGRE_ENCAP", "ACTION_MPLSOGRE_DECAP",
   "ACTION_MPLSOUDP_ENCAP", "ACTION_MPLSOUDP_DECAP"}
set_address_actions_names ==
  {"ACTION_SET_IPV4_SRC", "ACTION_SET_IPV4_SRC_IPV4_SRC", "ACTION_SET_IPV4_DST",
   "ACTION_SET_IPV4_DST_IPV4_DST", "ACTION_SET_IPV6_SRC", "ACTION_SET_IPV6_SRC_IPV6_SRC",
   "ACTION_SET_IPV6_DST", "ACTION_SET_IPV6_DST_IPV6_DST", "ACTION_SET_TP_SRC",
   "ACTION_SET_TP_SRC_TP_SRC", "ACTION_SET_TP_DST", "ACTION_SET_TP_DST_TP_DST"}
mac_tcp_actions_names ==
  {"ACTION_MAC_SWAP", "ACTION_DEC_TTL", "ACTION_SET_TTL", "ACTION_SET_TTL_TTL",
   "ACTION_SET_MAC_SRC", "ACTION_SET_MAC_SRC_MAC_SRC", "ACTION_SET_MAC_DST",
   "ACTION_SET_MAC_DST_MAC_DST", "ACTION_INC_TCP_SEQ", "ACTION_INC_TCP_SEQ_VALUE",
   "ACTION_DEC_TCP_SEQ", "ACTION_DEC_TCP_SEQ_VALUE", "ACTION_INC_TCP_ACK",
   "ACTION_INC_TCP_ACK_VALUE", "ACTION_DEC_TCP_ACK", "ACTION_DEC_TCP_ACK_VALUE"}
raw_actions_names ==
  {"ACTION_RAW_ENCAP", "ACTION_RAW_ENCAP_INDEX", "ACTION_RAW_ENCAP_INDEX_VALUE",
   "ACTION_RAW_DECAP", "ACTION_RAW_DECAP_INDEX", "ACTION_RAW_DECAP_INDEX_VALUE"}
modify_field_actions_names ==
  {"ACTION_MODIFY_FIELD", "ACTION_MODIFY_FIELD_OP", "ACTION_MODIFY_FIELD_OP_VALUE",
   "ACTION_MODIFY_FIELD_DST_TYPE", "ACTION_MODIFY_FIELD_DST_TYPE_VALUE",
   "ACTION_MODIFY_FIELD_SRC_TYPE_VALUE", "ACTION_MODIFY_FIELD_DST_LEVEL",
   "ACTION_MODIFY_FIELD_DST_OFFSET", "ACTION_MODIFY_FIELD_SRC_TYPE",
   "ACTION_MODIFY_FIELD_SRC_LEVEL", "ACTION_MODIFY_FIELD_SRC_OFFSET",
   "ACTION_MODIFY_FIELD_SRC_VALUE", "ACTION_MODIFY_FIELD_SRC_POINTER",
   "ACTION_MODIFY_FIELD_WIDTH"}
set_tokens_names ==
  {"SET", "SET_RAW_ENCAP", "SET_RAW_DECAP", "SET_RAW_INDEX", "SET_SAMPLE_INDEX",
   "SET_SAMPLE_ACTIONS", "ACTION_SET_TAG", "ACTION_SET_TAG_INDEX", "ACTION_SET_TAG_DATA",
   "ACTION_SET_TAG_MASK", "ACTION_SET_META", "ACTION_SET_META_DATA", "ACTION_SET_META_MASK"}
age_sample_actions_names ==
  {"ACTION_SET_IPV4_DSCP", "ACTION_SET_IPV4_DSCP_VALUE", "ACTION_SET_IPV6_DSCP",
   "ACTION_SET_IPV6_DSCP_VALUE", "ACTION_AGE", "ACTION_AGE_TIMEOUT", "ACTION_SAMPLE",
   "ACTION_SAMPLE_RATIO", "ACTION_SAMPLE_INDEX", "ACTION_SAMPLE_INDEX_VALUE",
   "ACTION_CONNTRACK", "ACTION_CONNTRACK_UPDATE", "ACTION_CONNTRACK_UPDATE_DIR",
   "ACTION_CONNTRACK_UPDATE_CTX", "ACTION_PORT_REPRESENTOR",
   "ACTION_PORT_REPRESENTOR_PORT_ID", "ACTION_REPRESENTED_PORT",
   "ACTION_REPRESENTED_PORT_ETHDEV_PORT_ID"}
indirect_policy_tokens_names ==
  {"INDIRECT_ACTION_DESTROY_ID", "INDIRECT_ACTION_CREATE_ID", "ACTION_INDIRECT",
   "INDIRECT_ACTION_ID2PTR", "INDIRECT_ACTION_INGRESS", "INDIRECT_ACTION_EGRESS",
   "INDIRECT_ACTION_TRANSFER", "INDIRECT_ACTION_SPEC", "ACTION_POL_Y", "ACTION_POL_R",
   "ACTION_POL_G", "ADD", "ITEM_POL_PORT", "ITEM_POL_METER", "ITEM_POL_POLICY"}

\* Row has the token of t.
RowOf(t, group) == \E row \in group : t \in row.names /\ token_list[t] = row.token

(* The rows of a group have the names listed above, and each has a row.    *)
LEMMA NamesOfRows ==
  /\ \A row \in common_tokens : row.names \subseteq common_tokens_names
  /\ \A row \in command_tokens : row.names \subseteq command_tokens_names
  /\ \A row \in flex_tunnel_tokens : row.names \subseteq flex_tunnel_tokens_names
  /\ \A row \in attr_tokens : row.names \subseteq attr_tokens_names
  /\ \A row \in pattern_items : row.names \subseteq pattern_items_names
  /\ \A row \in l2_items : row.names \subseteq l2_items_names
  /\ \A row \in ip_items : row.names \subseteq ip_items_names
  /\ \A row \in l4_items : row.names \subseteq l4_items_names
  /\ \A row \in tunnel_items : row.names \subseteq tunnel_items_names
  /\ \A row \in gtp_geneve_items : row.names \subseteq gtp_geneve_items_names
  /\ \A row \in ipv6_ext_items : row.names \subseteq ipv6_ext_items_names
  /\ \A row \in icmp6_items : row.names \subseteq icmp6_items_names
  /\ \A row \in session_items : row.names \subseteq session_items_names
  /\ \A row \in ecpri_items : row.names \subseteq ecpri_items_names
  /\ \A row \in option_items : row.names \subseteq option_items_names
  /\ \A row \in l2tpv2_items : row.names \subseteq l2tpv2_items_names
  /\ \A row \in actions_tokens : row.names \subseteq actions_tokens_names
  /\ \A row \in rss_tokens : row.names \subseteq rss_tokens_names
  /\ \A row \in port_meter_actions : row.names \subseteq port_meter_actions_names
  /\ \A row \in openflow_actions : row.names \subseteq openflow_actions_names
  /\ \A row \in encap_actions : row.names \subseteq encap_actions_names
  /\ \A row \in set_address_actions : row.names \subseteq set_address_actions_names
  /\ \A row \in mac_tcp_actions : row.names \subseteq mac_tcp_actions_names
  /\ \A row \in raw_actions : row.names \subseteq raw_actions_names
  /\ \A row \in modify_field_actions : row.names \subseteq modify_field_actions_names
  /\ \A row \in set_tokens : row.names \subseteq set_tokens_names
  /\ \A row \in age_sample_actions : row.names \subseteq age_sample_actions_names
  /\ \A row \in indirect_policy_tokens : row.names \subseteq indirect_policy_tokens_names
<1>1. \A row \in common_tokens : row.names \subseteq common_tokens_names
  BY SMT DEF common_tokens, common_tokens_names, Each
<1>2. \A row \in command_tokens : row.names \subseteq command_tokens_names
  BY SMT DEF command_tokens, command_tokens_names, Each
<1>3. \A row \in flex_tunnel_tokens : row.names \subseteq flex_tunnel_tokens_names
  BY SMT DEF flex_tunnel_tokens, flex_tunnel_tokens_names, Each
<1>4. \A row \in attr_tokens : row.names \subseteq attr_tokens_names
  BY SMT DEF attr_tokens, attr_tokens_names, Each
<1>5. \A row \in pattern_items : row.names \subseteq pattern_items_names
  BY SMT DEF pattern_items, pattern_items_names, Each
<1>6. \A row \in l2_items : row.names \subseteq l2_items_names
  BY SMT DEF l2_items, l2_items_names, Each
<1>7. \A row \in ip_items : row.names \subseteq ip_items_names
  BY SMT DEF ip_items, ip_items_names, Each
<1>8. \A row \in l4_items : row.names \subseteq l4_items_names
  BY SMT DEF l4_items, l4_items_names, Each
<1>9. \A row \in tunnel_items : row.names \subseteq tunnel_items_names
  BY SMT DEF tunnel_items, tunnel_items_names, Each
<1>10. \A row \in gtp_geneve_items : row.names \subseteq gtp_geneve_items_names
  BY SMT DEF gtp_geneve_items, gtp_geneve_items_names, Each
<1>11. \A row \in ipv6_ext_items : row.names \subseteq ipv6_ext_items_names
  BY SMT DEF ipv6_ext_items, ipv6_ext_items_names, Each
<1>12. \A row \in icmp6_items : row.names \subseteq icmp6_items_names
  BY SMT DEF icmp6_items, icmp6_items_names, Each
<1>13. \A row \in session_items : row.names \subseteq session_items_names
  BY SMT DEF session_items, session_items_names, Each
<1>14. \A row \in ecpri_items : row.names \subseteq ecpri_items_names
  BY SMT DEF ecpri_items, ecpri_items_names, Each
<1>15. \A row \in option_items : row.names \subseteq option_items_names
  BY SMT DEF option_items, option_items_names, Each
<1>16. \A row \in l2tpv2_items : row.names \subseteq l2tpv2_items_names
  BY SMT DEF l2tpv2_items, l2tpv2_items_names, Each
<1>17. \A row \in actions_tokens : row.names \subseteq actions_tokens_names
  BY SMT DEF actions_tokens, actions_tokens_names, Each
<1>18. \A row \in rss_tokens : row.names \subseteq rss_tokens_names
  BY SMT DEF rss_tokens, rss_tokens_names, Each
<1>19. \A row \in port_meter_actions : row.names \subseteq port_meter_actions_names
  BY SMT DEF port_meter_actions, port_meter_actions_names, Each
<1>20. \A row \in openflow_actions : row.names \subseteq openflow_actions_names
  BY SMT DEF openflow_actions, openflow_actions_names, Each
<1>21. \A row \in encap_actions : row.names \subseteq encap_actions_names
  BY SMT DEF encap_actions, encap_actions_names, Each
<1>22. \A row \in set_address_actions : row.names \subseteq set_address_actions_names
  BY SMT DEF set_address_actions, set_address_actions_names, Each
<1>23. \A row \in mac_tcp_actions : row.names \subseteq mac_tcp_actions_names
  BY SMT DEF mac_tcp_actions, mac_tcp_actions_names, Each
<1>24. \A row \in raw_actions : row.names \subseteq raw_actions_names
  BY SMT DEF raw_actions, raw_actions_names, Each
<1>25. \A row \in modify_field_actions : row.names \subseteq modify_field_actions_names
  BY SMT DEF modify_field_actions, modify_field_actions_names, Each
<1>26. \A row \in set_tokens : row.names \subseteq set_tokens_names
  BY SMT DEF set_tokens, set_tokens_names, Each
<1>27. \A row \in age_sample_actions : row.names \subseteq age_sample_actions_names
  BY SMT DEF age_sample_actions, age_sample_actions_names, Each
<1>28. \A row \in indirect_policy_tokens : row.names \subseteq indirect_policy_tokens_names
  BY SMT DEF indirect_policy_tokens, indirect_policy_tokens_names, Each
<1> QED
  BY <1>1, <1>2, <1>3, <1>4, <1>5, <1>6, <1>7, <1>8, <1>9, <1>10, <1>11, <1>12, <1>13, <1>14,
     <1>15, <1>16, <1>17, <1>18, <1>19, <1>20, <1>21, <1>22, <1>23, <1>24, <1>25, <1>26,
     <1>27, <1>28

(* Each of the names has a row.                                            *)
LEMMA RowsOfNames ==
  /\ \A t \in common_tokens_names : \E row \in common_tokens : t \in row.names
  /\ \A t \in command_tokens_names : \E row \in command_tokens : t \in row.names
  /\ \A t \in flex_tunnel_tokens_names : \E row \in flex_tunnel_tokens : t \in row.names
  /\ \A t \in attr_tokens_names : \E row \in attr_tokens : t \in row.names
  /\ \A t \in pattern_items_names : \E row \in pattern_items : t \in row.names
  /\ \A t \in l2_items_names : \E row \in l2_items : t \in row.names
  /\ \A t \in ip_items_names : \E row \in ip_items : t \in row.names
  /\ \A t \in l4_items_names : \E row \in l4_items : t \in row.names
  /\ \A t \in tunnel_items_names : \E row \in tunnel_items : t \in row.names
  /\ \A t \in gtp_geneve_items_names : \E row \in gtp_geneve_items : t \in row.names
  /\ \A t \in ipv6_ext_items_names : \E row \in ipv6_ext_items : t \in row.names
  /\ \A t \in icmp6_items_names : \E row \in icmp6_items : t \in row.names
  /\ \A t \in session_items_names : \E row \in session_items : t \in row.names
  /\ \A t \in ecpri_items_names : \E row \in ecpri_items : t \in row.names
  /\ \A t \in option_items_names : \E row \in option_items : t \in row.names
  /\ \A t \in l2tpv2_items_names : \E row \in l2tpv2_items : t \in row.names
  /\ \A t \in actions_tokens_names : \E row \in actions_tokens : t \in row.names
  /\ \A t \in rss_tokens_names : \E row \in rss_tokens : t \in row.names
  /\ \A t \in port_meter_actions_names : \E row \in port_meter_actions : t \in row.names
  /\ \A t \in openflow_actions_names : \E row \in openflow_actions : t \in row.names
  /\ \A t \in encap_actions_names : \E row \in encap_actions : t \in row.names
  /\ \A t \in set_address_actions_names : \E row \in set_address_actions : t \in row.names
  /\ \A t \in mac_tcp_actions_names : \E row \in mac_tcp_actions : t \in row.names
  /\ \A t \in raw_actions_names : \E row \in raw_actions : t \in row.names
  /\ \A t \in modify_field_actions_names : \E row \in modify_field_actions : t \in row.names
  /\ \A t \in set_tokens_names : \E row \in set_tokens : t \in row.names
  /\ \A t \in age_sample_actions_names : \E row \in age_sample_actions : t \in row.names
  /\ \A t \in indirect_policy_tokens_names : \E row \in indirect_policy_tokens : t \in row.names
<1>1. \A t \in common_tokens_names : \E row \in common_tokens : t \in row.names
  BY SMT DEF common_tokens, common_tokens_names, Each
<1>2. \A t \in command_tokens_names : \E row \in command_tokens : t \in row.names
  BY SMT DEF command_tokens, command_tokens_names, Each
<1>3. \A t \in flex_tunnel_tokens_names : \E row \in flex_tunnel_tokens : t \in row.names
  BY SMT DEF flex_tunnel_tokens, flex_tunnel_tokens_names, Each
<1>4. \A t \in attr_tokens_names : \E row \in attr_tokens : t \in row.names
  BY SMT DEF attr_tokens, attr_tokens_names, Each
<1>5. \A t \in pattern_items_names : \E row \in pattern_items : t \in row.names
  BY SMT DEF pattern_items, pattern_items_names, Each
<1>6. \A t \in l2_items_names : \E row \in l2_items : t \in row.names
  BY SMT DEF l2_items, l2_items_names, Each
<1>7. \A t \in ip_items_names : \E row \in ip_items : t \in row.names
  BY SMT DEF ip_items, ip_items_names, Each
<1>8. \A t \in l4_items_names : \E row \in l4_items : t \in row.names
  BY SMT DEF l4_items, l4_items_names, Each
<1>9. \A t \in tunnel_items_names : \E row \in tunnel_items : t \in row.names
  BY SMT DEF tunnel_items, tunnel_items_names, Each
<1>10. \A t \in gtp_geneve_items_names : \E row \in gtp_geneve_items : t \in row.names
  BY SMT DEF gtp_geneve_items, gtp_geneve_items_names, Each
<1>11. \A t \in ipv6_ext_items_names : \E row \in ipv6_ext_items : t \in row.names
  BY SMT DEF ipv6_ext_items, ipv6_ext_items_names, Each
<1>12. \A t \in icmp6_items_names : \E row \in icmp6_items : t \in row.names
  BY SMT DEF icmp6_items, icmp6_items_names, Each
<1>13. \A t \in session_items_names : \E row \in session_items : t \in row.names
  BY SMT DEF session_items, session_items_names, Each
<1>14. \A t \in ecpri_items_names : \E row \in ecpri_items : t \in row.names
  BY SMT DEF ecpri_items, ecpri_items_names, Each
<1>15. \A t \in option_items_names : \E row \in option_items : t \in row.names
  BY SMT DEF option_items, option_items_names, Each
<1>16. \A t \in l2tpv2_items_names : \E row \in l2tpv2_items : t \in row.names
  BY SMT DEF l2tpv2_items, l2tpv2_items_names, Each
<1>17. \A t \in actions_tokens_names : \E row \in actions_tokens : t \in row.names
  BY SMT DEF actions_tokens, actions_tokens_names, Each
<1>18. \A t \in rss_tokens_names : \E row \in rss_tokens : t \in row.names
  BY SMT DEF rss_tokens, rss_tokens_names, Each
<1>19. \A t \in port_meter_actions_names : \E row \in port_meter_actions : t \in row.names
  BY SMT DEF port_meter_actions, port_meter_actions_names, Each
<1>20. \A t \in openflow_actions_names : \E row \in openflow_actions : t \in row.names
  BY SMT DEF openflow_actions, openflow_actions_names, Each
<1>21. \A t \in encap_actions_names : \E row \in encap_actions : t \in row.names
  BY SMT DEF encap_actions, encap_actions_names, Each
<1>22. \A t \in set_address_actions_names : \E row \in set_address_actions : t \in row.names
  BY SMT DEF set_address_actions, set_address_actions_names, Each
<1>23. \A t \in mac_tcp_actions_names : \E row \in mac_tcp_actions : t \in row.names
  BY SMT DEF mac_tcp_actions, mac_tcp_actions_names, Each
<1>24. \A t \in raw_actions_names : \E row \in raw_actions : t \in row.names
  BY SMT DEF raw_actions, raw_actions_names, Each
<1>25. \A t \in modify_field_actions_names : \E row \in modify_field_actions : t \in row.names
  BY SMT DEF modify_field_actions, modify_field_actions_names, Each
<1>26. \A t \in set_tokens_names : \E row \in set_tokens : t \in row.names
  BY SMT DEF set_tokens, set_tokens_names, Each
<1>27. \A t \in age_sample_actions_names : \E row \in age_sample_actions : t \in row.names
  BY SMT DEF age_sample_actions, age_sample_actions_names, Each
<1>28. \A t \in indirect_policy_tokens_names : \E row \in indirect_policy_tokens : t \in row.names
  BY SMT DEF indirect_policy_tokens, indirect_policy_tokens_names, Each
<1> QED
  BY <1>1, <1>2, <1>3, <1>4, <1>5, <1>6, <1>7, <1>8, <1>9, <1>10, <1>11, <1>12, <1>13, <1>14,
     <1>15, <1>16, <1>17, <1>18, <1>19, <1>20, <1>21, <1>22, <1>23, <1>24, <1>25, <1>26,
     <1>27, <1>28

(* What the table gives a token is the token of one of its rows.           *)
LEMMA RowOfToken ==
  ASSUME NEW row \in rows, NEW t \in row.names
  PROVE  /\ t \in DOMAIN token_list
         /\ \E r \in rows : t \in r.names /\ token_list[t] = r.token
<1> DEFINE r == CHOOSE r \in rows : t \in r.names
<1>1. r \in rows /\ t \in r.names
  BY Zenon
<1>2. t \in UNION {s.names : s \in rows}
  BY Zenon
<1>3. t \in DOMAIN token_list /\ token_list[t] = r.token
  BY <1>2, Zenon DEF token_list
<1> HIDE DEF r
<1> QED
  BY <1>1, <1>3


(* A row is in a group, and its names are those of the group.              *)
LEMMA HomeOfRow ==
  ASSUME NEW row \in rows, NEW t \in row.names
  PROVE
    \/ row \in common_tokens /\ t \in common_tokens_names
    \/ row \in command_tokens /\ t \in command_tokens_names
    \/ row \in flex_tunnel_tokens /\ t \in flex_tunnel_tokens_names
    \/ row \in attr_tokens /\ t \in attr_tokens_names
    \/ row \in pattern_items /\ t \in pattern_items_names
    \/ row \in l2_items /\ t \in l2_items_names
    \/ row \in ip_items /\ t \in ip_items_names
    \/ row \in l4_items /\ t \in l4_items_names
    \/ row \in tunnel_items /\ t \in tunnel_items_names
    \/ row \in gtp_geneve_items /\ t \in gtp_geneve_items_names
    \/ row \in ipv6_ext_items /\ t \in ipv6_ext_items_names
    \/ row \in icmp6_items /\ t \in icmp6_items_names
    \/ row \in session_items /\ t \in session_items_names
    \/ row \in ecpri_items /\ t \in ecpri_items_names
    \/ row \in option_items /\ t \in option_items_names
    \/ row \in l2tpv2_items /\ t \in l2tpv2_items_names
    \/ row \in actions_tokens /\ t \in actions_tokens_names
    \/ row \in rss_tokens /\ t \in rss_tokens_names
    \/ row \in port_meter_actions /\ t \in port_meter_actions_names
    \/ row \in openflow_actions /\ t \in openflow_actions_names
    \/ row \in encap_actions /\ t \in encap_actions_names
    \/ row \in set_address_actions /\ t \in set_address_actions_names
    \/ row \in mac_tcp_actions /\ t \in mac_tcp_actions_names
    \/ row \in raw_actions /\ t \in raw_actions_names
    \/ row \in modify_field_actions /\ t \in modify_field_actions_names
    \/ row \in set_tokens /\ t \in set_tokens_names
    \/ row \in age_sample_actions /\ t \in age_sample_actions_names
    \/ row \in indirect_policy_tokens /\ t \in indirect_policy_tokens_names
  BY NamesOfRows, SMT DEF rows

USE DEF common_tokens_names, command_tokens_names, flex_tunnel_tokens_names, attr_tokens_names,
         pattern_items_names, l2_items_names, ip_items_names, l4_items_names,
         tunnel_items_names, gtp_geneve_items_names, ipv6_ext_items_names,
         icmp6_items_names, session_items_names, ecpri_items_names, option_items_names,
         l2tpv2_items_names, actions_tokens_names, rss_tokens_names,
         port_meter_actions_names, openflow_actions_names, encap_actions_names,
         set_address_actions_names, mac_tcp_actions_names, raw_actions_names,
         modify_field_actions_names, set_tokens_names, age_sample_actions_names,
         indirect_policy_tokens_names

(* No name is in two groups: a token has a row of the group of its name.   *)
LEMMA RowsApart ==
  /\ \A t \in common_tokens_names : t \in DOMAIN token_list /\ RowOf(t, common_tokens)
  /\ \A t \in command_tokens_names : t \in DOMAIN token_list /\ RowOf(t, command_tokens)
  /\ \A t \in flex_tunnel_tokens_names : t \in DOMAIN token_list /\ RowOf(t, flex_tunnel_tokens)
  /\ \A t \in attr_tokens_names : t \in DOMAIN token_list /\ RowOf(t, attr_tokens)
  /\ \A t \in pattern_items_names : t \in DOMAIN token_list /\ RowOf(t, pattern_items)
  /\ \A t \in l2_items_names : t \in DOMAIN token_list /\ RowOf(t, l2_items)
  /\ \A t \in ip_items_names : t \in DOMAIN token_list /\ RowOf(t, ip_items)
  /\ \A t \in l4_items_names : t \in DOMAIN token_list /\ RowOf(t, l4_items)
  /\ \A t \in tunnel_items_names : t \in DOMAIN token_list /\ RowOf(t, tunnel_items)
  /\ \A t \in gtp_geneve_items_names : t \in DOMAIN token_list /\ RowOf(t, gtp_geneve_items)
  /\ \A t \in ipv6_ext_items_names : t \in DOMAIN token_list /\ RowOf(t, ipv6_ext_items)
  /\ \A t \in icmp6_items_names : t \in DOMAIN token_list /\ RowOf(t, icmp6_items)
  /\ \A t \in session_items_names : t \in DOMAIN token_list /\ RowOf(t, session_items)
  /\ \A t \in ecpri_items_names : t \in DOMAIN token_list /\ RowOf(t, ecpri_items)
  /\ \A t \in option_items_names : t \in DOMAIN token_list /\ RowOf(t, option_items)
  /\ \A t \in l2tpv2_items_names : t \in DOMAIN token_list /\ RowOf(t, l2tpv2_items)
  /\ \A t \in actions_tokens_names : t \in DOMAIN token_list /\ RowOf(t, actions_tokens)
  /\ \A t \in rss_tokens_names : t \in DOMAIN token_list /\ RowOf(t, rss_tokens)
  /\ \A t \in port_meter_actions_names : t \in DOMAIN token_list /\ RowOf(t, port_meter_actions)
  /\ \A t \in openflow_actions_names : t \in DOMAIN token_list /\ RowOf(t, openflow_actions)
  /\ \A t \in encap_actions_names : t \in DOMAIN token_list /\ RowOf(t, encap_actions)
  /\ \A t \in set_address_actions_names : t \in DOMAIN token_list /\ RowOf(t, set_address_actions)
  /\ \A t \in mac_tcp_actions_names : t \in DOMAIN token_list /\ RowOf(t, mac_tcp_actions)
  /\ \A t \in raw_actions_names : t \in DOMAIN token_list /\ RowOf(t, raw_actions)
  /\ \A t \in modify_field_actions_names : t \in DOMAIN token_list /\ RowOf(t, modify_field_actions)
  /\ \A t \in set_tokens_names : t \in DOMAIN token_list /\ RowOf(t, set_tokens)
  /\ \A t \in age_sample_actions_names : t \in DOMAIN token_list /\ RowOf(t, age_sample_actions)
  /\ \A t \in indirect_policy_tokens_names : t \in DOMAIN token_list /\ RowOf(t, indirect_policy_tokens)
<1>1. \A t \in common_tokens_names : t \in DOMAIN token_list /\ RowOf(t, common_tokens)
  <2> TAKE t \in common_tokens_names
  <2>1. PICK row \in common_tokens : t \in row.names
    BY RowsOfNames, Zenon
  <2>2. row \in rows
    BY <2>1, Zenon DEF rows
  <2>3. t \in DOMAIN token_list
    BY <2>1, <2>2, RowOfToken, Zenon
  <2>4. PICK r \in rows : t \in r.names /\ token_list[t] = r.token
    BY <2>1, <2>2, RowOfToken, Zenon
  <2>5. r \in common_tokens
    BY <2>4, HomeOfRow, SMTT(30)
  <2> QED
    BY <2>3, <2>4, <2>5, Zenon DEF RowOf
<1>2. \A t \in command_tokens_names : t \in DOMAIN token_list /\ RowOf(t, command_tokens)
  <2> TAKE t \in command_tokens_names
  <2>1. PICK row \in command_tokens : t \in row.names
    BY RowsOfNames, Zenon
  <2>2. row \in rows
    BY <2>1, Zenon DEF rows
  <2>3. t \in DOMAIN token_list
    BY <2>1, <2>2, RowOfToken, Zenon
  <2>4. PICK r \in rows : t \in r.names /\ token_list[t] = r.token
    BY <2>1, <2>2, RowOfToken, Zenon
  <2>5. r \in command_tokens
    BY <2>4, HomeOfRow, SMTT(30)
  <2> QED
    BY <2>3, <2>4, <2>5, Zenon DEF RowOf
<1>3. \A t \in flex_tunnel_tokens_names : t \in DOMAIN token_list /\ RowOf(t, flex_tunnel_tokens)
  <2> TAKE t \in flex_tunnel_tokens_names
  <2>1. PICK row \in flex_tunnel_tokens : t \in row.names
    BY RowsOfNames, Zenon
  <2>2. row \in rows
    BY <2>1, Zenon DEF rows
  <2>3. t \in DOMAIN token_list
    BY <2>1, <2>2, RowOfToken, Zenon
  <2>4. PICK r \in rows : t \in r.names /\ token_list[t] = r.token
    BY <2>1, <2>2, RowOfToken, Zenon
  <2>5. r \in flex_tunnel_tokens
    BY <2>4, HomeOfRow, SMTT(30)
  <2> QED
    BY <2>3, <2>4, <2>5, Zenon DEF RowOf
<1>4. \A t \in attr_tokens_names : t \in DOMAIN token_list /\ RowOf(t, attr_tokens)
  <2> TAKE t \in attr_tokens_names
  <2>1. PICK row \in attr_tokens : t \in row.names
    BY RowsOfNames, Zenon
  <2>2. row \in rows
    BY <2>1, Zenon DEF rows
  <2>3. t \in DOMAIN token_list
    BY <2>1, <2>2, RowOfToken, Zenon
  <2>4. PICK r \in rows : t \in r.names /\ token_list[t] = r.token
    BY <2>1, <2>2, RowOfToken, Zenon
  <2>5. r \in attr_tokens
    BY <2>4, HomeOfRow, SMTT(30)
  <2> QED
    BY <2>3, <2>4, <2>5, Zenon DEF RowOf
<1>5. \A t \in pattern_items_names : t \in DOMAIN token_list /\ RowOf(t, pattern_items)
  <2> TAKE t \in pattern_items_names
  <2>1. PICK row \in pattern_items : t \in row.names
    BY RowsOfNames, Zenon
  <2>2. row \in rows
    BY <2>1, Zenon DEF rows
  <2>3. t \in DOMAIN token_list
    BY <2>1, <2>2, RowOfToken, Zenon
  <2>4. PICK r \in rows : t \in r.names /\ token_list[t] = r.token
    BY <2>1, <2>2, RowOfToken, Zenon
  <2>5. r \in pattern_items
    BY <2>4, HomeOfRow, SMTT(30)
  <2> QED
    BY <2>3, <2>4, <2>5, Zenon DEF RowOf
<1>6. \A t \in l2_items_names : t \in DOMAIN token_list /\ RowOf(t, l2_items)
  <2> TAKE t \in l2_items_names
  <2>1. PICK row \in l2_items : t \in row.names
    BY RowsOfNames, Zenon
  <2>2. row \in rows
    BY <2>1, Zenon DEF rows
  <2>3. t \in DOMAIN token_list
    BY <2>1, <2>2, RowOfToken, Zenon
  <2>4. PICK r \in rows : t \in r.names /\ token_list[t] = r.token
    BY <2>1, <2>2, RowOfToken, Zenon
  <2>5. r \in l2_items
    BY <2>4, HomeOfRow, SMTT(30)
  <2> QED
    BY <2>3, <2>4, <2>5, Zenon DEF RowOf
<1>7. \A t \in ip_items_names : t \in DOMAIN token_list /\ RowOf(t, ip_items)
  <2> TAKE t \in ip_items_names
  <2>1. PICK row \in ip_items : t \in row.names
    BY RowsOfNames, Zenon
  <2>2. row \in rows
    BY <2>1, Zenon DEF rows
  <2>3. t \in DOMAIN token_list
    BY <2>1, <2>2, RowOfToken, Zenon
  <2>4. PICK r \in rows : t \in r.names /\ token_list[t] = r.token
    BY <2>1, <2>2, RowOfToken, Zenon
  <2>5. r \in ip_items
    BY <2>4, HomeOfRow, SMTT(30)
  <2> QED
    BY <2>3, <2>4, <2>5, Zenon DEF RowOf
<1>8. \A t \in l4_items_names : t \in DOMAIN token_list /\ RowOf(t, l4_items)
  <2> TAKE t \in l4_items_names
  <2>1. PICK row \in l4_items : t \in row.names
    BY RowsOfNames, Zenon
  <2>2. row \in rows
    BY <2>1, Zenon DEF rows
  <2>3. t \in DOMAIN token_list
    BY <2>1, <2>2, RowOfToken, Zenon
  <2>4. PICK r \in rows : t \in r.names /\ token_list[t] = r.token
    BY <2>1, <2>2, RowOfToken, Zenon
  <2>5. r \in l4_items
    BY <2>4, HomeOfRow, SMTT(30)
  <2> QED
    BY <2>3, <2>4, <2>5, Zenon DEF RowOf
<1>9. \A t \in tunnel_items_names : t \in DOMAIN token_list /\ RowOf(t, tunnel_items)
  <2> TAKE t \in tunnel_items_names
  <2>1. PICK row \in tunnel_items : t \in row.names
    BY RowsOfNames, Zenon
  <2>2. row \in rows
    BY <2>1, Zenon DEF rows
  <2>3. t \in DOMAIN token_list
    BY <2>1, <2>2, RowOfToken, Zenon
  <2>4. PICK r \in rows : t \in r.names /\ token_list[t] = r.token
    BY <2>1, <2>2, RowOfToken, Zenon
  <2>5. r \in tunnel_items
    BY <2>4, HomeOfRow, SMTT(30)
  <2> QED
    BY <2>3, <2>4, <2>5, Zenon DEF RowOf
<1>10. \A t \in gtp_geneve_items_names : t \in DOMAIN token_list /\ RowOf(t, gtp_geneve_items)
  <2> TAKE t \in gtp_geneve_items_names
  <2>1. PICK row \in gtp_geneve_items : t \in row.names
    BY RowsOfNames, Zenon
  <2>2. row \in rows
    BY <2>1, Zenon DEF rows
  <2>3. t \in DOMAIN token_list
    BY <2>1, <2>2, RowOfToken, Zenon
  <2>4. PICK r \in rows : t \in r.names /\ token_list[t] = r.token
    BY <2>1, <2>2, RowOfToken, Zenon
  <2>5. r \in gtp_geneve_items
    BY <2>4, HomeOfRow, SMTT(30)
  <2> QED
    BY <2>3, <2>4, <2>5, Zenon DEF RowOf
<1>11. \A t \in ipv6_ext_items_names : t \in DOMAIN token_list /\ RowOf(t, ipv6_ext_items)
  <2> TAKE t \in ipv6_ext_items_names
  <2>1. PICK row \in ipv6_ext_items : t \in row.names
    BY RowsOfNames, Zenon
  <2>2. row \in rows
    BY <2>1, Zenon DEF rows
  <2>3. t \in DOMAIN token_list
    BY <2>1, <2>2, RowOfToken, Zenon
  <2>4. PICK r \in rows : t \in r.names /\ token_list[t] = r.token
    BY <2>1, <2>2, RowOfToken, Zenon
  <2>5. r \in ipv6_ext_items
    BY <2>4, HomeOfRow, SMTT(30)
  <2> QED
    BY <2>3, <2>4, <2>5, Zenon DEF RowOf
<1>12. \A t \in icmp6_items_names : t \in DOMAIN token_list /\ RowOf(t, icmp6_items)
  <2> TAKE t \in icmp6_items_names
  <2>1. PICK row \in icmp6_items : t \in row.names
    BY RowsOfNames, Zenon
  <2>2. row \in rows
    BY <2>1, Zenon DEF rows
  <2>3. t \in DOMAIN token_list
    BY <2>1, <2>2, RowOfToken, Zenon
  <2>4. PICK r \in rows : t \in r.names /\ token_list[t] = r.token
    BY <2>1, <2>2, RowOfToken, Zenon
  <2>5. r \in icmp6_items
    BY <2>4, HomeOfRow, SMTT(30)
  <2> QED
    BY <2>3, <2>4, <2>5, Zenon DEF RowOf
<1>13. \A t \in session_items_names : t \in DOMAIN token_list /\ RowOf(t, session_items)
  <2> TAKE t \in session_items_names
  <2>1. PICK row \in session_items : t \in row.names
    BY RowsOfNames, Zenon
  <2>2. row \in rows
    BY <2>1, Zenon DEF rows
  <2>3. t \in DOMAIN token_list
    BY <2>1, <2>2, RowOfToken, Zenon
  <2>4. PICK r \in rows : t \in r.names /\ token_list[t] = r.token
    BY <2>1, <2>2, RowOfToken, Zenon
  <2>5. r \in session_items
    BY <2>4, HomeOfRow, SMTT(30)
  <2> QED
    BY <2>3, <2>4, <2>5, Zenon DEF RowOf
<1>14. \A t \in ecpri_items_names : t \in DOMAIN token_list /\ RowOf(t, ecpri_items)
  <2> TAKE t \in ecpri_items_names
  <2>1. PICK row \in ecpri_items : t \in row.names
    BY RowsOfNames, Zenon
  <2>2. row \in rows
    BY <2>1, Zenon DEF rows
  <2>3. t \in DOMAIN token_list
    BY <2>1, <2>2, RowOfToken, Zenon
  <2>4. PICK r \in rows : t \in r.names /\ token_list[t] = r.token
    BY <2>1, <2>2, RowOfToken, Zenon
  <2>5. r \in ecpri_items
    BY <2>4, HomeOfRow, SMTT(30)
  <2> QED
    BY <2>3, <2>4, <2>5, Zenon DEF RowOf
<1>15. \A t \in option_items_names : t \in DOMAIN token_list /\ RowOf(t, option_items)
  <2> TAKE t \in option_items_names
  <2>1. PICK row \in option_items : t \in row.names
    BY RowsOfNames, Zenon
  <2>2. row \in rows
    BY <2>1, Zenon DEF rows
  <2>3. t \in DOMAIN token_list
    BY <2>1, <2>2, RowOfToken, Zenon
  <2>4. PICK r \in rows : t \in r.names /\ token_list[t] = r.token
    BY <2>1, <2>2, RowOfToken, Zenon
  <2>5. r \in option_items
    BY <2>4, HomeOfRow, SMTT(30)
  <2> QED
    BY <2>3, <2>4, <2>5, Zenon DEF RowOf
<1>16. \A t \in l2tpv2_items_names : t \in DOMAIN token_list /\ RowOf(t, l2tpv2_items)
  <2> TAKE t \in l2tpv2_items_names
  <2>1. PICK row \in l2tpv2_items : t \in row.names
    BY RowsOfNames, Zenon
  <2>2. row \in rows
    BY <2>1, Zenon DEF rows
  <2>3. t \in DOMAIN token_list
    BY <2>1, <2>2, RowOfToken, Zenon
  <2>4. PICK r \in rows : t \in r.names /\ token_list[t] = r.token
    BY <2>1, <2>2, RowOfToken, Zenon
  <2>5. r \in l2tpv2_items
    BY <2>4, HomeOfRow, SMTT(30)
  <2> QED
    BY <2>3, <2>4, <2>5, Zenon DEF RowOf
<1>17. \A t \in actions_tokens_names : t \in DOMAIN token_list /\ RowOf(t, actions_tokens)
  <2> TAKE t \in actions_tokens_names
  <2>1. PICK row \in actions_tokens : t \in row.names
    BY RowsOfNames, Zenon
  <2>2. row \in rows
    BY <2>1, Zenon DEF rows
  <2>3. t \in DOMAIN token_list
    BY <2>1, <2>2, RowOfToken, Zenon
  <2>4. PICK r \in rows : t \in r.names /\ token_list[t] = r.token
    BY <2>1, <2>2, RowOfToken, Zenon
  <2>5. r \in actions_tokens
    BY <2>4, HomeOfRow, SMTT(30)
  <2> QED
    BY <2>3, <2>4, <2>5, Zenon DEF RowOf
<1>18. \A t \in rss_tokens_names : t \in DOMAIN token_list /\ RowOf(t, rss_tokens)
  <2> TAKE t \in rss_tokens_names
  <2>1. PICK row \in rss_tokens : t \in row.names
    BY RowsOfNames, Zenon
  <2>2. row \in rows
    BY <2>1, Zenon DEF rows
  <2>3. t \in DOMAIN token_list
    BY <2>1, <2>2, RowOfToken, Zenon
  <2>4. PICK r \in rows : t \in r.names /\ token_list[t] = r.token
    BY <2>1, <2>2, RowOfToken, Zenon
  <2>5. r \in rss_tokens
    BY <2>4, HomeOfRow, SMTT(30)
  <2> QED
    BY <2>3, <2>4, <2>5, Zenon DEF RowOf
<1>19. \A t \in port_meter_actions_names : t \in DOMAIN token_list /\ RowOf(t, port_meter_actions)
  <2> TAKE t \in port_meter_actions_names
  <2>1. PICK row \in port_meter_actions : t \in row.names
    BY RowsOfNames, Zenon
  <2>2. row \in rows
    BY <2>1, Zenon DEF rows
  <2>3. t \in DOMAIN token_list
    BY <2>1, <2>2, RowOfToken, Zenon
  <2>4. PICK r \in rows : t \in r.names /\ token_list[t] = r.token
    BY <2>1, <2>2, RowOfToken, Zenon
  <2>5. r \in port_meter_actions
    BY <2>4, HomeOfRow, SMTT(30)
  <2> QED
    BY <2>3, <2>4, <2>5, Zenon DEF RowOf
<1>20. \A t \in openflow_actions_names : t \in DOMAIN token_list /\ RowOf(t, openflow_actions)
  <2> TAKE t \in openflow_actions_names
  <2>1. PICK row \in openflow_actions : t \in row.names
    BY RowsOfNames, Zenon
  <2>2. row \in rows
    BY <2>1, Zenon DEF rows
  <2>3. t \in DOMAIN token_list
    BY <2>1, <2>2, RowOfToken, Zenon
  <2>4. PICK r \in rows : t \in r.names /\ token_list[t] = r.token
    BY <2>1, <2>2, RowOfToken, Zenon
  <2>5. r \in openflow_actions
    BY <2>4, HomeOfRow, SMTT(30)
  <2> QED
    BY <2>3, <2>4, <2>5, Zenon DEF RowOf
<1>21. \A t \in encap_actions_names : t \in DOMAIN token_list /\ RowOf(t, encap_actions)
  <2> TAKE t \in encap_actions_names
  <2>1. PICK row \in encap_actions : t \in row.names
    BY RowsOfNames, Zenon
  <2>2. row \in rows
    BY <2>1, Zenon DEF rows
  <2>3. t \in DOMAIN token_list
    BY <2>1, <2>2, RowOfToken, Zenon
  <2>4. PICK r \in rows : t \in r.names /\ token_list[t] = r.token
    BY <2>1, <2>2, RowOfToken, Zenon
  <2>5. r \in encap_actions
    BY <2>4, HomeOfRow, SMTT(30)
  <2> QED
    BY <2>3, <2>4, <2>5, Zenon DEF RowOf
<1>22. \A t \in set_address_actions_names : t \in DOMAIN token_list /\ RowOf(t, set_address_actions)
  <2> TAKE t \in set_address_actions_names
  <2>1. PICK row \in set_address_actions : t \in row.names
    BY RowsOfNames, Zenon
  <2>2. row \in rows
    BY <2>1, Zenon DEF rows
  <2>3. t \in DOMAIN token_list
    BY <2>1, <2>2, RowOfToken, Zenon
  <2>4. PICK r \in rows : t \in r.names /\ token_list[t] = r.token
    BY <2>1, <2>2, RowOfToken, Zenon
  <2>5. r \in set_address_actions
    BY <2>4, HomeOfRow, SMTT(30)
  <2> QED
    BY <2>3, <2>4, <2>5, Zenon DEF RowOf
<1>23. \A t \in mac_tcp_actions_names : t \in DOMAIN token_list /\ RowOf(t, mac_tcp_actions)
  <2> TAKE t \in mac_tcp_actions_names
  <2>1. PICK row \in mac_tcp_actions : t \in row.names
    BY RowsOfNames, Zenon
  <2>2. row \in rows
    BY <2>1, Zenon DEF rows
  <2>3. t \in DOMAIN token_list
    BY <2>1, <2>2, RowOfToken, Zenon
  <2>4. PICK r \in rows : t \in r.names /\ token_list[t] = r.token
    BY <2>1, <2>2, RowOfToken, Zenon
  <2>5. r \in mac_tcp_actions
    BY <2>4, HomeOfRow, SMTT(30)
  <2> QED
    BY <2>3, <2>4, <2>5, Zenon DEF RowOf
<1>24. \A t \in raw_actions_names : t \in DOMAIN token_list /\ RowOf(t, raw_actions)
  <2> TAKE t \in raw_actions_names
  <2>1. PICK row \in raw_actions : t \in row.names
    BY RowsOfNames, Zenon
  <2>2. row \in rows
    BY <2>1, Zenon DEF rows
  <2>3. t \in DOMAIN token_list
    BY <2>1, <2>2, RowOfToken, Zenon
  <2>4. PICK r \in rows : t \in r.names /\ token_list[t] = r.token
    BY <2>1, <2>2, RowOfToken, Zenon
  <2>5. r \in raw_actions
    BY <2>4, HomeOfRow, SMTT(30)
  <2> QED
    BY <2>3, <2>4, <2>5, Zenon DEF RowOf
<1>25. \A t \in modify_field_actions_names : t \in DOMAIN token_list /\ RowOf(t, modify_field_actions)
  <2> TAKE t \in modify_field_actions_names
  <2>1. PICK row \in modify_field_actions : t \in row.names
    BY RowsOfNames, Zenon
  <2>2. row \in rows
    BY <2>1, Zenon DEF rows
  <2>3. t \in DOMAIN token_list
    BY <2>1, <2>2, RowOfToken, Zenon
  <2>4. PICK r \in rows : t \in r.names /\ token_list[t] = r.token
    BY <2>1, <2>2, RowOfToken, Zenon
  <2>5. r \in modify_field_actions
    BY <2>4, HomeOfRow, SMTT(30)
  <2> QED
    BY <2>3, <2>4, <2>5, Zenon DEF RowOf
<1>26. \A t \in set_tokens_names : t \in DOMAIN token_list /\ RowOf(t, set_tokens)
  <2> TAKE t \in set_tokens_names
  <2>1. PICK row \in set_tokens : t \in row.names
    BY RowsOfNames, Zenon
  <2>2. row \in rows
    BY <2>1, Zenon DEF rows
  <2>3. t \in DOMAIN token_list
    BY <2>1, <2>2, RowOfToken, Zenon
  <2>4. PICK r \in rows : t \in r.names /\ token_list[t] = r.token
    BY <2>1, <2>2, RowOfToken, Zenon
  <2>5. r \in set_tokens
    BY <2>4, HomeOfRow, SMTT(30)
  <2> QED
    BY <2>3, <2>4, <2>5, Zenon DEF RowOf
<1>27. \A t \in age_sample_actions_names : t \in DOMAIN token_list /\ RowOf(t, age_sample_actions)
  <2> TAKE t \in age_sample_actions_names
  <2>1. PICK row \in age_sample_actions : t \in row.names
    BY RowsOfNames, Zenon
  <2>2. row \in rows
    BY <2>1, Zenon DEF rows
  <2>3. t \in DOMAIN token_list
    BY <2>1, <2>2, RowOfToken, Zenon
  <2>4. PICK r \in rows : t \in r.names /\ token_list[t] = r.token
    BY <2>1, <2>2, RowOfToken, Zenon
  <2>5. r \in age_sample_actions
    BY <2>4, HomeOfRow, SMTT(30)
  <2> QED
    BY <2>3, <2>4, <2>5, Zenon DEF RowOf
<1>28. \A t \in indirect_policy_tokens_names : t \in DOMAIN token_list /\ RowOf(t, indirect_policy_tokens)
  <2> TAKE t \in indirect_policy_tokens_names
  <2>1. PICK row \in indirect_policy_tokens : t \in row.names
    BY RowsOfNames, Zenon
  <2>2. row \in rows
    BY <2>1, Zenon DEF rows
  <2>3. t \in DOMAIN token_list
    BY <2>1, <2>2, RowOfToken, Zenon
  <2>4. PICK r \in rows : t \in r.names /\ token_list[t] = r.token
    BY <2>1, <2>2, RowOfToken, Zenon
  <2>5. r \in indirect_policy_tokens
    BY <2>4, HomeOfRow, SMTT(30)
  <2> QED
    BY <2>3, <2>4, <2>5, Zenon DEF RowOf
<1> QED
  BY <1>1, <1>2, <1>3, <1>4, <1>5, <1>6, <1>7, <1>8, <1>9, <1>10, <1>11, <1>12, <1>13, <1>14,
     <1>15, <1>16, <1>17, <1>18, <1>19, <1>20, <1>21, <1>22, <1>23, <1>24, <1>25, <1>26,
     <1>27, <1>28
HIDE DEF common_tokens_names, command_tokens_names, flex_tunnel_tokens_names, attr_tokens_names,
         pattern_items_names, l2_items_names, ip_items_names, l4_items_names,
         tunnel_items_names, gtp_geneve_items_names, ipv6_ext_items_names,
         icmp6_items_names, session_items_names, ecpri_items_names, option_items_names,
         l2tpv2_items_names, actions_tokens_names, rss_tokens_names,
         port_meter_actions_names, openflow_actions_names, encap_actions_names,
         set_address_actions_names, mac_tcp_actions_names, raw_actions_names,
         modify_field_actions_names, set_tokens_names, age_sample_actions_names,
         indirect_policy_tokens_names

-----------------------------------------------------------------------------
(* The lists of the table.                                                 *)

Tokens == DOMAIN token_list

\* Tokens from which a line can be finished: every list has one of them.
Closers ==
  {"END", "END_SET", "COMMON_INTEGER", "COMMON_UNSIGNED", "COMMON_RULE_ID",
   "COMMON_GROUP_ID", "COMMON_PRIORITY_LEVEL", "COMMON_INDIRECT_ACTION_ID",
   "COMMON_POLICY_ID", "COMMON_FLEX_TOKEN", "COMMON_PREFIX", "COMMON_BOOLEAN",
   "COMMON_STRING", "COMMON_HEX", "COMMON_FILE_PATH", "COMMON_MAC_ADDR", "COMMON_IPV4_ADDR",
   "COMMON_IPV6_ADDR", "COMMON_PORT_ID", "COMMON_FLEX_HANDLE", "DUMP_ALL", "QUERY_ACTION",
   "ITEM_PARAM_IS", "ACTION_END", "ACTION_RSS_FUNC_DEFAULT", "ACTION_RSS_TYPE",
   "ACTION_RSS_QUEUE", "ACTION_METER_COLOR_GREEN", "ACTION_MODIFY_FIELD_OP_VALUE",
   "ACTION_MODIFY_FIELD_DST_TYPE_VALUE", "ACTION_MODIFY_FIELD_SRC_TYPE_VALUE",
   "INDIRECT_ACTION_QUERY", "FLUSH", "FLEX_ITEM_INIT", "TUNNEL_CREATE_TYPE",
   "TUNNEL_DESTROY_ID", "TUNNEL_LIST", "DESTROY_RULE", "ITEM_PATTERN", "ITEM_NEXT",
   "ACTIONS", "ACTION_NEXT", "SET_RAW_INDEX", "INDIRECT_ACTION_DESTROY_ID",
   "INDIRECT_ACTION_SPEC", "ACTION_POL_Y", "ACTION_POL_R", "ACTION_POL_G", "FLOW",
   "ITEM_ECPRI_COMMON_TYPE_IQ_DATA", "ITEM_INTEGRITY_LEVEL",
   "ITEM_L2TPV2_COMMON_TYPE_DATA_L", "ACTION_RAW_ENCAP_INDEX_VALUE",
   "ACTION_RAW_DECAP_INDEX_VALUE", "ACTION_MODIFY_FIELD_WIDTH", "SET_RAW_ENCAP",
   "SET_SAMPLE_INDEX", "ACTION_SAMPLE_INDEX_VALUE", "INDIRECT_ACTION_ID2PTR",
   "ITEM_POL_POLICY", "ITEM_ECPRI_COMMON_TYPE", "ITEM_L2TPV2_COMMON_TYPE",
   "ACTION_MODIFY_FIELD_SRC_TYPE", "SET", "ITEM_POL_METER", "ACTION_MODIFY_FIELD_DST_TYPE",
   "ITEM_POL_PORT", "ACTION_MODIFY_FIELD_OP"}
Listed == {list \in SUBSET Tokens : list \cap Closers # {}}

(* The names of the groups are tokens of the table.                        *)
LEMMA GroupsInTable ==
  /\ common_tokens_names \subseteq Tokens
  /\ command_tokens_names \subseteq Tokens
  /\ flex_tunnel_tokens_names \subseteq Tokens
  /\ attr_tokens_names \subseteq Tokens
  /\ pattern_items_names \subseteq Tokens
  /\ l2_items_names \subseteq Tokens
  /\ ip_items_names \subseteq Tokens
  /\ l4_items_names \subseteq Tokens
  /\ tunnel_items_names \subseteq Tokens
  /\ gtp_geneve_items_names \subseteq Tokens
  /\ ipv6_ext_items_names \subseteq Tokens
  /\ icmp6_items_names \subseteq Tokens
  /\ session_items_names \subseteq Tokens
  /\ ecpri_items_names \subseteq Tokens
  /\ option_items_names \subseteq Tokens
  /\ l2tpv2_items_names \subseteq Tokens
  /\ actions_tokens_names \subseteq Tokens
  /\ rss_tokens_names \subseteq Tokens
  /\ port_meter_actions_names \subseteq Tokens
  /\ openflow_actions_names \subseteq Tokens
  /\ encap_actions_names \subseteq Tokens
  /\ set_address_actions_names \subseteq Tokens
  /\ mac_tcp_actions_names \subseteq Tokens
  /\ raw_actions_names \subseteq Tokens
  /\ modify_field_actions_names \subseteq Tokens
  /\ set_tokens_names \subseteq Tokens
  /\ age_sample_actions_names \subseteq Tokens
  /\ indirect_policy_tokens_names \subseteq Tokens
  BY RowsApart, Zenon DEF Tokens

(* Every list the table uses consists of tokens of the table, one of which *)
(* is among those above.                                                   *)
LEMMA ListsOfTable ==
  /\ flow_keywords \in Listed
  /\ next_ia_subcmd \in Listed
  /\ next_ia_create_attr \in Listed
  /\ next_vc_attr \in Listed
  /\ next_dump_subcmd \in Listed
  /\ next_list_attr \in Listed
  /\ next_aged_attr \in Listed
  /\ next_flex_item \in Listed
  /\ next_destroy_attr \in Listed
  /\ next_dump_attr \in Listed
  /\ next_item \in Listed
  /\ item_any \in Listed
  /\ item_param \in Listed
  /\ item_vf \in Listed
  /\ item_phy_port \in Listed
  /\ item_port_id \in Listed
  /\ item_mark \in Listed
  /\ item_raw \in Listed
  /\ item_eth \in Listed
  /\ item_vlan \in Listed
  /\ item_ipv4 \in Listed
  /\ item_ipv6 \in Listed
  /\ item_icmp \in Listed
  /\ item_udp \in Listed
  /\ item_tcp \in Listed
  /\ item_sctp \in Listed
  /\ item_vxlan \in Listed
  /\ item_e_tag \in Listed
  /\ item_nvgre \in Listed
  /\ item_mpls \in Listed
  /\ item_gre \in Listed
  /\ item_fuzzy \in Listed
  /\ item_gtp \in Listed
  /\ item_geneve \in Listed
  /\ item_vxlan_gpe \in Listed
  /\ item_arp_eth_ipv4 \in Listed
  /\ item_ipv6_ext \in Listed
  /\ item_ipv6_frag_ext \in Listed
  /\ item_icmp6 \in Listed
  /\ item_icmp6_nd_ns \in Listed
  /\ item_icmp6_nd_na \in Listed
  /\ item_icmp6_nd_opt \in Listed
  /\ item_icmp6_nd_opt_sla_eth \in Listed
  /\ item_icmp6_nd_opt_tla_eth \in Listed
  /\ item_meta \in Listed
  /\ item_gre_key \in Listed
  /\ item_gtp_psc \in Listed
  /\ item_pppoes \in Listed
  /\ item_pppoed \in Listed
  /\ item_pppoe_proto_id \in Listed
  /\ item_higig2 \in Listed
  /\ item_tag \in Listed
  /\ item_l2tpv3oip \in Listed
  /\ item_esp \in Listed
  /\ item_ah \in Listed
  /\ item_pfcp \in Listed
  /\ item_ecpri \in Listed
  /\ item_ecpri_common \in Listed
  /\ item_ecpri_common_type \in Listed
  /\ item_geneve_opt \in Listed
  /\ item_integrity \in Listed
  /\ item_integrity_lv \in Listed
  /\ item_port_representor \in Listed
  /\ item_represented_port \in Listed
  /\ item_flex \in Listed
  /\ item_l2tpv2 \in Listed
  /\ item_l2tpv2_common \in Listed
  /\ item_l2tpv2_common_type \in Listed
  /\ item_l2tpv2_msg_data_l \in Listed
  /\ item_l2tpv2_msg_ctrl \in Listed
  /\ item_ppp \in Listed
  /\ next_action \in Listed
  /\ action_jump \in Listed
  /\ action_mark \in Listed
  /\ action_queue \in Listed
  /\ action_count \in Listed
  /\ action_rss \in Listed
  /\ action_rss_func \in Listed
  /\ action_vf \in Listed
  /\ action_phy_port \in Listed
  /\ action_port_id \in Listed
  /\ action_meter \in Listed
  /\ action_meter_color \in Listed
  /\ action_of_set_mpls_ttl \in Listed
  /\ action_of_set_nw_ttl \in Listed
  /\ action_of_push_vlan \in Listed
  /\ action_of_set_vlan_vid \in Listed
  /\ action_of_set_vlan_pcp \in Listed
  /\ action_of_pop_mpls \in Listed
  /\ action_of_push_mpls \in Listed
  /\ action_set_ipv4_src \in Listed
  /\ action_set_ipv4_dst \in Listed
  /\ action_set_ipv6_src \in Listed
  /\ action_set_ipv6_dst \in Listed
  /\ action_set_tp_src \in Listed
  /\ action_set_tp_dst \in Listed
  /\ action_set_ttl \in Listed
  /\ action_set_mac_src \in Listed
  /\ action_set_mac_dst \in Listed
  /\ action_inc_tcp_seq \in Listed
  /\ action_dec_tcp_seq \in Listed
  /\ action_inc_tcp_ack \in Listed
  /\ action_dec_tcp_ack \in Listed
  /\ action_raw_encap \in Listed
  /\ action_raw_decap \in Listed
  /\ action_modify_field_dst \in Listed
  /\ action_modify_field_src \in Listed
  /\ next_set_raw \in Listed
  /\ next_action_sample \in Listed
  /\ action_set_tag \in Listed
  /\ action_set_meta \in Listed
  /\ action_set_ipv4_dscp \in Listed
  /\ action_set_ipv6_dscp \in Listed
  /\ action_age \in Listed
  /\ action_sample \in Listed
  /\ action_update_conntrack \in Listed
  /\ action_port_representor \in Listed
  /\ action_represented_port \in Listed
  /\ next_ia_destroy_attr \in Listed
  /\ NEXT_ENTRY_2("FLOW", "ADD") \in Listed
  /\ NEXT_ENTRY("SET") \in Listed
  /\ NEXT_ENTRY("COMMON_PORT_ID") \in Listed
  /\ NEXT_ENTRY("INDIRECT_ACTION_SPEC") \in Listed
  /\ NEXT_ENTRY("COMMON_INDIRECT_ACTION_ID") \in Listed
  /\ NEXT_ENTRY("INDIRECT_ACTION_DESTROY_ID") \in Listed
  /\ NEXT_ENTRY("END") \in Listed
  /\ NEXT_ENTRY("DESTROY_RULE") \in Listed
  /\ NEXT_ENTRY("QUERY_ACTION") \in Listed
  /\ NEXT_ENTRY("COMMON_RULE_ID") \in Listed
  /\ NEXT_ENTRY("COMMON_BOOLEAN") \in Listed
  /\ NEXT_ENTRY("COMMON_FLEX_TOKEN") \in Listed
  /\ NEXT_ENTRY("COMMON_FILE_PATH") \in Listed
  /\ NEXT_ENTRY_3("TUNNEL_CREATE", "TUNNEL_LIST", "TUNNEL_DESTROY") \in Listed
  /\ NEXT_ENTRY("TUNNEL_CREATE_TYPE") \in Listed
  /\ NEXT_ENTRY("TUNNEL_DESTROY_ID") \in Listed
  /\ NEXT_ENTRY("COMMON_UNSIGNED") \in Listed
  /\ NEXT_ENTRY("COMMON_GROUP_ID") \in Listed
  /\ NEXT_ENTRY("COMMON_PRIORITY_LEVEL") \in Listed
  /\ NEXT_ENTRY("ACTIONS") \in Listed
  /\ NEXT_ENTRY("ITEM_NEXT") \in Listed
  /\ NEXT_ENTRY("COMMON_INTEGER") \in Listed
  /\ NEXT_ENTRY("COMMON_STRING") \in Listed
  /\ NEXT_ENTRY_3("ITEM_PARAM_IS", "ITEM_PARAM_SPEC", "ITEM_PARAM_MASK") \in Listed
  /\ NEXT_ENTRY("COMMON_MAC_ADDR") \in Listed
  /\ NEXT_ENTRY("COMMON_IPV4_ADDR") \in Listed
  /\ NEXT_ENTRY("COMMON_IPV6_ADDR") \in Listed
  /\ NEXT_ENTRY("ITEM_PARAM_IS") \in Listed
  /\ NEXT_ENTRY_2("ITEM_ECPRI_MSG_IQ_DATA_PCID", "ITEM_NEXT") \in Listed
  /\ NEXT_ENTRY_3("ITEM_ECPRI_MSG_IQ_DATA_PCID", "ITEM_ECPRI_COMMON", "ITEM_NEXT") \in
      Listed
  /\ NEXT_ENTRY_2("ITEM_ECPRI_MSG_RTC_CTRL_RTCID", "ITEM_NEXT") \in Listed
  /\ NEXT_ENTRY_3("ITEM_ECPRI_MSG_RTC_CTRL_RTCID", "ITEM_ECPRI_COMMON", "ITEM_NEXT") \in
      Listed
  /\ NEXT_ENTRY_2("ITEM_ECPRI_MSG_DLY_MSR_MSRID", "ITEM_NEXT") \in Listed
  /\ NEXT_ENTRY_3("ITEM_ECPRI_MSG_DLY_MSR_MSRID", "ITEM_ECPRI_COMMON", "ITEM_NEXT") \in
      Listed
  /\ NEXT_ENTRY("COMMON_HEX") \in Listed
  /\ NEXT_ENTRY("COMMON_FLEX_HANDLE") \in Listed
  /\ NEXT_ENTRY_3("ITEM_L2TPV2_MSG_DATA_L_LENGTH", "ITEM_L2TPV2_COMMON", "ITEM_NEXT") \in
      Listed
  /\ NEXT_ENTRY_3("ITEM_L2TPV2_MSG_DATA_L_TUNNEL_ID", "ITEM_L2TPV2_COMMON", "ITEM_NEXT") \in
      Listed
  /\ NEXT_ENTRY_3("ITEM_L2TPV2_MSG_DATA_L_SESSION_ID", "ITEM_L2TPV2_COMMON", "ITEM_NEXT")
      \in Listed
  /\ NEXT_ENTRY_3("ITEM_L2TPV2_MSG_CTRL_LENGTH", "ITEM_L2TPV2_COMMON", "ITEM_NEXT") \in
      Listed
  /\ NEXT_ENTRY_3("ITEM_L2TPV2_MSG_CTRL_TUNNEL_ID", "ITEM_L2TPV2_COMMON", "ITEM_NEXT") \in
      Listed
  /\ NEXT_ENTRY_3("ITEM_L2TPV2_MSG_CTRL_SESSION_ID", "ITEM_L2TPV2_COMMON", "ITEM_NEXT") \in
      Listed
  /\ NEXT_ENTRY_3("ITEM_L2TPV2_MSG_CTRL_NS", "ITEM_L2TPV2_COMMON", "ITEM_NEXT") \in Listed
  /\ NEXT_ENTRY("ACTION_NEXT") \in Listed
  /\ NEXT_ENTRY("ACTION_RSS_TYPE") \in Listed
  /\ NEXT_ENTRY("ACTION_RSS_QUEUE") \in Listed
  /\ NEXT_ENTRY_3("ACTION_METER_COLOR_GREEN", "ACTION_METER_COLOR_YELLOW",
      "ACTION_METER_COLOR_RED") \in Listed
  /\ NEXT_ENTRY("ACTION_RAW_ENCAP_INDEX_VALUE") \in Listed
  /\ NEXT_ENTRY("ACTION_RAW_DECAP_INDEX_VALUE") \in Listed
  /\ NEXT_ENTRY("ACTION_MODIFY_FIELD_OP") \in Listed
  /\ NEXT_ENTRY("ACTION_MODIFY_FIELD_DST_TYPE") \in Listed
  /\ NEXT_ENTRY("ACTION_MODIFY_FIELD_OP_VALUE") \in Listed
  /\ NEXT_ENTRY("ACTION_MODIFY_FIELD_DST_TYPE_VALUE") \in Listed
  /\ NEXT_ENTRY("ACTION_MODIFY_FIELD_SRC_TYPE_VALUE") \in Listed
  /\ NEXT_ENTRY("ACTION_MODIFY_FIELD_WIDTH") \in Listed
  /\ NEXT_ENTRY_3("SET_RAW_ENCAP", "SET_RAW_DECAP", "SET_SAMPLE_ACTIONS") \in Listed
  /\ NEXT_ENTRY("SET_SAMPLE_INDEX") \in Listed
  /\ NEXT_ENTRY("ACTION_SAMPLE_INDEX_VALUE") \in Listed
  /\ NEXT_ENTRY("INDIRECT_ACTION_ID2PTR") \in Listed
  /\ NEXT_ENTRY("ITEM_POL_PORT") \in Listed
  /\ NEXT_ENTRY("ITEM_POL_METER") \in Listed
  /\ NEXT_ENTRY("ITEM_POL_POLICY") \in Listed
  /\ NEXT_ENTRY("ACTION_POL_R") \in Listed
  /\ NEXT_ENTRY("ACTION_POL_Y") \in Listed
  /\ NEXT_ENTRY("ACTION_POL_G") \in Listed
  /\ NEXT_ENTRY("COMMON_POLICY_ID") \in Listed
<1>1. flow_keywords \in Listed
  BY GroupsInTable, SMT DEF command_tokens_names, flex_tunnel_tokens_names, Listed, Closers,
     flow_keywords
<1>2. next_ia_subcmd \in Listed
  BY GroupsInTable, SMT DEF command_tokens_names, Listed, Closers, next_ia_subcmd
<1>3. next_ia_create_attr \in Listed
  BY GroupsInTable, SMT DEF indirect_policy_tokens_names, Listed, Closers,
     next_ia_create_attr
<1>4. next_vc_attr \in Listed
  BY GroupsInTable, SMT DEF attr_tokens_names, Listed, Closers, next_vc_attr
<1>5. next_dump_subcmd \in Listed
  BY GroupsInTable, SMT DEF flex_tunnel_tokens_names, Listed, Closers, next_dump_subcmd
<1>6. next_list_attr \in Listed
  BY GroupsInTable, SMT DEF flex_tunnel_tokens_names, common_tokens_names, Listed, Closers,
     next_list_attr
<1>7. next_aged_attr \in Listed
  BY GroupsInTable, SMT DEF flex_tunnel_tokens_names, common_tokens_names, Listed, Closers,
     next_aged_attr
<1>8. next_flex_item \in Listed
  BY GroupsInTable, SMT DEF flex_tunnel_tokens_names, Listed, Closers, next_flex_item
<1>9. next_destroy_attr \in Listed
  BY GroupsInTable, SMT DEF flex_tunnel_tokens_names, common_tokens_names, Listed, Closers,
     next_destroy_attr
<1>10. next_dump_attr \in Listed
  BY GroupsInTable, SMT DEF common_tokens_names, Listed, Closers, next_dump_attr
<1>11. next_item \in Listed
  BY GroupsInTable, SMT DEF pattern_items_names, l2_items_names, ip_items_names,
     l4_items_names, tunnel_items_names, gtp_geneve_items_names, ipv6_ext_items_names,
     icmp6_items_names, session_items_names, ecpri_items_names, option_items_names,
     l2tpv2_items_names, common_tokens_names, Listed, Closers, next_item
<1>12. item_any \in Listed
  BY GroupsInTable, SMT DEF pattern_items_names, Listed, Closers, item_any
<1>13. item_param \in Listed
  BY GroupsInTable, SMT DEF attr_tokens_names, Listed, Closers, item_param
<1>14. item_vf \in Listed
  BY GroupsInTable, SMT DEF pattern_items_names, Listed, Closers, item_vf
<1>15. item_phy_port \in Listed
  BY GroupsInTable, SMT DEF pattern_items_names, Listed, Closers, item_phy_port
<1>16. item_port_id \in Listed
  BY GroupsInTable, SMT DEF pattern_items_names, Listed, Closers, item_port_id
<1>17. item_mark \in Listed
  BY GroupsInTable, SMT DEF pattern_items_names, Listed, Closers, item_mark
<1>18. item_raw \in Listed
  BY GroupsInTable, SMT DEF pattern_items_names, Listed, Closers, item_raw
<1>19. item_eth \in Listed
  BY GroupsInTable, SMT DEF l2_items_names, pattern_items_names, Listed, Closers, item_eth
<1>20. item_vlan \in Listed
  BY GroupsInTable, SMT DEF l2_items_names, pattern_items_names, Listed, Closers, item_vlan
<1>21. item_ipv4 \in Listed
  BY GroupsInTable, SMT DEF ip_items_names, pattern_items_names, Listed, Closers, item_ipv4
<1>22. item_ipv6 \in Listed
  BY GroupsInTable, SMT DEF ip_items_names, pattern_items_names, Listed, Closers, item_ipv6
<1>23. item_icmp \in Listed
  BY GroupsInTable, SMT DEF l4_items_names, pattern_items_names, Listed, Closers, item_icmp
<1>24. item_udp \in Listed
  BY GroupsInTable, SMT DEF l4_items_names, pattern_items_names, Listed, Closers, item_udp
<1>25. item_tcp \in Listed
  BY GroupsInTable, SMT DEF l4_items_names, pattern_items_names, Listed, Closers, item_tcp
<1>26. item_sctp \in Listed
  BY GroupsInTable, SMT DEF l4_items_names, pattern_items_names, Listed, Closers, item_sctp
<1>27. item_vxlan \in Listed
  BY GroupsInTable, SMT DEF tunnel_items_names, pattern_items_names, Listed, Closers,
     item_vxlan
<1>28. item_e_tag \in Listed
  BY GroupsInTable, SMT DEF tunnel_items_names, pattern_items_names, Listed, Closers,
     item_e_tag
<1>29. item_nvgre \in Listed
  BY GroupsInTable, SMT DEF tunnel_items_names, pattern_items_names, Listed, Closers,
     item_nvgre
<1>30. item_mpls \in Listed
  BY GroupsInTable, SMT DEF tunnel_items_names, pattern_items_names, Listed, Closers,
     item_mpls
<1>31. item_gre \in Listed
  BY GroupsInTable, SMT DEF tunnel_items_names, pattern_items_names, Listed, Closers,
     item_gre
<1>32. item_fuzzy \in Listed
  BY GroupsInTable, SMT DEF gtp_geneve_items_names, pattern_items_names, Listed, Closers,
     item_fuzzy
<1>33. item_gtp \in Listed
  BY GroupsInTable, SMT DEF gtp_geneve_items_names, pattern_items_names, Listed, Closers,
     item_gtp
<1>34. item_geneve \in Listed
  BY GroupsInTable, SMT DEF gtp_geneve_items_names, pattern_items_names, Listed, Closers,
     item_geneve
<1>35. item_vxlan_gpe \in Listed
  BY GroupsInTable, SMT DEF gtp_geneve_items_names, pattern_items_names, Listed, Closers,
     item_vxlan_gpe
<1>36. item_arp_eth_ipv4 \in Listed
  BY GroupsInTable, SMT DEF ipv6_ext_items_names, pattern_items_names, Listed, Closers,
     item_arp_eth_ipv4
<1>37. item_ipv6_ext \in Listed
  BY GroupsInTable, SMT DEF ipv6_ext_items_names, pattern_items_names, Listed, Closers,
     item_ipv6_ext
<1>38. item_ipv6_frag_ext \in Listed
  BY GroupsInTable, SMT DEF ipv6_ext_items_names, pattern_items_names, Listed, Closers,
     item_ipv6_frag_ext
<1>39. item_icmp6 \in Listed
  BY GroupsInTable, SMT DEF icmp6_items_names, pattern_items_names, Listed, Closers,
     item_icmp6
<1>40. item_icmp6_nd_ns \in Listed
  BY GroupsInTable, SMT DEF icmp6_items_names, pattern_items_names, Listed, Closers,
     item_icmp6_nd_ns
<1>41. item_icmp6_nd_na \in Listed
  BY GroupsInTable, SMT DEF icmp6_items_names, pattern_items_names, Listed, Closers,
     item_icmp6_nd_na
<1>42. item_icmp6_nd_opt \in Listed
  BY GroupsInTable, SMT DEF icmp6_items_names, pattern_items_names, Listed, Closers,
     item_icmp6_nd_opt
<1>43. item_icmp6_nd_opt_sla_eth \in Listed
  BY GroupsInTable, SMT DEF icmp6_items_names, pattern_items_names, Listed, Closers,
     item_icmp6_nd_opt_sla_eth
<1>44. item_icmp6_nd_opt_tla_eth \in Listed
  BY GroupsInTable, SMT DEF icmp6_items_names, pattern_items_names, Listed, Closers,
     item_icmp6_nd_opt_tla_eth
<1>45. item_meta \in Listed
  BY GroupsInTable, SMT DEF icmp6_items_names, pattern_items_names, Listed, Closers,
     item_meta
<1>46. item_gre_key \in Listed
  BY GroupsInTable, SMT DEF session_items_names, pattern_items_names, Listed, Closers,
     item_gre_key
<1>47. item_gtp_psc \in Listed
  BY GroupsInTable, SMT DEF session_items_names, pattern_items_names, Listed, Closers,
     item_gtp_psc
<1>48. item_pppoes \in Listed
  BY GroupsInTable, SMT DEF session_items_names, pattern_items_names, Listed, Closers,
     item_pppoes
<1>49. item_pppoed \in Listed
  BY GroupsInTable, SMT DEF session_items_names, pattern_items_names, Listed, Closers,
     item_pppoed
<1>50. item_pppoe_proto_id \in Listed
  BY GroupsInTable, SMT DEF pattern_items_names, Listed, Closers, item_pppoe_proto_id
<1>51. item_higig2 \in Listed
  BY GroupsInTable, SMT DEF session_items_names, pattern_items_names, Listed, Closers,
     item_higig2
<1>52. item_tag \in Listed
  BY GroupsInTable, SMT DEF session_items_names, pattern_items_names, Listed, Closers,
     item_tag
<1>53. item_l2tpv3oip \in Listed
  BY GroupsInTable, SMT DEF ecpri_items_names, pattern_items_names, Listed, Closers,
     item_l2tpv3oip
<1>54. item_esp \in Listed
  BY GroupsInTable, SMT DEF ecpri_items_names, pattern_items_names, Listed, Closers,
     item_esp
<1>55. item_ah \in Listed
  BY GroupsInTable, SMT DEF ecpri_items_names, pattern_items_names, Listed, Closers, item_ah
<1>56. item_pfcp \in Listed
  BY GroupsInTable, SMT DEF ecpri_items_names, pattern_items_names, Listed, Closers,
     item_pfcp
<1>57. item_ecpri \in Listed
  BY GroupsInTable, SMT DEF ecpri_items_names, pattern_items_names, Listed, Closers,
     item_ecpri
<1>58. item_ecpri_common \in Listed
  BY GroupsInTable, SMT DEF ecpri_items_names, Listed, Closers, item_ecpri_common
<1>59. item_ecpri_common_type \in Listed
  BY GroupsInTable, SMT DEF ecpri_items_names, Listed, Closers, item_ecpri_common_type
<1>60. item_geneve_opt \in Listed
  BY GroupsInTable, SMT DEF option_items_names, pattern_items_names, Listed, Closers,
     item_geneve_opt
<1>61. item_integrity \in Listed
  BY GroupsInTable, SMT DEF option_items_names, Listed, Closers, item_integrity
<1>62. item_integrity_lv \in Listed
  BY GroupsInTable, SMT DEF option_items_names, pattern_items_names, Listed, Closers,
     item_integrity_lv
<1>63. item_port_representor \in Listed
  BY GroupsInTable, SMT DEF option_items_names, pattern_items_names, Listed, Closers,
     item_port_representor
<1>64. item_represented_port \in Listed
  BY GroupsInTable, SMT DEF option_items_names, pattern_items_names, Listed, Closers,
     item_represented_port
<1>65. item_flex \in Listed
  BY GroupsInTable, SMT DEF option_items_names, pattern_items_names, Listed, Closers,
     item_flex
<1>66. item_l2tpv2 \in Listed
  BY GroupsInTable, SMT DEF l2tpv2_items_names, pattern_items_names, Listed, Closers,
     item_l2tpv2
<1>67. item_l2tpv2_common \in Listed
  BY GroupsInTable, SMT DEF l2tpv2_items_names, Listed, Closers, item_l2tpv2_common
<1>68. item_l2tpv2_common_type \in Listed
  BY GroupsInTable, SMT DEF l2tpv2_items_names, Listed, Closers, item_l2tpv2_common_type
<1>69. item_l2tpv2_msg_data_l \in Listed
  BY GroupsInTable, SMT DEF l2tpv2_items_names, pattern_items_names, Listed, Closers,
     item_l2tpv2_msg_data_l
<1>70. item_l2tpv2_msg_ctrl \in Listed
  BY GroupsInTable, SMT DEF l2tpv2_items_names, pattern_items_names, Listed, Closers,
     item_l2tpv2_msg_ctrl
<1>71. item_ppp \in Listed
  BY GroupsInTable, SMT DEF l2tpv2_items_names, pattern_items_names, Listed, Closers,
     item_ppp
<1>72. next_action \in Listed
  BY GroupsInTable, SMT DEF actions_tokens_names, rss_tokens_names,
     port_meter_actions_names, openflow_actions_names, encap_actions_names,
     set_address_actions_names, mac_tcp_actions_names, raw_actions_names, set_tokens_names,
     age_sample_actions_names, indirect_policy_tokens_names, modify_field_actions_names,
     Listed, Closers, next_action
<1>73. action_jump \in Listed
  BY GroupsInTable, SMT DEF actions_tokens_names, Listed, Closers, action_jump
<1>74. action_mark \in Listed
  BY GroupsInTable, SMT DEF actions_tokens_names, Listed, Closers, action_mark
<1>75. action_queue \in Listed
  BY GroupsInTable, SMT DEF actions_tokens_names, Listed, Closers, action_queue
<1>76. action_count \in Listed
  BY GroupsInTable, SMT DEF actions_tokens_names, Listed, Closers, action_count
<1>77. action_rss \in Listed
  BY GroupsInTable, SMT DEF rss_tokens_names, actions_tokens_names, Listed, Closers,
     action_rss
<1>78. action_rss_func \in Listed
  BY GroupsInTable, SMT DEF rss_tokens_names, Listed, Closers, action_rss_func
<1>79. action_vf \in Listed
  BY GroupsInTable, SMT DEF port_meter_actions_names, actions_tokens_names, Listed, Closers,
     action_vf
<1>80. action_phy_port \in Listed
  BY GroupsInTable, SMT DEF port_meter_actions_names, actions_tokens_names, Listed, Closers,
     action_phy_port
<1>81. action_port_id \in Listed
  BY GroupsInTable, SMT DEF port_meter_actions_names, actions_tokens_names, Listed, Closers,
     action_port_id
<1>82. action_meter \in Listed
  BY GroupsInTable, SMT DEF port_meter_actions_names, actions_tokens_names, Listed, Closers,
     action_meter
<1>83. action_meter_color \in Listed
  BY GroupsInTable, SMT DEF port_meter_actions_names, actions_tokens_names, Listed, Closers,
     action_meter_color
<1>84. action_of_set_mpls_ttl \in Listed
  BY GroupsInTable, SMT DEF port_meter_actions_names, actions_tokens_names, Listed, Closers,
     action_of_set_mpls_ttl
<1>85. action_of_set_nw_ttl \in Listed
  BY GroupsInTable, SMT DEF openflow_actions_names, actions_tokens_names, Listed, Closers,
     action_of_set_nw_ttl
<1>86. action_of_push_vlan \in Listed
  BY GroupsInTable, SMT DEF openflow_actions_names, actions_tokens_names, Listed, Closers,
     action_of_push_vlan
<1>87. action_of_set_vlan_vid \in Listed
  BY GroupsInTable, SMT DEF openflow_actions_names, actions_tokens_names, Listed, Closers,
     action_of_set_vlan_vid
<1>88. action_of_set_vlan_pcp \in Listed
  BY GroupsInTable, SMT DEF openflow_actions_names, actions_tokens_names, Listed, Closers,
     action_of_set_vlan_pcp
<1>89. action_of_pop_mpls \in Listed
  BY GroupsInTable, SMT DEF openflow_actions_names, actions_tokens_names, Listed, Closers,
     action_of_pop_mpls
<1>90. action_of_push_mpls \in Listed
  BY GroupsInTable, SMT DEF openflow_actions_names, actions_tokens_names, Listed, Closers,
     action_of_push_mpls
<1>91. action_set_ipv4_src \in Listed
  BY GroupsInTable, SMT DEF set_address_actions_names, actions_tokens_names, Listed,
     Closers, action_set_ipv4_src
<1>92. action_set_ipv4_dst \in Listed
  BY GroupsInTable, SMT DEF set_address_actions_names, actions_tokens_names, Listed,
     Closers, action_set_ipv4_dst
<1>93. action_set_ipv6_src \in Listed
  BY GroupsInTable, SMT DEF set_address_actions_names, actions_tokens_names, Listed,
     Closers, action_set_ipv6_src
<1>94. action_set_ipv6_dst \in Listed
  BY GroupsInTable, SMT DEF set_address_actions_names, actions_tokens_names, Listed,
     Closers, action_set_ipv6_dst
<1>95. action_set_tp_src \in Listed
  BY GroupsInTable, SMT DEF set_address_actions_names, actions_tokens_names, Listed,
     Closers, action_set_tp_src
<1>96. action_set_tp_dst \in Listed
  BY GroupsInTable, SMT DEF set_address_actions_names, actions_tokens_names, Listed,
     Closers, action_set_tp_dst
<1>97. action_set_ttl \in Listed
  BY GroupsInTable, SMT DEF mac_tcp_actions_names, actions_tokens_names, Listed, Closers,
     action_set_ttl
<1>98. action_set_mac_src \in Listed
  BY GroupsInTable, SMT DEF mac_tcp_actions_names, actions_tokens_names, Listed, Closers,
     action_set_mac_src
<1>99. action_set_mac_dst \in Listed
  BY GroupsInTable, SMT DEF mac_tcp_actions_names, actions_tokens_names, Listed, Closers,
     action_set_mac_dst
<1>100. action_inc_tcp_seq \in Listed
  BY GroupsInTable, SMT DEF mac_tcp_actions_names, actions_tokens_names, Listed, Closers,
     action_inc_tcp_seq
<1>101. action_dec_tcp_seq \in Listed
  BY GroupsInTable, SMT DEF mac_tcp_actions_names, actions_tokens_names, Listed, Closers,
     action_dec_tcp_seq
<1>102. action_inc_tcp_ack \in Listed
  BY GroupsInTable, SMT DEF mac_tcp_actions_names, actions_tokens_names, Listed, Closers,
     action_inc_tcp_ack
<1>103. action_dec_tcp_ack \in Listed
  BY GroupsInTable, SMT DEF mac_tcp_actions_names, actions_tokens_names, Listed, Closers,
     action_dec_tcp_ack
<1>104. action_raw_encap \in Listed
  BY GroupsInTable, SMT DEF raw_actions_names, actions_tokens_names, Listed, Closers,
     action_raw_encap
<1>105. action_raw_decap \in Listed
  BY GroupsInTable, SMT DEF raw_actions_names, actions_tokens_names, Listed, Closers,
     action_raw_decap
<1>106. action_modify_field_dst \in Listed
  BY GroupsInTable, SMT DEF modify_field_actions_names, Listed, Closers,
     action_modify_field_dst
<1>107. action_modify_field_src \in Listed
  BY GroupsInTable, SMT DEF modify_field_actions_names, Listed, Closers,
     action_modify_field_src
<1>108. next_set_raw \in Listed
  BY GroupsInTable, SMT DEF set_tokens_names, l2_items_names, Listed, Closers, next_set_raw
<1>109. next_action_sample \in Listed
  BY GroupsInTable, SMT DEF actions_tokens_names, rss_tokens_names,
     port_meter_actions_names, raw_actions_names, encap_actions_names, Listed, Closers,
     next_action_sample
<1>110. action_set_tag \in Listed
  BY GroupsInTable, SMT DEF set_tokens_names, actions_tokens_names, Listed, Closers,
     action_set_tag
<1>111. action_set_meta \in Listed
  BY GroupsInTable, SMT DEF set_tokens_names, actions_tokens_names, Listed, Closers,
     action_set_meta
<1>112. action_set_ipv4_dscp \in Listed
  BY GroupsInTable, SMT DEF age_sample_actions_names, actions_tokens_names, Listed, Closers,
     action_set_ipv4_dscp
<1>113. action_set_ipv6_dscp \in Listed
  BY GroupsInTable, SMT DEF age_sample_actions_names, actions_tokens_names, Listed, Closers,
     action_set_ipv6_dscp
<1>114. action_age \in Listed
  BY GroupsInTable, SMT DEF age_sample_actions_names, actions_tokens_names, Listed, Closers,
     action_age
<1>115. action_sample \in Listed
  BY GroupsInTable, SMT DEF age_sample_actions_names, actions_tokens_names, Listed, Closers,
     action_sample
<1>116. action_update_conntrack \in Listed
  BY GroupsInTable, SMT DEF age_sample_actions_names, actions_tokens_names, Listed, Closers,
     action_update_conntrack
<1>117. action_port_representor \in Listed
  BY GroupsInTable, SMT DEF age_sample_actions_names, actions_tokens_names, Listed, Closers,
     action_port_representor
<1>118. action_represented_port \in Listed
  BY GroupsInTable, SMT DEF age_sample_actions_names, actions_tokens_names, Listed, Closers,
     action_represented_port
<1>119. next_ia_destroy_attr \in Listed
  BY GroupsInTable, SMT DEF indirect_policy_tokens_names, common_tokens_names, Listed,
     Closers, next_ia_destroy_attr
<1>120. NEXT_ENTRY_2("FLOW", "ADD") \in Listed
  BY GroupsInTable, SMT DEF command_tokens_names, indirect_policy_tokens_names, Listed,
     Closers, NEXT_ENTRY_2
<1>121. NEXT_ENTRY("SET") \in Listed
  BY GroupsInTable, SMT DEF set_tokens_names, Listed, Closers, NEXT_ENTRY
<1>122. NEXT_ENTRY("COMMON_PORT_ID") \in Listed
  BY GroupsInTable, SMT DEF common_tokens_names, Listed, Closers, NEXT_ENTRY
<1>123. NEXT_ENTRY("INDIRECT_ACTION_SPEC") \in Listed
  BY GroupsInTable, SMT DEF indirect_policy_tokens_names, Listed, Closers, NEXT_ENTRY
<1>124. NEXT_ENTRY("COMMON_INDIRECT_ACTION_ID") \in Listed
  BY GroupsInTable, SMT DEF common_tokens_names, Listed, Closers, NEXT_ENTRY
<1>125. NEXT_ENTRY("INDIRECT_ACTION_DESTROY_ID") \in Listed
  BY GroupsInTable, SMT DEF indirect_policy_tokens_names, Listed, Closers, NEXT_ENTRY
<1>126. NEXT_ENTRY("END") \in Listed
  BY GroupsInTable, SMT DEF common_tokens_names, Listed, Closers, NEXT_ENTRY
<1>127. NEXT_ENTRY("DESTROY_RULE") \in Listed
  BY GroupsInTable, SMT DEF flex_tunnel_tokens_names, Listed, Closers, NEXT_ENTRY
<1>128. NEXT_ENTRY("QUERY_ACTION") \in Listed
  BY GroupsInTable, SMT DEF flex_tunnel_tokens_names, Listed, Closers, NEXT_ENTRY
<1>129. NEXT_ENTRY("COMMON_RULE_ID") \in Listed
  BY GroupsInTable, SMT DEF common_tokens_names, Listed, Closers, NEXT_ENTRY
<1>130. NEXT_ENTRY("COMMON_BOOLEAN") \in Listed
  BY GroupsInTable, SMT DEF common_tokens_names, Listed, Closers, NEXT_ENTRY
<1>131. NEXT_ENTRY("COMMON_FLEX_TOKEN") \in Listed
  BY GroupsInTable, SMT DEF common_tokens_names, Listed, Closers, NEXT_ENTRY
<1>132. NEXT_ENTRY("COMMON_FILE_PATH") \in Listed
  BY GroupsInTable, SMT DEF common_tokens_names, Listed, Closers, NEXT_ENTRY
<1>133. NEXT_ENTRY_3("TUNNEL_CREATE", "TUNNEL_LIST", "TUNNEL_DESTROY") \in Listed
  BY GroupsInTable, SMT DEF flex_tunnel_tokens_names, Listed, Closers, NEXT_ENTRY_3
<1>134. NEXT_ENTRY("TUNNEL_CREATE_TYPE") \in Listed
  BY GroupsInTable, SMT DEF flex_tunnel_tokens_names, Listed, Closers, NEXT_ENTRY
<1>135. NEXT_ENTRY("TUNNEL_DESTROY_ID") \in Listed
  BY GroupsInTable, SMT DEF flex_tunnel_tokens_names, Listed, Closers, NEXT_ENTRY
<1>136. NEXT_ENTRY("COMMON_UNSIGNED") \in Listed
  BY GroupsInTable, SMT DEF common_tokens_names, Listed, Closers, NEXT_ENTRY
<1>137. NEXT_ENTRY("COMMON_GROUP_ID") \in Listed
  BY GroupsInTable, SMT DEF common_tokens_names, Listed, Closers, NEXT_ENTRY
<1>138. NEXT_ENTRY("COMMON_PRIORITY_LEVEL") \in Listed
  BY GroupsInTable, SMT DEF common_tokens_names, Listed, Closers, NEXT_ENTRY
<1>139. NEXT_ENTRY("ACTIONS") \in Listed
  BY GroupsInTable, SMT DEF actions_tokens_names, Listed, Closers, NEXT_ENTRY
<1>140. NEXT_ENTRY("ITEM_NEXT") \in Listed
  BY GroupsInTable, SMT DEF pattern_items_names, Listed, Closers, NEXT_ENTRY
<1>141. NEXT_ENTRY("COMMON_INTEGER") \in Listed
  BY GroupsInTable, SMT DEF common_tokens_names, Listed, Closers, NEXT_ENTRY
<1>142. NEXT_ENTRY("COMMON_STRING") \in Listed
  BY GroupsInTable, SMT DEF common_tokens_names, Listed, Closers, NEXT_ENTRY
<1>143. NEXT_ENTRY_3("ITEM_PARAM_IS", "ITEM_PARAM_SPEC", "ITEM_PARAM_MASK") \in Listed
  BY GroupsInTable, SMT DEF attr_tokens_names, Listed, Closers, NEXT_ENTRY_3
<1>144. NEXT_ENTRY("COMMON_MAC_ADDR") \in Listed
  BY GroupsInTable, SMT DEF common_tokens_names, Listed, Closers, NEXT_ENTRY
<1>145. NEXT_ENTRY("COMMON_IPV4_ADDR") \in Listed
  BY GroupsInTable, SMT DEF common_tokens_names, Listed, Closers, NEXT_ENTRY
<1>146. NEXT_ENTRY("COMMON_IPV6_ADDR") \in Listed
  BY GroupsInTable, SMT DEF common_tokens_names, Listed, Closers, NEXT_ENTRY
<1>147. NEXT_ENTRY("ITEM_PARAM_IS") \in Listed
  BY GroupsInTable, SMT DEF attr_tokens_names, Listed, Closers, NEXT_ENTRY
<1>148. NEXT_ENTRY_2("ITEM_ECPRI_MSG_IQ_DATA_PCID", "ITEM_NEXT") \in Listed
  BY GroupsInTable, SMT DEF ecpri_items_names, pattern_items_names, Listed, Closers,
     NEXT_ENTRY_2
<1>149. NEXT_ENTRY_3("ITEM_ECPRI_MSG_IQ_DATA_PCID", "ITEM_ECPRI_COMMON", "ITEM_NEXT") \in
      Listed
  BY GroupsInTable, SMT DEF ecpri_items_names, pattern_items_names, Listed, Closers,
     NEXT_ENTRY_3
<1>150. NEXT_ENTRY_2("ITEM_ECPRI_MSG_RTC_CTRL_RTCID", "ITEM_NEXT") \in Listed
  BY GroupsInTable, SMT DEF ecpri_items_names, pattern_items_names, Listed, Closers,
     NEXT_ENTRY_2
<1>151. NEXT_ENTRY_3("ITEM_ECPRI_MSG_RTC_CTRL_RTCID", "ITEM_ECPRI_COMMON", "ITEM_NEXT") \in
      Listed
  BY GroupsInTable, SMT DEF ecpri_items_names, pattern_items_names, Listed, Closers,
     NEXT_ENTRY_3
<1>152. NEXT_ENTRY_2("ITEM_ECPRI_MSG_DLY_MSR_MSRID", "ITEM_NEXT") \in Listed
  BY GroupsInTable, SMT DEF ecpri_items_names, pattern_items_names, Listed, Closers,
     NEXT_ENTRY_2
<1>153. NEXT_ENTRY_3("ITEM_ECPRI_MSG_DLY_MSR_MSRID", "ITEM_ECPRI_COMMON", "ITEM_NEXT") \in
      Listed
  BY GroupsInTable, SMT DEF ecpri_items_names, pattern_items_names, Listed, Closers,
     NEXT_ENTRY_3
<1>154. NEXT_ENTRY("COMMON_HEX") \in Listed
  BY GroupsInTable, SMT DEF common_tokens_names, Listed, Closers, NEXT_ENTRY
<1>155. NEXT_ENTRY("COMMON_FLEX_HANDLE") \in Listed
  BY GroupsInTable, SMT DEF common_tokens_names, Listed, Closers, NEXT_ENTRY
<1>156. NEXT_ENTRY_3("ITEM_L2TPV2_MSG_DATA_L_LENGTH", "ITEM_L2TPV2_COMMON", "ITEM_NEXT") \in
      Listed
  BY GroupsInTable, SMT DEF l2tpv2_items_names, pattern_items_names, Listed, Closers,
     NEXT_ENTRY_3
<1>157. NEXT_ENTRY_3("ITEM_L2TPV2_MSG_DATA_L_TUNNEL_ID", "ITEM_L2TPV2_COMMON", "ITEM_NEXT")
      \in Listed
  BY GroupsInTable, SMT DEF l2tpv2_items_names, pattern_items_names, Listed, Closers,
     NEXT_ENTRY_3
<1>158. NEXT_ENTRY_3("ITEM_L2TPV2_MSG_DATA_L_SESSION_ID", "ITEM_L2TPV2_COMMON", "ITEM_NEXT")
      \in Listed
  BY GroupsInTable, SMT DEF l2tpv2_items_names, pattern_items_names, Listed, Closers,
     NEXT_ENTRY_3
<1>159. NEXT_ENTRY_3("ITEM_L2TPV2_MSG_CTRL_LENGTH", "ITEM_L2TPV2_COMMON", "ITEM_NEXT") \in
      Listed
  BY GroupsInTable, SMT DEF l2tpv2_items_names, pattern_items_names, Listed, Closers,
     NEXT_ENTRY_3
<1>160. NEXT_ENTRY_3("ITEM_L2TPV2_MSG_CTRL_TUNNEL_ID", "ITEM_L2TPV2_COMMON", "ITEM_NEXT")
      \in Listed
  BY GroupsInTable, SMT DEF l2tpv2_items_names, pattern_items_names, Listed, Closers,
     NEXT_ENTRY_3
<1>161. NEXT_ENTRY_3("ITEM_L2TPV2_MSG_CTRL_SESSION_ID", "ITEM_L2TPV2_COMMON", "ITEM_NEXT")
      \in Listed
  BY GroupsInTable, SMT DEF l2tpv2_items_names, pattern_items_names, Listed, Closers,
     NEXT_ENTRY_3
<1>162. NEXT_ENTRY_3("ITEM_L2TPV2_MSG_CTRL_NS", "ITEM_L2TPV2_COMMON", "ITEM_NEXT") \in
      Listed
  BY GroupsInTable, SMT DEF l2tpv2_items_names, pattern_items_names, Listed, Closers,
     NEXT_ENTRY_3
<1>163. NEXT_ENTRY("ACTION_NEXT") \in Listed
  BY GroupsInTable, SMT DEF actions_tokens_names, Listed, Closers, NEXT_ENTRY
<1>164. NEXT_ENTRY("ACTION_RSS_TYPE") \in Listed
  BY GroupsInTable, SMT DEF rss_tokens_names, Listed, Closers, NEXT_ENTRY
<1>165. NEXT_ENTRY("ACTION_RSS_QUEUE") \in Listed
  BY GroupsInTable, SMT DEF rss_tokens_names, Listed, Closers, NEXT_ENTRY
<1>166. NEXT_ENTRY_3("ACTION_METER_COLOR_GREEN", "ACTION_METER_COLOR_YELLOW",
      "ACTION_METER_COLOR_RED") \in Listed
  BY GroupsInTable, SMT DEF port_meter_actions_names, Listed, Closers, NEXT_ENTRY_3
<1>167. NEXT_ENTRY("ACTION_RAW_ENCAP_INDEX_VALUE") \in Listed
  BY GroupsInTable, SMT DEF raw_actions_names, Listed, Closers, NEXT_ENTRY
<1>168. NEXT_ENTRY("ACTION_RAW_DECAP_INDEX_VALUE") \in Listed
  BY GroupsInTable, SMT DEF raw_actions_names, Listed, Closers, NEXT_ENTRY
<1>169. NEXT_ENTRY("ACTION_MODIFY_FIELD_OP") \in Listed
  BY GroupsInTable, SMT DEF modify_field_actions_names, Listed, Closers, NEXT_ENTRY
<1>170. NEXT_ENTRY("ACTION_MODIFY_FIELD_DST_TYPE") \in Listed
  BY GroupsInTable, SMT DEF modify_field_actions_names, Listed, Closers, NEXT_ENTRY
<1>171. NEXT_ENTRY("ACTION_MODIFY_FIELD_OP_VALUE") \in Listed
  BY GroupsInTable, SMT DEF modify_field_actions_names, Listed, Closers, NEXT_ENTRY
<1>172. NEXT_ENTRY("ACTION_MODIFY_FIELD_DST_TYPE_VALUE") \in Listed
  BY GroupsInTable, SMT DEF modify_field_actions_names, Listed, Closers, NEXT_ENTRY
<1>173. NEXT_ENTRY("ACTION_MODIFY_FIELD_SRC_TYPE_VALUE") \in Listed
  BY GroupsInTable, SMT DEF modify_field_actions_names, Listed, Closers, NEXT_ENTRY
<1>174. NEXT_ENTRY("ACTION_MODIFY_FIELD_WIDTH") \in Listed
  BY GroupsInTable, SMT DEF modify_field_actions_names, Listed, Closers, NEXT_ENTRY
<1>175. NEXT_ENTRY_3("SET_RAW_ENCAP", "SET_RAW_DECAP", "SET_SAMPLE_ACTIONS") \in Listed
  BY GroupsInTable, SMT DEF set_tokens_names, Listed, Closers, NEXT_ENTRY_3
<1>176. NEXT_ENTRY("SET_SAMPLE_INDEX") \in Listed
  BY GroupsInTable, SMT DEF set_tokens_names, Listed, Closers, NEXT_ENTRY
<1>177. NEXT_ENTRY("ACTION_SAMPLE_INDEX_VALUE") \in Listed
  BY GroupsInTable, SMT DEF age_sample_actions_names, Listed, Closers, NEXT_ENTRY
<1>178. NEXT_ENTRY("INDIRECT_ACTION_ID2PTR") \in Listed
  BY GroupsInTable, SMT DEF indirect_policy_tokens_names, Listed, Closers, NEXT_ENTRY
<1>179. NEXT_ENTRY("ITEM_POL_PORT") \in Listed
  BY GroupsInTable, SMT DEF indirect_policy_tokens_names, Listed, Closers, NEXT_ENTRY
<1>180. NEXT_ENTRY("ITEM_POL_METER") \in Listed
  BY GroupsInTable, SMT DEF indirect_policy_tokens_names, Listed, Closers, NEXT_ENTRY
<1>181. NEXT_ENTRY("ITEM_POL_POLICY") \in Listed
  BY GroupsInTable, SMT DEF indirect_policy_tokens_names, Listed, Closers, NEXT_ENTRY
<1>182. NEXT_ENTRY("ACTION_POL_R") \in Listed
  BY GroupsInTable, SMT DEF indirect_policy_tokens_names, Listed, Closers, NEXT_ENTRY
<1>183. NEXT_ENTRY("ACTION_POL_Y") \in Listed
  BY GroupsInTable, SMT DEF indirect_policy_tokens_names, Listed, Closers, NEXT_ENTRY
<1>184. NEXT_ENTRY("ACTION_POL_G") \in Listed
  BY GroupsInTable, SMT DEF indirect_policy_tokens_names, Listed, Closers, NEXT_ENTRY
<1>185. NEXT_ENTRY("COMMON_POLICY_ID") \in Listed
  BY GroupsInTable, SMT DEF common_tokens_names, Listed, Closers, NEXT_ENTRY
<1> QED BY <1>1, <1>2, <1>3, <1>4, <1>5, <1>6, <1>7, <1>8, <1>9, <1>10, <1>11, <1>12, <1>13,
     <1>14, <1>15, <1>16, <1>17, <1>18, <1>19, <1>20, <1>21, <1>22, <1>23, <1>24, <1>25,
     <1>26, <1>27, <1>28, <1>29, <1>30, <1>31, <1>32, <1>33, <1>34, <1>35, <1>36, <1>37,
     <1>38, <1>39, <1>40, <1>41, <1>42, <1>43, <1>44, <1>45, <1>46, <1>47, <1>48, <1>49,
     <1>50, <1>51, <1>52, <1>53, <1>54, <1>55, <1>56, <1>57, <1>58, <1>59, <1>60, <1>61,
     <1>62, <1>63, <1>64, <1>65, <1>66, <1>67, <1>68, <1>69, <1>70, <1>71, <1>72, <1>73,
     <1>74, <1>75, <1>76, <1>77, <1>78, <1>79, <1>80, <1>81, <1>82, <1>83, <1>84, <1>85,
     <1>86, <1>87, <1>88, <1>89, <1>90, <1>91, <1>92, <1>93, <1>94, <1>95, <1>96, <1>97,
     <1>98, <1>99, <1>100, <1>101, <1>102, <1>103, <1>104, <1>105, <1>106, <1>107, <1>108,
     <1>109, <1>110, <1>111, <1>112, <1>113, <1>114, <1>115, <1>116, <1>117, <1>118, <1>119,
     <1>120, <1>121, <1>122, <1>123, <1>124, <1>125, <1>126, <1>127, <1>128, <1>129, <1>130,
     <1>131, <1>132, <1>133, <1>134, <1>135, <1>136, <1>137, <1>138, <1>139, <1>140, <1>141,
     <1>142, <1>143, <1>144, <1>145, <1>146, <1>147, <1>148, <1>149, <1>150, <1>151, <1>152,
     <1>153, <1>154, <1>155, <1>156, <1>157, <1>158, <1>159, <1>160, <1>161, <1>162, <1>163,
     <1>164, <1>165, <1>166, <1>167, <1>168, <1>169, <1>170, <1>171, <1>172, <1>173, <1>174,
     <1>175, <1>176, <1>177, <1>178, <1>179, <1>180, <1>181, <1>182, <1>183, <1>184, <1>185,
     Zenon

\* The lists of a token are lists of the table.
WellFormed(token) == token.next \in Seq(Listed) /\ Len(token.args) \in Nat /\ DOMAIN token.args = 1 .. Len(token.args)

(* What is put together from such lists is well formed.                    *)
LEMMA WellFormedTokens ==
  /\ \A c, p : WellFormed(Token(c, <<>>, <<>>, p))
  /\ \A c, p, L : L \in Listed => WellFormed(Token(c, <<L>>, <<>>, p))
  /\ \A c, p, A, L : L \in Listed => WellFormed(Token(c, <<L>>, <<A>>, p))
  /\ \A c, p, L, M : L \in Listed /\ M \in Listed => WellFormed(Token(c, <<L, M>>, <<>>, p))
  /\ \A c, p, A, L, M : L \in Listed /\ M \in Listed => WellFormed(Token(c, <<L, M>>, <<A>>, p))
  /\ \A c, p, A, B, L, M : L \in Listed /\ M \in Listed => WellFormed(Token(c, <<L, M>>, <<A, B>>, p))
  /\ \A c, p, A, B, C, L, M : L \in Listed /\ M \in Listed => WellFormed(Token(c, <<L, M>>, <<A, B, C>>, p))
  /\ \A c, p, A, L, M, N : L \in Listed /\ M \in Listed /\ N \in Listed => WellFormed(Token(c, <<L, M, N>>, <<A>>, p))
  /\ \A c, p, A, B, C, L, M, N : L \in Listed /\ M \in Listed /\ N \in Listed => WellFormed(Token(c, <<L, M, N>>, <<A, B, C>>, p))
  /\ \A c, p, A, B, L, M, N, O, P : L \in Listed /\ M \in Listed /\ N \in Listed /\ O \in Listed /\ P \in Listed => WellFormed(Token(c, <<L, M, N, O, P>>, <<A, B>>, p))
<1>1. \A c, p : WellFormed(Token(c, <<>>, <<>>, p))
  BY SMT DEF WellFormed, Token
<1>2. \A c, p, L : L \in Listed => WellFormed(Token(c, <<L>>, <<>>, p))
  BY SMT DEF WellFormed, Token
<1>3. \A c, p, A, L : L \in Listed => WellFormed(Token(c, <<L>>, <<A>>, p))
  BY SMT DEF WellFormed, Token
<1>4. \A c, p, L, M : L \in Listed /\ M \in Listed => WellFormed(Token(c, <<L, M>>, <<>>, p))
  BY SMT DEF WellFormed, Token
<1>5. \A c, p, A, L, M : L \in Listed /\ M \in Listed => WellFormed(Token(c, <<L, M>>, <<A>>, p))
  BY SMT DEF WellFormed, Token
<1>6. \A c, p, A, B, L, M : L \in Listed /\ M \in Listed => WellFormed(Token(c, <<L, M>>, <<A, B>>, p))
  BY SMT DEF WellFormed, Token
<1>7. \A c, p, A, B, C, L, M : L \in Listed /\ M \in Listed => WellFormed(Token(c, <<L, M>>, <<A, B, C>>, p))
  BY SMT DEF WellFormed, Token
<1>8. \A c, p, A, L, M, N : L \in Listed /\ M \in Listed /\ N \in Listed => WellFormed(Token(c, <<L, M, N>>, <<A>>, p))
  BY SMT DEF WellFormed, Token
<1>9. \A c, p, A, B, C, L, M, N : L \in Listed /\ M \in Listed /\ N \in Listed => WellFormed(Token(c, <<L, M, N>>, <<A, B, C>>, p))
  BY SMT DEF WellFormed, Token
<1>10. \A c, p, A, B, L, M, N, O, P : L \in Listed /\ M \in Listed /\ N \in Listed /\ O \in Listed /\ P \in Listed => WellFormed(Token(c, <<L, M, N, O, P>>, <<A, B>>, p))
  BY SMT DEF WellFormed, Token
<1> QED
  BY <1>1, <1>2, <1>3, <1>4, <1>5, <1>6, <1>7, <1>8, <1>9, <1>10, Zenon

(* The token of a row.                                                     *)
LEMMA TokenOfRow == \A names, token : Each(names, token).token = token
  BY DEF Each

(* Every row of the table is well formed.                                  *)
LEMMA WellFormedRows ==
  /\ \A row \in common_tokens : WellFormed(row.token)
  /\ \A row \in command_tokens : WellFormed(row.token)
  /\ \A row \in flex_tunnel_tokens : WellFormed(row.token)
  /\ \A row \in attr_tokens : WellFormed(row.token)
  /\ \A row \in pattern_items : WellFormed(row.token)
  /\ \A row \in l2_items : WellFormed(row.token)
  /\ \A row \in ip_items : WellFormed(row.token)
  /\ \A row \in l4_items : WellFormed(row.token)
  /\ \A row \in tunnel_items : WellFormed(row.token)
  /\ \A row \in gtp_geneve_items : WellFormed(row.token)
  /\ \A row \in ipv6_ext_items : WellFormed(row.token)
  /\ \A row \in icmp6_items : WellFormed(row.token)
  /\ \A row \in session_items : WellFormed(row.token)
  /\ \A row \in ecpri_items : WellFormed(row.token)
  /\ \A row \in option_items : WellFormed(row.token)
  /\ \A row \in l2tpv2_items : WellFormed(row.token)
  /\ \A row \in actions_tokens : WellFormed(row.token)
  /\ \A row \in rss_tokens : WellFormed(row.token)
  /\ \A row \in port_meter_actions : WellFormed(row.token)
  /\ \A row \in openflow_actions : WellFormed(row.token)
  /\ \A row \in encap_actions : WellFormed(row.token)
  /\ \A row \in set_address_actions : WellFormed(row.token)
  /\ \A row \in mac_tcp_actions : WellFormed(row.token)
  /\ \A row \in raw_actions : WellFormed(row.token)
  /\ \A row \in modify_field_actions : WellFormed(row.token)
  /\ \A row \in set_tokens : WellFormed(row.token)
  /\ \A row \in age_sample_actions : WellFormed(row.token)
  /\ \A row \in indirect_policy_tokens : WellFormed(row.token)
<1>1. \A row \in common_tokens : WellFormed(row.token)
  <2>1. /\ NEXT_ENTRY_2("FLOW", "ADD") \in Listed
        /\ NEXT_ENTRY("SET") \in Listed
    BY ListsOfTable, Zenon
  <2> QED
    BY <2>1, WellFormedTokens, SMT DEF common_tokens, Each, Word, Call
<1>2. \A row \in command_tokens : WellFormed(row.token)
  <2>1. /\ flow_keywords \in Listed
        /\ next_ia_subcmd \in Listed
        /\ NEXT_ENTRY("COMMON_PORT_ID") \in Listed
        /\ next_ia_create_attr \in Listed
        /\ NEXT_ENTRY("INDIRECT_ACTION_SPEC") \in Listed
        /\ NEXT_ENTRY("COMMON_INDIRECT_ACTION_ID") \in Listed
        /\ NEXT_ENTRY("INDIRECT_ACTION_DESTROY_ID") \in Listed
        /\ NEXT_ENTRY("END") \in Listed
        /\ next_vc_attr \in Listed
        /\ NEXT_ENTRY("DESTROY_RULE") \in Listed
        /\ next_dump_subcmd \in Listed
        /\ NEXT_ENTRY("QUERY_ACTION") \in Listed
        /\ NEXT_ENTRY("COMMON_RULE_ID") \in Listed
        /\ next_list_attr \in Listed
        /\ next_aged_attr \in Listed
        /\ NEXT_ENTRY("COMMON_BOOLEAN") \in Listed
    BY ListsOfTable, Zenon
  <2> QED
    BY <2>1, WellFormedTokens, SMT DEF command_tokens, Each, Call
<1>3. \A row \in flex_tunnel_tokens : WellFormed(row.token)
  <2>1. /\ next_flex_item \in Listed
        /\ NEXT_ENTRY("COMMON_FLEX_TOKEN") \in Listed
        /\ NEXT_ENTRY("COMMON_PORT_ID") \in Listed
        /\ NEXT_ENTRY("COMMON_FILE_PATH") \in Listed
        /\ NEXT_ENTRY_3("TUNNEL_CREATE", "TUNNEL_LIST", "TUNNEL_DESTROY") \in Listed
        /\ NEXT_ENTRY("TUNNEL_CREATE_TYPE") \in Listed
        /\ NEXT_ENTRY("TUNNEL_DESTROY_ID") \in Listed
        /\ NEXT_ENTRY("COMMON_UNSIGNED") \in Listed
        /\ next_destroy_attr \in Listed
        /\ NEXT_ENTRY("COMMON_RULE_ID") \in Listed
        /\ next_dump_attr \in Listed
        /\ next_list_attr \in Listed
        /\ NEXT_ENTRY("COMMON_GROUP_ID") \in Listed
    BY ListsOfTable, Zenon
  <2> QED
    BY <2>1, WellFormedTokens, SMT DEF flex_tunnel_tokens, Each, Call
<1>4. \A row \in attr_tokens : WellFormed(row.token)
  <2>1. /\ next_vc_attr \in Listed
        /\ NEXT_ENTRY("COMMON_GROUP_ID") \in Listed
        /\ NEXT_ENTRY("COMMON_PRIORITY_LEVEL") \in Listed
        /\ NEXT_ENTRY("COMMON_UNSIGNED") \in Listed
        /\ next_item \in Listed
    BY ListsOfTable, Zenon
  <2> QED
    BY <2>1, WellFormedTokens, SMT DEF attr_tokens, Each, Call
<1>5. \A row \in pattern_items : WellFormed(row.token)
  <2>1. /\ next_item \in Listed
        /\ NEXT_ENTRY("ACTIONS") \in Listed
        /\ NEXT_ENTRY("ITEM_NEXT") \in Listed
        /\ item_any \in Listed
        /\ NEXT_ENTRY("COMMON_UNSIGNED") \in Listed
        /\ item_param \in Listed
        /\ item_vf \in Listed
        /\ item_phy_port \in Listed
        /\ item_port_id \in Listed
        /\ item_mark \in Listed
        /\ item_raw \in Listed
        /\ NEXT_ENTRY("COMMON_BOOLEAN") \in Listed
        /\ NEXT_ENTRY("COMMON_INTEGER") \in Listed
        /\ NEXT_ENTRY("COMMON_STRING") \in Listed
        /\ NEXT_ENTRY_3("ITEM_PARAM_IS", "ITEM_PARAM_SPEC", "ITEM_PARAM_MASK") \in Listed
    BY ListsOfTable, Zenon
  <2> QED
    BY <2>1, WellFormedTokens, SMT DEF pattern_items, Each, Word, Place, BareItem, Field
<1>6. \A row \in l2_items : WellFormed(row.token)
  <2>1. /\ item_eth \in Listed
        /\ NEXT_ENTRY("COMMON_MAC_ADDR") \in Listed
        /\ item_param \in Listed
        /\ NEXT_ENTRY("COMMON_UNSIGNED") \in Listed
        /\ item_vlan \in Listed
    BY ListsOfTable, Zenon
  <2> QED
    BY <2>1, WellFormedTokens, SMT DEF l2_items, Each, Place, Field
<1>7. \A row \in ip_items : WellFormed(row.token)
  <2>1. /\ item_ipv4 \in Listed
        /\ NEXT_ENTRY("COMMON_UNSIGNED") \in Listed
        /\ item_param \in Listed
        /\ NEXT_ENTRY("COMMON_IPV4_ADDR") \in Listed
        /\ item_ipv6 \in Listed
        /\ NEXT_ENTRY("COMMON_IPV6_ADDR") \in Listed
    BY ListsOfTable, Zenon
  <2> QED
    BY <2>1, WellFormedTokens, SMT DEF ip_items, Each, Place, Field
<1>8. \A row \in l4_items : WellFormed(row.token)
  <2>1. /\ item_icmp \in Listed
        /\ NEXT_ENTRY("COMMON_UNSIGNED") \in Listed
        /\ item_param \in Listed
        /\ item_udp \in Listed
        /\ item_tcp \in Listed
        /\ item_sctp \in Listed
    BY ListsOfTable, Zenon
  <2> QED
    BY <2>1, WellFormedTokens, SMT DEF l4_items, Each, Place, Field
<1>9. \A row \in tunnel_items : WellFormed(row.token)
  <2>1. /\ item_vxlan \in Listed
        /\ NEXT_ENTRY("COMMON_UNSIGNED") \in Listed
        /\ item_param \in Listed
        /\ item_e_tag \in Listed
        /\ item_nvgre \in Listed
        /\ item_mpls \in Listed
        /\ item_gre \in Listed
        /\ NEXT_ENTRY("COMMON_BOOLEAN") \in Listed
    BY ListsOfTable, Zenon
  <2> QED
    BY <2>1, WellFormedTokens, SMT DEF tunnel_items, Each, Place, Field
<1>10. \A row \in gtp_geneve_items : WellFormed(row.token)
  <2>1. /\ item_fuzzy \in Listed
        /\ NEXT_ENTRY("COMMON_UNSIGNED") \in Listed
        /\ item_param \in Listed
        /\ item_gtp \in Listed
        /\ item_geneve \in Listed
        /\ item_vxlan_gpe \in Listed
    BY ListsOfTable, Zenon
  <2> QED
    BY <2>1, WellFormedTokens, SMT DEF gtp_geneve_items, Each, Place, Field
<1>11. \A row \in ipv6_ext_items : WellFormed(row.token)
  <2>1. /\ item_arp_eth_ipv4 \in Listed
        /\ NEXT_ENTRY("COMMON_MAC_ADDR") \in Listed
        /\ item_param \in Listed
        /\ NEXT_ENTRY("COMMON_IPV4_ADDR") \in Listed
        /\ item_ipv6_ext \in Listed
        /\ NEXT_ENTRY("COMMON_UNSIGNED") \in Listed
        /\ item_ipv6_frag_ext \in Listed
    BY ListsOfTable, Zenon
  <2> QED
    BY <2>1, WellFormedTokens, SMT DEF ipv6_ext_items, Each, Place, Field
<1>12. \A row \in icmp6_items : WellFormed(row.token)
  <2>1. /\ item_icmp6 \in Listed
        /\ NEXT_ENTRY("COMMON_UNSIGNED") \in Listed
        /\ item_param \in Listed
        /\ item_icmp6_nd_ns \in Listed
        /\ NEXT_ENTRY("COMMON_IPV6_ADDR") \in Listed
        /\ item_icmp6_nd_na \in Listed
        /\ item_icmp6_nd_opt \in Listed
        /\ item_icmp6_nd_opt_sla_eth \in Listed
        /\ NEXT_ENTRY("COMMON_MAC_ADDR") \in Listed
        /\ item_icmp6_nd_opt_tla_eth \in Listed
        /\ item_meta \in Listed
    BY ListsOfTable, Zenon
  <2> QED
    BY <2>1, WellFormedTokens, SMT DEF icmp6_items, Each, Place, Field
<1>13. \A row \in session_items : WellFormed(row.token)
  <2>1. /\ item_gre_key \in Listed
        /\ NEXT_ENTRY("COMMON_UNSIGNED") \in Listed
        /\ item_param \in Listed
        /\ item_gtp_psc \in Listed
        /\ item_pppoes \in Listed
        /\ item_pppoed \in Listed
        /\ item_pppoe_proto_id \in Listed
        /\ item_higig2 \in Listed
        /\ item_tag \in Listed
        /\ NEXT_ENTRY("ITEM_PARAM_IS") \in Listed
    BY ListsOfTable, Zenon
  <2> QED
    BY <2>1, WellFormedTokens, SMT DEF session_items, Each, Place, Field
<1>14. \A row \in ecpri_items : WellFormed(row.token)
  <2>1. /\ item_l2tpv3oip \in Listed
        /\ NEXT_ENTRY("COMMON_UNSIGNED") \in Listed
        /\ item_param \in Listed
        /\ item_esp \in Listed
        /\ item_ah \in Listed
        /\ item_pfcp \in Listed
        /\ item_ecpri \in Listed
        /\ item_ecpri_common \in Listed
        /\ item_ecpri_common_type \in Listed
        /\ NEXT_ENTRY_2("ITEM_ECPRI_MSG_IQ_DATA_PCID", "ITEM_NEXT") \in Listed
        /\ NEXT_ENTRY_3("ITEM_ECPRI_MSG_IQ_DATA_PCID", "ITEM_ECPRI_COMMON", "ITEM_NEXT") \in
             Listed
        /\ NEXT_ENTRY_2("ITEM_ECPRI_MSG_RTC_CTRL_RTCID", "ITEM_NEXT") \in Listed
        /\ NEXT_ENTRY_3("ITEM_ECPRI_MSG_RTC_CTRL_RTCID", "ITEM_ECPRI_COMMON", "ITEM_NEXT")
             \in Listed
        /\ NEXT_ENTRY_2("ITEM_ECPRI_MSG_DLY_MSR_MSRID", "ITEM_NEXT") \in Listed
        /\ NEXT_ENTRY_3("ITEM_ECPRI_MSG_DLY_MSR_MSRID", "ITEM_ECPRI_COMMON", "ITEM_NEXT")
             \in Listed
    BY ListsOfTable, Zenon
  <2> QED
    BY <2>1, WellFormedTokens, SMT DEF ecpri_items, Each, Word, Call, Place, Field
<1>15. \A row \in option_items : WellFormed(row.token)
  <2>1. /\ item_geneve_opt \in Listed
        /\ NEXT_ENTRY("COMMON_UNSIGNED") \in Listed
        /\ item_param \in Listed
        /\ NEXT_ENTRY("COMMON_HEX") \in Listed
        /\ item_integrity \in Listed
        /\ item_integrity_lv \in Listed
        /\ NEXT_ENTRY("ITEM_NEXT") \in Listed
        /\ item_port_representor \in Listed
        /\ item_represented_port \in Listed
        /\ item_flex \in Listed
        /\ NEXT_ENTRY("COMMON_FLEX_HANDLE") \in Listed
        /\ NEXT_ENTRY("ITEM_PARAM_IS") \in Listed
    BY ListsOfTable, Zenon
  <2> QED
    BY <2>1, WellFormedTokens, SMT DEF option_items, Each, Place, Field
<1>16. \A row \in l2tpv2_items : WellFormed(row.token)
  <2>1. /\ item_l2tpv2 \in Listed
        /\ item_l2tpv2_common \in Listed
        /\ item_l2tpv2_common_type \in Listed
        /\ item_l2tpv2_msg_data_l \in Listed
        /\ NEXT_ENTRY_3("ITEM_L2TPV2_MSG_DATA_L_LENGTH", "ITEM_L2TPV2_COMMON", "ITEM_NEXT")
             \in Listed
        /\ NEXT_ENTRY("COMMON_UNSIGNED") \in Listed
        /\ item_param \in Listed
        /\ NEXT_ENTRY_3("ITEM_L2TPV2_MSG_DATA_L_TUNNEL_ID", "ITEM_L2TPV2_COMMON",
             "ITEM_NEXT") \in Listed
        /\ NEXT_ENTRY_3("ITEM_L2TPV2_MSG_DATA_L_SESSION_ID", "ITEM_L2TPV2_COMMON",
             "ITEM_NEXT") \in Listed
        /\ item_l2tpv2_msg_ctrl \in Listed
        /\ NEXT_ENTRY_3("ITEM_L2TPV2_MSG_CTRL_LENGTH", "ITEM_L2TPV2_COMMON", "ITEM_NEXT")
             \in Listed
        /\ NEXT_ENTRY_3("ITEM_L2TPV2_MSG_CTRL_TUNNEL_ID", "ITEM_L2TPV2_COMMON", "ITEM_NEXT")
             \in Listed
        /\ NEXT_ENTRY_3("ITEM_L2TPV2_MSG_CTRL_SESSION_ID", "ITEM_L2TPV2_COMMON",
             "ITEM_NEXT") \in Listed
        /\ NEXT_ENTRY_3("ITEM_L2TPV2_MSG_CTRL_NS", "ITEM_L2TPV2_COMMON", "ITEM_NEXT") \in
             Listed
        /\ item_ppp \in Listed
    BY ListsOfTable, Zenon
  <2> QED
    BY <2>1, WellFormedTokens, SMT DEF l2tpv2_items, Each, Word, Call, Place, Field
<1>17. \A row \in actions_tokens : WellFormed(row.token)
  <2>1. /\ next_action \in Listed
        /\ NEXT_ENTRY("ACTION_NEXT") \in Listed
        /\ action_jump \in Listed
        /\ NEXT_ENTRY("COMMON_UNSIGNED") \in Listed
        /\ action_mark \in Listed
        /\ action_queue \in Listed
        /\ action_count \in Listed
    BY ListsOfTable, Zenon
  <2> QED
    BY <2>1, WellFormedTokens, SMT DEF actions_tokens, Each, Word, Call, Place, BareAction,
       Conf
<1>18. \A row \in rss_tokens : WellFormed(row.token)
  <2>1. /\ action_rss \in Listed
        /\ action_rss_func \in Listed
        /\ NEXT_ENTRY("COMMON_UNSIGNED") \in Listed
        /\ NEXT_ENTRY("ACTION_RSS_TYPE") \in Listed
        /\ NEXT_ENTRY("COMMON_HEX") \in Listed
        /\ NEXT_ENTRY("ACTION_RSS_QUEUE") \in Listed
    BY ListsOfTable, Zenon
  <2> QED
    BY <2>1, WellFormedTokens, SMT DEF rss_tokens, Each, Word, Call
<1>19. \A row \in port_meter_actions : WellFormed(row.token)
  <2>1. /\ NEXT_ENTRY("ACTION_NEXT") \in Listed
        /\ action_vf \in Listed
        /\ NEXT_ENTRY("COMMON_BOOLEAN") \in Listed
        /\ NEXT_ENTRY("COMMON_UNSIGNED") \in Listed
        /\ action_phy_port \in Listed
        /\ action_port_id \in Listed
        /\ action_meter \in Listed
        /\ action_meter_color \in Listed
        /\ NEXT_ENTRY_3("ACTION_METER_COLOR_GREEN", "ACTION_METER_COLOR_YELLOW",
             "ACTION_METER_COLOR_RED") \in Listed
        /\ action_of_set_mpls_ttl \in Listed
    BY ListsOfTable, Zenon
  <2> QED
    BY <2>1, WellFormedTokens, SMT DEF port_meter_actions, Each, Word, Call, Place,
       BareAction, Conf
<1>20. \A row \in openflow_actions : WellFormed(row.token)
  <2>1. /\ NEXT_ENTRY("ACTION_NEXT") \in Listed
        /\ action_of_set_nw_ttl \in Listed
        /\ NEXT_ENTRY("COMMON_UNSIGNED") \in Listed
        /\ action_of_push_vlan \in Listed
        /\ action_of_set_vlan_vid \in Listed
        /\ action_of_set_vlan_pcp \in Listed
        /\ action_of_pop_mpls \in Listed
        /\ action_of_push_mpls \in Listed
    BY ListsOfTable, Zenon
  <2> QED
    BY <2>1, WellFormedTokens, SMT DEF openflow_actions, Each, Place, BareAction, Conf
<1>21. \A row \in encap_actions : WellFormed(row.token)
  <2>1. /\ NEXT_ENTRY("ACTION_NEXT") \in Listed
    BY ListsOfTable, Zenon
  <2> QED
    BY <2>1, WellFormedTokens, SMT DEF encap_actions, Each, BareAction, Place
<1>22. \A row \in set_address_actions : WellFormed(row.token)
  <2>1. /\ action_set_ipv4_src \in Listed
        /\ NEXT_ENTRY("COMMON_IPV4_ADDR") \in Listed
        /\ action_set_ipv4_dst \in Listed
        /\ action_set_ipv6_src \in Listed
        /\ NEXT_ENTRY("COMMON_IPV6_ADDR") \in Listed
        /\ action_set_ipv6_dst \in Listed
        /\ action_set_tp_src \in Listed
        /\ NEXT_ENTRY("COMMON_UNSIGNED") \in Listed
        /\ action_set_tp_dst \in Listed
    BY ListsOfTable, Zenon
  <2> QED
    BY <2>1, WellFormedTokens, SMT DEF set_address_actions, Each, Place, Conf
<1>23. \A row \in mac_tcp_actions : WellFormed(row.token)
  <2>1. /\ NEXT_ENTRY("ACTION_NEXT") \in Listed
        /\ action_set_ttl \in Listed
        /\ NEXT_ENTRY("COMMON_UNSIGNED") \in Listed
        /\ action_set_mac_src \in Listed
        /\ NEXT_ENTRY("COMMON_MAC_ADDR") \in Listed
        /\ action_set_mac_dst \in Listed
        /\ action_inc_tcp_seq \in Listed
        /\ action_dec_tcp_seq \in Listed
        /\ action_inc_tcp_ack \in Listed
        /\ action_dec_tcp_ack \in Listed
    BY ListsOfTable, Zenon
  <2> QED
    BY <2>1, WellFormedTokens, SMT DEF mac_tcp_actions, Each, Place, BareAction, Conf
<1>24. \A row \in raw_actions : WellFormed(row.token)
  <2>1. /\ action_raw_encap \in Listed
        /\ NEXT_ENTRY("ACTION_RAW_ENCAP_INDEX_VALUE") \in Listed
        /\ NEXT_ENTRY("ACTION_NEXT") \in Listed
        /\ action_raw_decap \in Listed
        /\ NEXT_ENTRY("ACTION_RAW_DECAP_INDEX_VALUE") \in Listed
    BY ListsOfTable, Zenon
  <2> QED
    BY <2>1, WellFormedTokens, SMT DEF raw_actions, Each, Word, Call
<1>25. \A row \in modify_field_actions : WellFormed(row.token)
  <2>1. /\ NEXT_ENTRY("ACTION_MODIFY_FIELD_OP") \in Listed
        /\ NEXT_ENTRY("ACTION_MODIFY_FIELD_DST_TYPE") \in Listed
        /\ NEXT_ENTRY("ACTION_MODIFY_FIELD_OP_VALUE") \in Listed
        /\ action_modify_field_dst \in Listed
        /\ NEXT_ENTRY("ACTION_MODIFY_FIELD_DST_TYPE_VALUE") \in Listed
        /\ NEXT_ENTRY("COMMON_UNSIGNED") \in Listed
        /\ action_modify_field_src \in Listed
        /\ NEXT_ENTRY("ACTION_MODIFY_FIELD_SRC_TYPE_VALUE") \in Listed
        /\ NEXT_ENTRY("ACTION_MODIFY_FIELD_WIDTH") \in Listed
        /\ NEXT_ENTRY("COMMON_HEX") \in Listed
        /\ NEXT_ENTRY("ACTION_NEXT") \in Listed
    BY ListsOfTable, Zenon
  <2> QED
    BY <2>1, WellFormedTokens, SMT DEF modify_field_actions, Each, Call, Place, Conf
<1>26. \A row \in set_tokens : WellFormed(row.token)
  <2>1. /\ NEXT_ENTRY_3("SET_RAW_ENCAP", "SET_RAW_DECAP", "SET_SAMPLE_ACTIONS") \in Listed
        /\ next_set_raw \in Listed
        /\ next_item \in Listed
        /\ next_action_sample \in Listed
        /\ NEXT_ENTRY("SET_SAMPLE_INDEX") \in Listed
        /\ action_set_tag \in Listed
        /\ NEXT_ENTRY("COMMON_UNSIGNED") \in Listed
        /\ action_set_meta \in Listed
    BY ListsOfTable, Zenon
  <2> QED
    BY <2>1, WellFormedTokens, SMT DEF set_tokens, Each, Call, Place, Conf
<1>27. \A row \in age_sample_actions : WellFormed(row.token)
  <2>1. /\ action_set_ipv4_dscp \in Listed
        /\ NEXT_ENTRY("COMMON_UNSIGNED") \in Listed
        /\ action_set_ipv6_dscp \in Listed
        /\ action_age \in Listed
        /\ action_sample \in Listed
        /\ NEXT_ENTRY("ACTION_SAMPLE_INDEX_VALUE") \in Listed
        /\ NEXT_ENTRY("ACTION_NEXT") \in Listed
        /\ action_update_conntrack \in Listed
        /\ action_port_representor \in Listed
        /\ action_represented_port \in Listed
    BY ListsOfTable, Zenon
  <2> QED
    BY <2>1, WellFormedTokens, SMT DEF age_sample_actions, Each, Word, Call, Place, Conf
<1>28. \A row \in indirect_policy_tokens : WellFormed(row.token)
  <2>1. /\ next_ia_destroy_attr \in Listed
        /\ NEXT_ENTRY("COMMON_INDIRECT_ACTION_ID") \in Listed
        /\ next_ia_create_attr \in Listed
        /\ NEXT_ENTRY("INDIRECT_ACTION_ID2PTR") \in Listed
        /\ NEXT_ENTRY("ACTION_NEXT") \in Listed
        /\ next_action \in Listed
        /\ NEXT_ENTRY("ITEM_POL_PORT") \in Listed
        /\ NEXT_ENTRY("ITEM_POL_METER") \in Listed
        /\ NEXT_ENTRY("ITEM_POL_POLICY") \in Listed
        /\ NEXT_ENTRY("ACTION_POL_R") \in Listed
        /\ NEXT_ENTRY("ACTION_POL_Y") \in Listed
        /\ NEXT_ENTRY("ACTION_POL_G") \in Listed
        /\ NEXT_ENTRY("COMMON_POLICY_ID") \in Listed
        /\ NEXT_ENTRY("COMMON_PORT_ID") \in Listed
    BY ListsOfTable, Zenon
  <2> QED
    BY <2>1, WellFormedTokens, SMT DEF indirect_policy_tokens, Each, Word, Call
<1> QED BY <1>1, <1>2, <1>3, <1>4, <1>5, <1>6, <1>7, <1>8, <1>9, <1>10, <1>11, <1>12, <1>13,
     <1>14, <1>15, <1>16, <1>17, <1>18, <1>19, <1>20, <1>21, <1>22, <1>23, <1>24, <1>25,
     <1>26, <1>27, <1>28, Zenon

(* So is every token.                                                      *)
LEMMA WellFormedTable == \A t \in Tokens : WellFormed(token_list[t])
<1> TAKE t \in Tokens
<1>1. PICK row \in rows : t \in row.names
  BY Zenon DEF Tokens, token_list
<1>2. PICK r \in rows : t \in r.names /\ token_list[t] = r.token
  BY <1>1, RowOfToken, Zenon
<1>3. WellFormed(r.token)
  BY <1>2, WellFormedRows, Zenon DEF rows
<1> QED
  BY <1>2, <1>3, Zenon

-----------------------------------------------------------------------------
(* The shapes of the tokens.                                               *)

\* The structure the last argument of a token is an offset into.
Owner(token) == token.args[Len(token.args)]

\* A field of an item, a field of an action, and the structure it is in.
FieldShape(token) == token.call = "parse_default" /\ Len(token.next) = 3
ConfShape(token) ==
  /\ token.call \in {"parse_default", "parse_vc_conf"} /\ Len(token.next) = 2
  /\ Len(token.args) # 0 /\ Owner(token) \notin {"buffer", "action_meter_color"}
FieldOf(token, S) == FieldShape(token) /\ Owner(token) = S
ConfOf(token, S) == ConfShape(token) /\ Owner(token) = S

\* What may follow while the data reserved last is a structure of an item.
TypeWords(S) ==
  CASE S = "item_ecpri" -> {"ITEM_ECPRI_COMMON", "ITEM_ECPRI_COMMON_TYPE"}
    [] S = "item_l2tpv2" -> {"ITEM_L2TPV2_COMMON", "ITEM_L2TPV2_COMMON_TYPE"}
    [] OTHER -> {}
ItemOffers(S) ==
  {"ITEM_NEXT"} \cup TypeWords(S) \cup {t \in Tokens : FieldOf(token_list[t], S)}

\* The same of an action: words that lead to a setting of the
\* configuration, and words that leave the list of the fields.
Settings(S) ==
  CASE S = "action_rss_data" -> {"ACTION_RSS_FUNC", "ACTION_RSS_TYPES", "ACTION_RSS_QUEUES"}
    [] S = "action_modify_field" ->
         {"ACTION_MODIFY_FIELD_OP", "ACTION_MODIFY_FIELD_DST_TYPE", "ACTION_MODIFY_FIELD_SRC_TYPE"}
    [] S = "action_meter_color" -> {"ACTION_METER_COLOR_TYPE"}
    [] OTHER -> {}
Words(S) ==
  CASE S = "action_raw_encap_data" -> {"ACTION_RAW_ENCAP_INDEX", "ACTION_RAW_ENCAP_INDEX_VALUE"}
    [] S = "action_raw_decap_data" -> {"ACTION_RAW_DECAP_INDEX", "ACTION_RAW_DECAP_INDEX_VALUE"}
    [] S = "action_sample_data" ->
         {"ACTION_SAMPLE", "ACTION_SAMPLE_INDEX", "ACTION_SAMPLE_INDEX_VALUE"}
    [] S = "action_age" -> {"ACTION_AGE"}
    [] S = "modify_conntrack" -> {"ACTION_CONNTRACK_UPDATE_DIR", "ACTION_CONNTRACK_UPDATE_CTX"}
    [] OTHER -> {}
ActionOffers(S) ==
  {"ACTION_NEXT"} \cup Settings(S) \cup Words(S) \cup {t \in Tokens : ConfOf(token_list[t], S)}

ItemList(L, S) == L \subseteq ItemOffers(S)
ActionList(L, S) == L \subseteq ActionOffers(S)

\* The values stored through one argument, and through three.
OneValues ==
  {"COMMON_INTEGER", "COMMON_UNSIGNED", "COMMON_RULE_ID", "COMMON_GROUP_ID",
   "COMMON_PRIORITY_LEVEL", "COMMON_INDIRECT_ACTION_ID", "COMMON_POLICY_ID",
   "COMMON_FLEX_TOKEN", "COMMON_PREFIX", "COMMON_BOOLEAN", "COMMON_FILE_PATH",
   "COMMON_MAC_ADDR", "COMMON_IPV4_ADDR", "COMMON_IPV6_ADDR", "COMMON_PORT_ID",
   "COMMON_FLEX_HANDLE"}
ThreeValues == {"COMMON_STRING", "COMMON_HEX"}
ValueList(L, n) ==
  \/ n = 1 /\ L \subseteq OneValues
  \/ n = 3 /\ L \subseteq ThreeValues

(* A token with three lists is a field, one with two a configuration, of   *)
(* the structure of its last argument.                                     *)
LEMMA OwnedTokens ==
  /\ \A L, M, N, A, p : FieldOf(Token("parse_default", <<L, M, N>>, <<A>>, p), A)
  /\ \A L, M, N, A, B, C, p : FieldOf(Token("parse_default", <<L, M, N>>, <<A, B, C>>, p), C)
  /\ \A c, L, M, A, p : c \in {"parse_default", "parse_vc_conf"} /\ A \notin {"buffer", "action_meter_color"} =>
       ConfOf(Token(c, <<L, M>>, <<A>>, p), A)
  /\ \A c, L, M, A, B, C, p : c \in {"parse_default", "parse_vc_conf"} /\ C \notin {"buffer", "action_meter_color"} =>
       ConfOf(Token(c, <<L, M>>, <<A, B, C>>, p), C)
  BY SMT DEF FieldOf, ConfOf, FieldShape, ConfShape, Owner, Token

(* The fields of the items.                                                *)
LEMMA FieldsOfItems ==
  /\ \A t \in {"ITEM_ANY_NUM"} : FieldOf(token_list[t], "item_any")
  /\ \A t \in {"ITEM_VF_ID"} : FieldOf(token_list[t], "item_vf")
  /\ \A t \in {"ITEM_PHY_PORT_INDEX"} : FieldOf(token_list[t], "item_phy_port")
  /\ \A t \in {"ITEM_PORT_ID_ID"} : FieldOf(token_list[t], "item_port_id")
  /\ \A t \in {"ITEM_MARK_ID"} : FieldOf(token_list[t], "item_mark")
  /\ \A t \in {"ITEM_RAW_RELATIVE", "ITEM_RAW_SEARCH", "ITEM_RAW_OFFSET", "ITEM_RAW_LIMIT",
           "ITEM_RAW_PATTERN"} : FieldOf(token_list[t], "item_raw")
  /\ \A t \in {"ITEM_ETH_DST", "ITEM_ETH_SRC", "ITEM_ETH_TYPE", "ITEM_ETH_HAS_VLAN"} :
           FieldOf(token_list[t], "item_eth")
  /\ \A t \in {"ITEM_VLAN_TCI", "ITEM_VLAN_PCP", "ITEM_VLAN_DEI", "ITEM_VLAN_VID",
           "ITEM_VLAN_INNER_TYPE", "ITEM_VLAN_HAS_MORE_VLAN"} : FieldOf(token_list[t],
           "item_vlan")
  /\ \A t \in {"ITEM_IPV4_VER_IHL", "ITEM_IPV4_TOS", "ITEM_IPV4_ID", "ITEM_IPV4_FRAGMENT_OFFSET",
           "ITEM_IPV4_TTL", "ITEM_IPV4_PROTO", "ITEM_IPV4_SRC", "ITEM_IPV4_DST"} :
           FieldOf(token_list[t], "item_ipv4")
  /\ \A t \in {"ITEM_IPV6_TC", "ITEM_IPV6_FLOW", "ITEM_IPV6_PROTO", "ITEM_IPV6_HOP",
           "ITEM_IPV6_HAS_FRAG_EXT", "ITEM_IPV6_SRC", "ITEM_IPV6_DST"} :
           FieldOf(token_list[t], "item_ipv6")
  /\ \A t \in {"ITEM_ICMP_TYPE", "ITEM_ICMP_CODE", "ITEM_ICMP_IDENT", "ITEM_ICMP_SEQ"} :
           FieldOf(token_list[t], "item_icmp")
  /\ \A t \in {"ITEM_UDP_SRC", "ITEM_UDP_DST"} : FieldOf(token_list[t], "item_udp")
  /\ \A t \in {"ITEM_TCP_SRC", "ITEM_TCP_DST", "ITEM_TCP_FLAGS"} : FieldOf(token_list[t],
           "item_tcp")
  /\ \A t \in {"ITEM_SCTP_SRC", "ITEM_SCTP_DST", "ITEM_SCTP_TAG", "ITEM_SCTP_CKSUM"} :
           FieldOf(token_list[t], "item_sctp")
  /\ \A t \in {"ITEM_VXLAN_VNI", "ITEM_VXLAN_LAST_RSVD"} : FieldOf(token_list[t], "item_vxlan")
  /\ \A t \in {"ITEM_E_TAG_GRP_ECID_B"} : FieldOf(token_list[t], "item_e_tag")
  /\ \A t \in {"ITEM_NVGRE_TNI"} : FieldOf(token_list[t], "item_nvgre")
  /\ \A t \in {"ITEM_MPLS_LABEL", "ITEM_MPLS_TC", "ITEM_MPLS_S"} : FieldOf(token_list[t],
           "item_mpls")
  /\ \A t \in {"ITEM_GRE_PROTO", "ITEM_GRE_C_RSVD0_VER", "ITEM_GRE_C_BIT", "ITEM_GRE_S_BIT",
           "ITEM_GRE_K_BIT"} : FieldOf(token_list[t], "item_gre")
  /\ \A t \in {"ITEM_FUZZY_THRESH"} : FieldOf(token_list[t], "item_fuzzy")
  /\ \A t \in {"ITEM_GTP_FLAGS", "ITEM_GTP_MSG_TYPE", "ITEM_GTP_TEID"} : FieldOf(token_list[t],
           "item_gtp")
  /\ \A t \in {"ITEM_GENEVE_VNI", "ITEM_GENEVE_PROTO", "ITEM_GENEVE_OPTLEN"} :
           FieldOf(token_list[t], "item_geneve")
  /\ \A t \in {"ITEM_VXLAN_GPE_VNI"} : FieldOf(token_list[t], "item_vxlan_gpe")
  /\ \A t \in {"ITEM_ARP_ETH_IPV4_SHA", "ITEM_ARP_ETH_IPV4_THA", "ITEM_ARP_ETH_IPV4_SPA",
           "ITEM_ARP_ETH_IPV4_TPA"} : FieldOf(token_list[t], "item_arp_eth_ipv4")
  /\ \A t \in {"ITEM_IPV6_EXT_NEXT_HDR"} : FieldOf(token_list[t], "item_ipv6_ext")
  /\ \A t \in {"ITEM_IPV6_FRAG_EXT_NEXT_HDR", "ITEM_IPV6_FRAG_EXT_FRAG_DATA",
           "ITEM_IPV6_FRAG_EXT_ID"} : FieldOf(token_list[t], "item_ipv6_frag_ext")
  /\ \A t \in {"ITEM_ICMP6_TYPE", "ITEM_ICMP6_CODE"} : FieldOf(token_list[t], "item_icmp6")
  /\ \A t \in {"ITEM_ICMP6_ND_NS_TARGET_ADDR"} : FieldOf(token_list[t], "item_icmp6_nd_ns")
  /\ \A t \in {"ITEM_ICMP6_ND_NA_TARGET_ADDR"} : FieldOf(token_list[t], "item_icmp6_nd_na")
  /\ \A t \in {"ITEM_ICMP6_ND_OPT_TYPE"} : FieldOf(token_list[t], "item_icmp6_nd_opt")
  /\ \A t \in {"ITEM_ICMP6_ND_OPT_SLA_ETH_SLA"} : FieldOf(token_list[t],
           "item_icmp6_nd_opt_sla_eth")
  /\ \A t \in {"ITEM_ICMP6_ND_OPT_TLA_ETH_TLA"} : FieldOf(token_list[t],
           "item_icmp6_nd_opt_tla_eth")
  /\ \A t \in {"ITEM_META_DATA"} : FieldOf(token_list[t], "item_meta")
  /\ \A t \in {"ITEM_GRE_KEY_VALUE"} : FieldOf(token_list[t], "rte_be32_t")
  /\ \A t \in {"ITEM_GTP_PSC_QFI", "ITEM_GTP_PSC_PDU_T"} : FieldOf(token_list[t], "item_gtp_psc")
  /\ \A t \in {"ITEM_PPPOE_SEID"} : FieldOf(token_list[t], "item_pppoe")
  /\ \A t \in {"ITEM_HIGIG2_CLASSIFICATION", "ITEM_HIGIG2_VID"} : FieldOf(token_list[t],
           "item_higig2_hdr")
  /\ \A t \in {"ITEM_TAG_DATA", "ITEM_TAG_INDEX"} : FieldOf(token_list[t], "item_tag")
  /\ \A t \in {"ITEM_L2TPV3OIP_SESSION_ID"} : FieldOf(token_list[t], "item_l2tpv3oip")
  /\ \A t \in {"ITEM_ESP_SPI"} : FieldOf(token_list[t], "item_esp")
  /\ \A t \in {"ITEM_AH_SPI"} : FieldOf(token_list[t], "item_ah")
  /\ \A t \in {"ITEM_PFCP_S_FIELD", "ITEM_PFCP_SEID"} : FieldOf(token_list[t], "item_pfcp")
  /\ \A t \in {"ITEM_ECPRI_MSG_IQ_DATA_PCID", "ITEM_ECPRI_MSG_RTC_CTRL_RTCID",
           "ITEM_ECPRI_MSG_DLY_MSR_MSRID"} : FieldOf(token_list[t], "item_ecpri")
  /\ \A t \in {"ITEM_GENEVE_OPT_CLASS", "ITEM_GENEVE_OPT_TYPE", "ITEM_GENEVE_OPT_LENGTH",
           "ITEM_GENEVE_OPT_DATA"} : FieldOf(token_list[t], "item_geneve_opt")
  /\ \A t \in {"ITEM_INTEGRITY_LEVEL", "ITEM_INTEGRITY_VALUE"} : FieldOf(token_list[t],
           "item_integrity")
  /\ \A t \in {"ITEM_CONNTRACK"} : FieldOf(token_list[t], "item_conntrack")
  /\ \A t \in {"ITEM_PORT_REPRESENTOR_PORT_ID", "ITEM_REPRESENTED_PORT_ETHDEV_PORT_ID"} :
           FieldOf(token_list[t], "item_ethdev")
  /\ \A t \in {"ITEM_FLEX_ITEM_HANDLE", "ITEM_FLEX_PATTERN_HANDLE"} : FieldOf(token_list[t],
           "item_flex")
  /\ \A t \in {"ITEM_L2TPV2_MSG_DATA_L_LENGTH", "ITEM_L2TPV2_MSG_DATA_L_TUNNEL_ID",
           "ITEM_L2TPV2_MSG_DATA_L_SESSION_ID", "ITEM_L2TPV2_MSG_CTRL_LENGTH",
           "ITEM_L2TPV2_MSG_CTRL_TUNNEL_ID", "ITEM_L2TPV2_MSG_CTRL_SESSION_ID",
           "ITEM_L2TPV2_MSG_CTRL_NS", "ITEM_L2TPV2_MSG_CTRL_NR"} : FieldOf(token_list[t],
           "item_l2tpv2")
  /\ \A t \in {"ITEM_PPP_ADDR", "ITEM_PPP_CTRL", "ITEM_PPP_PROTO_ID"} : FieldOf(token_list[t],
           "item_ppp")
<1>1. /\ \A t \in {"ITEM_ANY_NUM"} : FieldOf(token_list[t], "item_any")
      /\ \A t \in {"ITEM_VF_ID"} : FieldOf(token_list[t], "item_vf")
      /\ \A t \in {"ITEM_PHY_PORT_INDEX"} : FieldOf(token_list[t], "item_phy_port")
      /\ \A t \in {"ITEM_PORT_ID_ID"} : FieldOf(token_list[t], "item_port_id")
      /\ \A t \in {"ITEM_MARK_ID"} : FieldOf(token_list[t], "item_mark")
      /\ \A t \in {"ITEM_RAW_RELATIVE", "ITEM_RAW_SEARCH", "ITEM_RAW_OFFSET", "ITEM_RAW_LIMIT",
               "ITEM_RAW_PATTERN"} : FieldOf(token_list[t], "item_raw")
  <2>1. \A t \in pattern_items_names : RowOf(t, pattern_items)
    BY RowsApart, Zenon
  <2> QED
    BY <2>1, OwnedTokens, SMT DEF pattern_items, pattern_items_names, RowOf, Each, Word,
       Place, BareItem, Field
<1>2. /\ \A t \in {"ITEM_ETH_DST", "ITEM_ETH_SRC", "ITEM_ETH_TYPE", "ITEM_ETH_HAS_VLAN"} :
               FieldOf(token_list[t], "item_eth")
      /\ \A t \in {"ITEM_VLAN_TCI", "ITEM_VLAN_PCP", "ITEM_VLAN_DEI", "ITEM_VLAN_VID",
               "ITEM_VLAN_INNER_TYPE", "ITEM_VLAN_HAS_MORE_VLAN"} : FieldOf(token_list[t],
               "item_vlan")
  <2>1. \A t \in l2_items_names : RowOf(t, l2_items)
    BY RowsApart, Zenon
  <2> QED
    BY <2>1, OwnedTokens, SMT DEF l2_items, l2_items_names, RowOf, Each, Place, Field
<1>3. /\ \A t \in {"ITEM_IPV4_VER_IHL", "ITEM_IPV4_TOS", "ITEM_IPV4_ID", "ITEM_IPV4_FRAGMENT_OFFSET",
               "ITEM_IPV4_TTL", "ITEM_IPV4_PROTO", "ITEM_IPV4_SRC", "ITEM_IPV4_DST"} :
               FieldOf(token_list[t], "item_ipv4")
      /\ \A t \in {"ITEM_IPV6_TC", "ITEM_IPV6_FLOW", "ITEM_IPV6_PROTO", "ITEM_IPV6_HOP",
               "ITEM_IPV6_HAS_FRAG_EXT", "ITEM_IPV6_SRC", "ITEM_IPV6_DST"} :
               FieldOf(token_list[t], "item_ipv6")
  <2>1. \A t \in ip_items_names : RowOf(t, ip_items)
    BY RowsApart, Zenon
  <2> QED
    BY <2>1, OwnedTokens, SMT DEF ip_items, ip_items_names, RowOf, Each, Place, Field
<1>4. /\ \A t \in {"ITEM_ICMP_TYPE", "ITEM_ICMP_CODE", "ITEM_ICMP_IDENT", "ITEM_ICMP_SEQ"} :
               FieldOf(token_list[t], "item_icmp")
      /\ \A t \in {"ITEM_UDP_SRC", "ITEM_UDP_DST"} : FieldOf(token_list[t], "item_udp")
      /\ \A t \in {"ITEM_TCP_SRC", "ITEM_TCP_DST", "ITEM_TCP_FLAGS"} : FieldOf(token_list[t],
               "item_tcp")
      /\ \A t \in {"ITEM_SCTP_SRC", "ITEM_SCTP_DST", "ITEM_SCTP_TAG", "ITEM_SCTP_CKSUM"} :
               FieldOf(token_list[t], "item_sctp")
  <2>1. \A t \in l4_items_names : RowOf(t, l4_items)
    BY RowsApart, Zenon
  <2> QED
    BY <2>1, OwnedTokens, SMT DEF l4_items, l4_items_names, RowOf, Each, Place, Field
<1>5. /\ \A t \in {"ITEM_VXLAN_VNI", "ITEM_VXLAN_LAST_RSVD"} : FieldOf(token_list[t], "item_vxlan")
      /\ \A t \in {"ITEM_E_TAG_GRP_ECID_B"} : FieldOf(token_list[t], "item_e_tag")
      /\ \A t \in {"ITEM_NVGRE_TNI"} : FieldOf(token_list[t], "item_nvgre")
      /\ \A t \in {"ITEM_MPLS_LABEL", "ITEM_MPLS_TC", "ITEM_MPLS_S"} : FieldOf(token_list[t],
               "item_mpls")
      /\ \A t \in {"ITEM_GRE_PROTO", "ITEM_GRE_C_RSVD0_VER", "ITEM_GRE_C_BIT", "ITEM_GRE_S_BIT",
               "ITEM_GRE_K_BIT"} : FieldOf(token_list[t], "item_gre")
  <2>1. \A t \in tunnel_items_names : RowOf(t, tunnel_items)
    BY RowsApart, Zenon
  <2> QED
    BY <2>1, OwnedTokens, SMT DEF tunnel_items, tunnel_items_names, RowOf, Each, Place,
       Field
<1>6. /\ \A t \in {"ITEM_FUZZY_THRESH"} : FieldOf(token_list[t], "item_fuzzy")
      /\ \A t \in {"ITEM_GTP_FLAGS", "ITEM_GTP_MSG_TYPE", "ITEM_GTP_TEID"} : FieldOf(token_list[t],
               "item_gtp")
      /\ \A t \in {"ITEM_GENEVE_VNI", "ITEM_GENEVE_PROTO", "ITEM_GENEVE_OPTLEN"} :
               FieldOf(token_list[t], "item_geneve")
      /\ \A t \in {"ITEM_VXLAN_GPE_VNI"} : FieldOf(token_list[t], "item_vxlan_gpe")
  <2>1. \A t \in gtp_geneve_items_names : RowOf(t, gtp_geneve_items)
    BY RowsApart, Zenon
  <2> QED
    BY <2>1, OwnedTokens, SMT DEF gtp_geneve_items, gtp_geneve_items_names, RowOf, Each,
       Place, Field
<1>7. /\ \A t \in {"ITEM_ARP_ETH_IPV4_SHA", "ITEM_ARP_ETH_IPV4_THA", "ITEM_ARP_ETH_IPV4_SPA",
               "ITEM_ARP_ETH_IPV4_TPA"} : FieldOf(token_list[t], "item_arp_eth_ipv4")
      /\ \A t \in {"ITEM_IPV6_EXT_NEXT_HDR"} : FieldOf(token_list[t], "item_ipv6_ext")
      /\ \A t \in {"ITEM_IPV6_FRAG_EXT_NEXT_HDR", "ITEM_IPV6_FRAG_EXT_FRAG_DATA",
               "ITEM_IPV6_FRAG_EXT_ID"} : FieldOf(token_list[t], "item_ipv6_frag_ext")
  <2>1. \A t \in ipv6_ext_items_names : RowOf(t, ipv6_ext_items)
    BY RowsApart, Zenon
  <2> QED
    BY <2>1, OwnedTokens, SMT DEF ipv6_ext_items, ipv6_ext_items_names, RowOf, Each, Place,
       Field
<1>8. /\ \A t \in {"ITEM_ICMP6_TYPE", "ITEM_ICMP6_CODE"} : FieldOf(token_list[t], "item_icmp6")
      /\ \A t \in {"ITEM_ICMP6_ND_NS_TARGET_ADDR"} : FieldOf(token_list[t], "item_icmp6_nd_ns")
      /\ \A t \in {"ITEM_ICMP6_ND_NA_TARGET_ADDR"} : FieldOf(token_list[t], "item_icmp6_nd_na")
      /\ \A t \in {"ITEM_ICMP6_ND_OPT_TYPE"} : FieldOf(token_list[t], "item_icmp6_nd_opt")
      /\ \A t \in {"ITEM_ICMP6_ND_OPT_SLA_ETH_SLA"} : FieldOf(token_list[t],
               "item_icmp6_nd_opt_sla_eth")
      /\ \A t \in {"ITEM_ICMP6_ND_OPT_TLA_ETH_TLA"} : FieldOf(token_list[t],
               "item_icmp6_nd_opt_tla_eth")
      /\ \A t \in {"ITEM_META_DATA"} : FieldOf(token_list[t], "item_meta")
  <2>1. \A t \in icmp6_items_names : RowOf(t, icmp6_items)
    BY RowsApart, Zenon
  <2> QED
    BY <2>1, OwnedTokens, SMT DEF icmp6_items, icmp6_items_names, RowOf, Each, Place, Field
<1>9. /\ \A t \in {"ITEM_GRE_KEY_VALUE"} : FieldOf(token_list[t], "rte_be32_t")
      /\ \A t \in {"ITEM_GTP_PSC_QFI", "ITEM_GTP_PSC_PDU_T"} : FieldOf(token_list[t], "item_gtp_psc")
      /\ \A t \in {"ITEM_PPPOE_SEID"} : FieldOf(token_list[t], "item_pppoe")
      /\ \A t \in {"ITEM_HIGIG2_CLASSIFICATION", "ITEM_HIGIG2_VID"} : FieldOf(token_list[t],
               "item_higig2_hdr")
      /\ \A t \in {"ITEM_TAG_DATA", "ITEM_TAG_INDEX"} : FieldOf(token_list[t], "item_tag")
  <2>1. \A t \in session_items_names : RowOf(t, session_items)
    BY RowsApart, Zenon
  <2> QED
    BY <2>1, OwnedTokens, SMT DEF session_items, session_items_names, RowOf, Each, Place,
       Field
<1>10. /\ \A t \in {"ITEM_L2TPV3OIP_SESSION_ID"} : FieldOf(token_list[t], "item_l2tpv3oip")
       /\ \A t \in {"ITEM_ESP_SPI"} : FieldOf(token_list[t], "item_esp")
       /\ \A t \in {"ITEM_AH_SPI"} : FieldOf(token_list[t], "item_ah")
       /\ \A t \in {"ITEM_PFCP_S_FIELD", "ITEM_PFCP_SEID"} : FieldOf(token_list[t], "item_pfcp")
       /\ \A t \in {"ITEM_ECPRI_MSG_IQ_DATA_PCID", "ITEM_ECPRI_MSG_RTC_CTRL_RTCID",
                "ITEM_ECPRI_MSG_DLY_MSR_MSRID"} : FieldOf(token_list[t], "item_ecpri")
  <2>1. \A t \in ecpri_items_names : RowOf(t, ecpri_items)
    BY RowsApart, Zenon
  <2> QED
    BY <2>1, OwnedTokens, SMT DEF ecpri_items, ecpri_items_names, RowOf, Each, Word, Call,
       Place, Field
<1>11. /\ \A t \in {"ITEM_GENEVE_OPT_CLASS", "ITEM_GENEVE_OPT_TYPE", "ITEM_GENEVE_OPT_LENGTH",
                "ITEM_GENEVE_OPT_DATA"} : FieldOf(token_list[t], "item_geneve_opt")
       /\ \A t \in {"ITEM_INTEGRITY_LEVEL", "ITEM_INTEGRITY_VALUE"} : FieldOf(token_list[t],
                "item_integrity")
       /\ \A t \in {"ITEM_CONNTRACK"} : FieldOf(token_list[t], "item_conntrack")
       /\ \A t \in {"ITEM_PORT_REPRESENTOR_PORT_ID", "ITEM_REPRESENTED_PORT_ETHDEV_PORT_ID"} :
                FieldOf(token_list[t], "item_ethdev")
       /\ \A t \in {"ITEM_FLEX_ITEM_HANDLE", "ITEM_FLEX_PATTERN_HANDLE"} : FieldOf(token_list[t],
                "item_flex")
  <2>1. \A t \in option_items_names : RowOf(t, option_items)
    BY RowsApart, Zenon
  <2> QED
    BY <2>1, OwnedTokens, SMT DEF option_items, option_items_names, RowOf, Each, Place,
       Field
<1>12. /\ \A t \in {"ITEM_L2TPV2_MSG_DATA_L_LENGTH", "ITEM_L2TPV2_MSG_DATA_L_TUNNEL_ID",
                "ITEM_L2TPV2_MSG_DATA_L_SESSION_ID", "ITEM_L2TPV2_MSG_CTRL_LENGTH",
                "ITEM_L2TPV2_MSG_CTRL_TUNNEL_ID", "ITEM_L2TPV2_MSG_CTRL_SESSION_ID",
                "ITEM_L2TPV2_MSG_CTRL_NS", "ITEM_L2TPV2_MSG_CTRL_NR"} :
                FieldOf(token_list[t], "item_l2tpv2")
       /\ \A t \in {"ITEM_PPP_ADDR", "ITEM_PPP_CTRL", "ITEM_PPP_PROTO_ID"} : FieldOf(token_list[t],
                "item_ppp")
  <2>1. \A t \in l2tpv2_items_names : RowOf(t, l2tpv2_items)
    BY RowsApart, Zenon
  <2> QED
    BY <2>1, OwnedTokens, SMT DEF l2tpv2_items, l2tpv2_items_names, RowOf, Each, Word, Call,
       Place, Field
<1> QED
  BY <1>1, <1>2, <1>3, <1>4, <1>5, <1>6, <1>7, <1>8, <1>9, <1>10, <1>11, <1>12, Zenon

(* The fields of the actions.                                              *)
LEMMA ConfsOfActions ==
  /\ \A t \in {"ACTION_JUMP_GROUP"} : ConfOf(token_list[t], "action_jump")
  /\ \A t \in {"ACTION_MARK_ID"} : ConfOf(token_list[t], "action_mark")
  /\ \A t \in {"ACTION_QUEUE_INDEX"} : ConfOf(token_list[t], "action_queue")
  /\ \A t \in {"ACTION_COUNT_ID"} : ConfOf(token_list[t], "action_count")
  /\ \A t \in {"ACTION_RSS_LEVEL", "ACTION_RSS_KEY_LEN", "ACTION_RSS_KEY"} :
           ConfOf(token_list[t], "action_rss_data")
  /\ \A t \in {"ACTION_VF_ORIGINAL", "ACTION_VF_ID"} : ConfOf(token_list[t], "action_vf")
  /\ \A t \in {"ACTION_PHY_PORT_ORIGINAL", "ACTION_PHY_PORT_INDEX"} : ConfOf(token_list[t],
           "action_phy_port")
  /\ \A t \in {"ACTION_PORT_ID_ORIGINAL", "ACTION_PORT_ID_ID"} : ConfOf(token_list[t],
           "action_port_id")
  /\ \A t \in {"ACTION_METER_ID"} : ConfOf(token_list[t], "action_meter")
  /\ \A t \in {"ACTION_OF_SET_MPLS_TTL_MPLS_TTL"} : ConfOf(token_list[t],
           "action_of_set_mpls_ttl")
  /\ \A t \in {"ACTION_OF_SET_NW_TTL_NW_TTL"} : ConfOf(token_list[t], "action_of_set_nw_ttl")
  /\ \A t \in {"ACTION_OF_PUSH_VLAN_ETHERTYPE"} : ConfOf(token_list[t], "action_of_push_vlan")
  /\ \A t \in {"ACTION_OF_SET_VLAN_VID_VLAN_VID"} : ConfOf(token_list[t],
           "action_of_set_vlan_vid")
  /\ \A t \in {"ACTION_OF_SET_VLAN_PCP_VLAN_PCP"} : ConfOf(token_list[t],
           "action_of_set_vlan_pcp")
  /\ \A t \in {"ACTION_OF_POP_MPLS_ETHERTYPE"} : ConfOf(token_list[t], "action_of_pop_mpls")
  /\ \A t \in {"ACTION_OF_PUSH_MPLS_ETHERTYPE"} : ConfOf(token_list[t], "action_of_push_mpls")
  /\ \A t \in {"ACTION_SET_IPV4_SRC_IPV4_SRC", "ACTION_SET_IPV4_DST_IPV4_DST"} :
           ConfOf(token_list[t], "action_set_ipv4")
  /\ \A t \in {"ACTION_SET_IPV6_SRC_IPV6_SRC", "ACTION_SET_IPV6_DST_IPV6_DST"} :
           ConfOf(token_list[t], "action_set_ipv6")
  /\ \A t \in {"ACTION_SET_TP_SRC_TP_SRC", "ACTION_SET_TP_DST_TP_DST"} : ConfOf(token_list[t],
           "action_set_tp")
  /\ \A t \in {"ACTION_SET_TTL_TTL"} : ConfOf(token_list[t], "action_set_ttl")
  /\ \A t \in {"ACTION_SET_MAC_SRC_MAC_SRC", "ACTION_SET_MAC_DST_MAC_DST"} :
           ConfOf(token_list[t], "action_set_mac")
  /\ \A t \in {"ACTION_INC_TCP_SEQ_VALUE", "ACTION_DEC_TCP_SEQ_VALUE",
           "ACTION_INC_TCP_ACK_VALUE", "ACTION_DEC_TCP_ACK_VALUE"} : ConfOf(token_list[t],
           "rte_be32_t")
  /\ \A t \in {"ACTION_MODIFY_FIELD_DST_LEVEL", "ACTION_MODIFY_FIELD_DST_OFFSET",
           "ACTION_MODIFY_FIELD_SRC_LEVEL", "ACTION_MODIFY_FIELD_SRC_OFFSET",
           "ACTION_MODIFY_FIELD_SRC_VALUE", "ACTION_MODIFY_FIELD_SRC_POINTER",
           "ACTION_MODIFY_FIELD_WIDTH"} : ConfOf(token_list[t], "action_modify_field")
  /\ \A t \in {"ACTION_SET_TAG_INDEX", "ACTION_SET_TAG_DATA", "ACTION_SET_TAG_MASK"} :
           ConfOf(token_list[t], "action_set_tag")
  /\ \A t \in {"ACTION_SET_META_DATA", "ACTION_SET_META_MASK"} : ConfOf(token_list[t],
           "action_set_meta")
  /\ \A t \in {"ACTION_SET_IPV4_DSCP_VALUE", "ACTION_SET_IPV6_DSCP_VALUE"} :
           ConfOf(token_list[t], "action_set_dscp")
  /\ \A t \in {"ACTION_AGE_TIMEOUT"} : ConfOf(token_list[t], "action_age")
  /\ \A t \in {"ACTION_SAMPLE_RATIO"} : ConfOf(token_list[t], "action_sample_data")
  /\ \A t \in {"ACTION_PORT_REPRESENTOR_PORT_ID", "ACTION_REPRESENTED_PORT_ETHDEV_PORT_ID"} :
           ConfOf(token_list[t], "action_ethdev")
<1>1. /\ \A t \in {"ACTION_JUMP_GROUP"} : ConfOf(token_list[t], "action_jump")
      /\ \A t \in {"ACTION_MARK_ID"} : ConfOf(token_list[t], "action_mark")
      /\ \A t \in {"ACTION_QUEUE_INDEX"} : ConfOf(token_list[t], "action_queue")
      /\ \A t \in {"ACTION_COUNT_ID"} : ConfOf(token_list[t], "action_count")
  <2>1. \A t \in actions_tokens_names : RowOf(t, actions_tokens)
    BY RowsApart, Zenon
  <2> QED
    BY <2>1, OwnedTokens, SMT DEF actions_tokens, actions_tokens_names, RowOf, Each, Word,
       Call, Place, BareAction, Conf
<1>2. /\ \A t \in {"ACTION_RSS_LEVEL", "ACTION_RSS_KEY_LEN", "ACTION_RSS_KEY"} :
               ConfOf(token_list[t], "action_rss_data")
  <2>1. \A t \in rss_tokens_names : RowOf(t, rss_tokens)
    BY RowsApart, Zenon
  <2> QED
    BY <2>1, OwnedTokens, SMT DEF rss_tokens, rss_tokens_names, RowOf, Each, Word, Call
<1>3. /\ \A t \in {"ACTION_VF_ORIGINAL", "ACTION_VF_ID"} : ConfOf(token_list[t], "action_vf")
      /\ \A t \in {"ACTION_PHY_PORT_ORIGINAL", "ACTION_PHY_PORT_INDEX"} : ConfOf(token_list[t],
               "action_phy_port")
      /\ \A t \in {"ACTION_PORT_ID_ORIGINAL", "ACTION_PORT_ID_ID"} : ConfOf(token_list[t],
               "action_port_id")
      /\ \A t \in {"ACTION_METER_ID"} : ConfOf(token_list[t], "action_meter")
      /\ \A t \in {"ACTION_OF_SET_MPLS_TTL_MPLS_TTL"} : ConfOf(token_list[t],
               "action_of_set_mpls_ttl")
  <2>1. \A t \in port_meter_actions_names : RowOf(t, port_meter_actions)
    BY RowsApart, Zenon
  <2> QED
    BY <2>1, OwnedTokens, SMT DEF port_meter_actions, port_meter_actions_names, RowOf, Each,
       Word, Call, Place, BareAction, Conf
<1>4. /\ \A t \in {"ACTION_OF_SET_NW_TTL_NW_TTL"} : ConfOf(token_list[t], "action_of_set_nw_ttl")
      /\ \A t \in {"ACTION_OF_PUSH_VLAN_ETHERTYPE"} : ConfOf(token_list[t], "action_of_push_vlan")
      /\ \A t \in {"ACTION_OF_SET_VLAN_VID_VLAN_VID"} : ConfOf(token_list[t],
               "action_of_set_vlan_vid")
      /\ \A t \in {"ACTION_OF_SET_VLAN_PCP_VLAN_PCP"} : ConfOf(token_list[t],
               "action_of_set_vlan_pcp")
      /\ \A t \in {"ACTION_OF_POP_MPLS_ETHERTYPE"} : ConfOf(token_list[t], "action_of_pop_mpls")
      /\ \A t \in {"ACTION_OF_PUSH_MPLS_ETHERTYPE"} : ConfOf(token_list[t], "action_of_push_mpls")
  <2>1. \A t \in openflow_actions_names : RowOf(t, openflow_actions)
    BY RowsApart, Zenon
  <2> QED
    BY <2>1, OwnedTokens, SMT DEF openflow_actions, openflow_actions_names, RowOf, Each,
       Place, BareAction, Conf
<1>5. /\ \A t \in {"ACTION_SET_IPV4_SRC_IPV4_SRC", "ACTION_SET_IPV4_DST_IPV4_DST"} :
               ConfOf(token_list[t], "action_set_ipv4")
      /\ \A t \in {"ACTION_SET_IPV6_SRC_IPV6_SRC", "ACTION_SET_IPV6_DST_IPV6_DST"} :
               ConfOf(token_list[t], "action_set_ipv6")
      /\ \A t \in {"ACTION_SET_TP_SRC_TP_SRC", "ACTION_SET_TP_DST_TP_DST"} : ConfOf(token_list[t],
               "action_set_tp")
  <2>1. \A t \in set_address_actions_names : RowOf(t, set_address_actions)
    BY RowsApart, Zenon
  <2> QED
    BY <2>1, OwnedTokens, SMT DEF set_address_actions, set_address_actions_names, RowOf,
       Each, Place, Conf
<1>6. /\ \A t \in {"ACTION_SET_TTL_TTL"} : ConfOf(token_list[t], "action_set_ttl")
      /\ \A t \in {"ACTION_SET_MAC_SRC_MAC_SRC", "ACTION_SET_MAC_DST_MAC_DST"} :
               ConfOf(token_list[t], "action_set_mac")
      /\ \A t \in {"ACTION_INC_TCP_SEQ_VALUE", "ACTION_DEC_TCP_SEQ_VALUE",
               "ACTION_INC_TCP_ACK_VALUE", "ACTION_DEC_TCP_ACK_VALUE"} :
               ConfOf(token_list[t], "rte_be32_t")
  <2>1. \A t \in mac_tcp_actions_names : RowOf(t, mac_tcp_actions)
    BY RowsApart, Zenon
  <2> QED
    BY <2>1, OwnedTokens, SMT DEF mac_tcp_actions, mac_tcp_actions_names, RowOf, Each,
       Place, BareAction, Conf
<1>7. /\ \A t \in {"ACTION_MODIFY_FIELD_DST_LEVEL", "ACTION_MODIFY_FIELD_DST_OFFSET",
               "ACTION_MODIFY_FIELD_SRC_LEVEL", "ACTION_MODIFY_FIELD_SRC_OFFSET",
               "ACTION_MODIFY_FIELD_SRC_VALUE", "ACTION_MODIFY_FIELD_SRC_POINTER",
               "ACTION_MODIFY_FIELD_WIDTH"} : ConfOf(token_list[t], "action_modify_field")
  <2>1. \A t \in modify_field_actions_names : RowOf(t, modify_field_actions)
    BY RowsApart, Zenon
  <2> QED
    BY <2>1, OwnedTokens, SMT DEF modify_field_actions, modify_field_actions_names, RowOf,
       Each, Call, Place, Conf
<1>8. /\ \A t \in {"ACTION_SET_TAG_INDEX", "ACTION_SET_TAG_DATA", "ACTION_SET_TAG_MASK"} :
               ConfOf(token_list[t], "action_set_tag")
      /\ \A t \in {"ACTION_SET_META_DATA", "ACTION_SET_META_MASK"} : ConfOf(token_list[t],
               "action_set_meta")
  <2>1. \A t \in set_tokens_names : RowOf(t, set_tokens)
    BY RowsApart, Zenon
  <2> QED
    BY <2>1, OwnedTokens, SMT DEF set_tokens, set_tokens_names, RowOf, Each, Call, Place,
       Conf
<1>9. /\ \A t \in {"ACTION_SET_IPV4_DSCP_VALUE", "ACTION_SET_IPV6_DSCP_VALUE"} :
               ConfOf(token_list[t], "action_set_dscp")
      /\ \A t \in {"ACTION_AGE_TIMEOUT"} : ConfOf(token_list[t], "action_age")
      /\ \A t \in {"ACTION_SAMPLE_RATIO"} : ConfOf(token_list[t], "action_sample_data")
      /\ \A t \in {"ACTION_PORT_REPRESENTOR_PORT_ID", "ACTION_REPRESENTED_PORT_ETHDEV_PORT_ID"} :
               ConfOf(token_list[t], "action_ethdev")
  <2>1. \A t \in age_sample_actions_names : RowOf(t, age_sample_actions)
    BY RowsApart, Zenon
  <2> QED
    BY <2>1, OwnedTokens, SMT DEF age_sample_actions, age_sample_actions_names, RowOf, Each,
       Word, Call, Place, Conf
<1> QED
  BY <1>1, <1>2, <1>3, <1>4, <1>5, <1>6, <1>7, <1>8, <1>9, Zenon

(* What the lists of an item and of an action may offer.                   *)
LEMMA OffersOfItems ==
  /\ \A S : "ITEM_NEXT" \in ItemOffers(S)
  /\ \A t, S : t \in Tokens /\ FieldOf(token_list[t], S) => t \in ItemOffers(S)
  /\ {"ITEM_ECPRI_COMMON", "ITEM_ECPRI_COMMON_TYPE"} \subseteq ItemOffers("item_ecpri")
  /\ {"ITEM_L2TPV2_COMMON", "ITEM_L2TPV2_COMMON_TYPE"} \subseteq ItemOffers("item_l2tpv2")
  BY SMT DEF ItemOffers, TypeWords

\* What the actions can be followed by.
LEMMA OffersOfActions ==
  /\ \A S : "ACTION_NEXT" \in ActionOffers(S)
  /\ \A t, S : t \in Tokens /\ ConfOf(token_list[t], S) => t \in ActionOffers(S)
  /\ {"ACTION_RSS_FUNC", "ACTION_RSS_TYPES", "ACTION_RSS_QUEUES"} \subseteq
       ActionOffers("action_rss_data")
  /\ {"ACTION_MODIFY_FIELD_OP", "ACTION_MODIFY_FIELD_DST_TYPE",
       "ACTION_MODIFY_FIELD_SRC_TYPE"} \subseteq ActionOffers("action_modify_field")
  /\ {"ACTION_METER_COLOR_TYPE"} \subseteq ActionOffers("action_meter_color")
  /\ {"ACTION_RAW_ENCAP_INDEX", "ACTION_RAW_ENCAP_INDEX_VALUE"} \subseteq
       ActionOffers("action_raw_encap_data")
  /\ {"ACTION_RAW_DECAP_INDEX", "ACTION_RAW_DECAP_INDEX_VALUE"} \subseteq
       ActionOffers("action_raw_decap_data")
  /\ {"ACTION_SAMPLE", "ACTION_SAMPLE_INDEX", "ACTION_SAMPLE_INDEX_VALUE"} \subseteq
       ActionOffers("action_sample_data")
  /\ {"ACTION_AGE"} \subseteq ActionOffers("action_age")
  /\ {"ACTION_CONNTRACK_UPDATE_DIR", "ACTION_CONNTRACK_UPDATE_CTX"} \subseteq
       ActionOffers("modify_conntrack")
<1>1. \A S : "ACTION_NEXT" \in ActionOffers(S)
  BY Zenon DEF ActionOffers
<1>2. \A t, S : t \in Tokens /\ ConfOf(token_list[t], S) => t \in ActionOffers(S)
  BY Zenon DEF ActionOffers
<1>3. {"ACTION_RSS_FUNC", "ACTION_RSS_TYPES", "ACTION_RSS_QUEUES"} \subseteq
       ActionOffers("action_rss_data")
  BY SMT DEF ActionOffers, Settings
<1>4. {"ACTION_MODIFY_FIELD_OP", "ACTION_MODIFY_FIELD_DST_TYPE",
       "ACTION_MODIFY_FIELD_SRC_TYPE"} \subseteq ActionOffers("action_modify_field")
  BY SMT DEF ActionOffers, Settings
<1>5. {"ACTION_METER_COLOR_TYPE"} \subseteq ActionOffers("action_meter_color")
  BY SMT DEF ActionOffers, Settings
<1>6. {"ACTION_RAW_ENCAP_INDEX", "ACTION_RAW_ENCAP_INDEX_VALUE"} \subseteq
       ActionOffers("action_raw_encap_data")
  BY SMT DEF ActionOffers, Words
<1>7. {"ACTION_RAW_DECAP_INDEX", "ACTION_RAW_DECAP_INDEX_VALUE"} \subseteq
       ActionOffers("action_raw_decap_data")
  BY SMT DEF ActionOffers, Words
<1>8. {"ACTION_SAMPLE", "ACTION_SAMPLE_INDEX", "ACTION_SAMPLE_INDEX_VALUE"} \subseteq
       ActionOffers("action_sample_data")
  BY SMT DEF ActionOffers, Words
<1>9. {"ACTION_AGE"} \subseteq ActionOffers("action_age")
  BY SMT DEF ActionOffers, Words
<1>10. {"ACTION_CONNTRACK_UPDATE_DIR", "ACTION_CONNTRACK_UPDATE_CTX"} \subseteq
       ActionOffers("modify_conntrack")
  BY SMT DEF ActionOffers, Words
<1> QED
  BY <1>1, <1>2, <1>3, <1>4, <1>5, <1>6, <1>7, <1>8, <1>9, <1>10, Zenon

(* The lists of the fields of the items.                                   *)
LEMMA ItemLists ==
  /\ ItemList(item_any, "item_any")
  /\ ItemList(item_vf, "item_vf")
  /\ ItemList(item_phy_port, "item_phy_port")
  /\ ItemList(item_port_id, "item_port_id")
  /\ ItemList(item_mark, "item_mark")
  /\ ItemList(item_raw, "item_raw")
  /\ ItemList(item_eth, "item_eth")
  /\ ItemList(item_vlan, "item_vlan")
  /\ ItemList(item_ipv4, "item_ipv4")
  /\ ItemList(item_ipv6, "item_ipv6")
  /\ ItemList(item_icmp, "item_icmp")
  /\ ItemList(item_udp, "item_udp")
  /\ ItemList(item_tcp, "item_tcp")
  /\ ItemList(item_sctp, "item_sctp")
  /\ ItemList(item_vxlan, "item_vxlan")
  /\ ItemList(item_e_tag, "item_e_tag")
  /\ ItemList(item_nvgre, "item_nvgre")
  /\ ItemList(item_mpls, "item_mpls")
  /\ ItemList(item_gre, "item_gre")
  /\ ItemList(item_fuzzy, "item_fuzzy")
  /\ ItemList(item_gtp, "item_gtp")
  /\ ItemList(item_geneve, "item_geneve")
  /\ ItemList(item_vxlan_gpe, "item_vxlan_gpe")
  /\ ItemList(item_arp_eth_ipv4, "item_arp_eth_ipv4")
  /\ ItemList(item_ipv6_ext, "item_ipv6_ext")
  /\ ItemList(item_ipv6_frag_ext, "item_ipv6_frag_ext")
  /\ ItemList(item_icmp6, "item_icmp6")
  /\ ItemList(item_icmp6_nd_ns, "item_icmp6_nd_ns")
  /\ ItemList(item_icmp6_nd_na, "item_icmp6_nd_na")
  /\ ItemList(item_icmp6_nd_opt, "item_icmp6_nd_opt")
  /\ ItemList(item_icmp6_nd_opt_sla_eth, "item_icmp6_nd_opt_sla_eth")
  /\ ItemList(item_icmp6_nd_opt_tla_eth, "item_icmp6_nd_opt_tla_eth")
  /\ ItemList(item_meta, "item_meta")
  /\ ItemList(item_gre_key, "rte_be32_t")
  /\ ItemList(item_gtp_psc, "item_gtp_psc")
  /\ ItemList(item_pppoes, "item_pppoe")
  /\ ItemList(item_pppoed, "item_pppoe")
  /\ ItemList(item_pppoe_proto_id, "item_pppoe_proto_id")
  /\ ItemList(item_higig2, "item_higig2_hdr")
  /\ ItemList(item_tag, "item_tag")
  /\ ItemList(item_l2tpv3oip, "item_l2tpv3oip")
  /\ ItemList(item_esp, "item_esp")
  /\ ItemList(item_ah, "item_ah")
  /\ ItemList(item_pfcp, "item_pfcp")
  /\ ItemList(item_ecpri, "item_ecpri")
  /\ ItemList(item_ecpri_common, "item_ecpri")
  /\ ItemList(NEXT_ENTRY_2("ITEM_ECPRI_MSG_IQ_DATA_PCID", "ITEM_NEXT"), "item_ecpri")
  /\ ItemList(NEXT_ENTRY_3("ITEM_ECPRI_MSG_IQ_DATA_PCID", "ITEM_ECPRI_COMMON", "ITEM_NEXT"),
       "item_ecpri")
  /\ ItemList(NEXT_ENTRY_2("ITEM_ECPRI_MSG_RTC_CTRL_RTCID", "ITEM_NEXT"), "item_ecpri")
  /\ ItemList(NEXT_ENTRY_3("ITEM_ECPRI_MSG_RTC_CTRL_RTCID", "ITEM_ECPRI_COMMON", "ITEM_NEXT"),
       "item_ecpri")
  /\ ItemList(NEXT_ENTRY_2("ITEM_ECPRI_MSG_DLY_MSR_MSRID", "ITEM_NEXT"), "item_ecpri")
  /\ ItemList(NEXT_ENTRY_3("ITEM_ECPRI_MSG_DLY_MSR_MSRID", "ITEM_ECPRI_COMMON", "ITEM_NEXT"),
       "item_ecpri")
  /\ ItemList(item_geneve_opt, "item_geneve_opt")
  /\ ItemList(item_integrity, "item_integrity")
  /\ ItemList(item_integrity_lv, "item_integrity")
  /\ ItemList(NEXT_ENTRY("ITEM_NEXT"), "item_conntrack")
  /\ ItemList(item_port_representor, "item_ethdev")
  /\ ItemList(item_represented_port, "item_ethdev")
  /\ ItemList(item_flex, "item_flex")
  /\ ItemList(item_l2tpv2, "item_l2tpv2")
  /\ ItemList(item_l2tpv2_common, "item_l2tpv2")
  /\ ItemList(item_l2tpv2_msg_data_l, "item_l2tpv2")
  /\ ItemList(NEXT_ENTRY_3("ITEM_L2TPV2_MSG_DATA_L_LENGTH", "ITEM_L2TPV2_COMMON",
       "ITEM_NEXT"), "item_l2tpv2")
  /\ ItemList(NEXT_ENTRY_3("ITEM_L2TPV2_MSG_DATA_L_TUNNEL_ID", "ITEM_L2TPV2_COMMON",
       "ITEM_NEXT"), "item_l2tpv2")
  /\ ItemList(NEXT_ENTRY_3("ITEM_L2TPV2_MSG_DATA_L_SESSION_ID", "ITEM_L2TPV2_COMMON",
       "ITEM_NEXT"), "item_l2tpv2")
  /\ ItemList(item_l2tpv2_msg_ctrl, "item_l2tpv2")
  /\ ItemList(NEXT_ENTRY_3("ITEM_L2TPV2_MSG_CTRL_LENGTH", "ITEM_L2TPV2_COMMON", "ITEM_NEXT"),
       "item_l2tpv2")
  /\ ItemList(NEXT_ENTRY_3("ITEM_L2TPV2_MSG_CTRL_TUNNEL_ID", "ITEM_L2TPV2_COMMON",
       "ITEM_NEXT"), "item_l2tpv2")
  /\ ItemList(NEXT_ENTRY_3("ITEM_L2TPV2_MSG_CTRL_SESSION_ID", "ITEM_L2TPV2_COMMON",
       "ITEM_NEXT"), "item_l2tpv2")
  /\ ItemList(NEXT_ENTRY_3("ITEM_L2TPV2_MSG_CTRL_NS", "ITEM_L2TPV2_COMMON", "ITEM_NEXT"),
       "item_l2tpv2")
  /\ ItemList(item_ppp, "item_ppp")
<1>1. ItemList(item_any, "item_any")
  <2>1. \A t \in {"ITEM_ANY_NUM"} : t \in Tokens /\ FieldOf(token_list[t], "item_any")
    BY FieldsOfItems, GroupsInTable, SMT DEF pattern_items_names
  <2> QED
    BY <2>1, OffersOfItems, SMT DEF ItemList, item_any
<1>2. ItemList(item_vf, "item_vf")
  <2>1. \A t \in {"ITEM_VF_ID"} : t \in Tokens /\ FieldOf(token_list[t], "item_vf")
    BY FieldsOfItems, GroupsInTable, SMT DEF pattern_items_names
  <2> QED
    BY <2>1, OffersOfItems, SMT DEF ItemList, item_vf
<1>3. ItemList(item_phy_port, "item_phy_port")
  <2>1. \A t \in {"ITEM_PHY_PORT_INDEX"} : t \in Tokens /\ FieldOf(token_list[t], "item_phy_port")
    BY FieldsOfItems, GroupsInTable, SMT DEF pattern_items_names
  <2> QED
    BY <2>1, OffersOfItems, SMT DEF ItemList, item_phy_port
<1>4. ItemList(item_port_id, "item_port_id")
  <2>1. \A t \in {"ITEM_PORT_ID_ID"} : t \in Tokens /\ FieldOf(token_list[t], "item_port_id")
    BY FieldsOfItems, GroupsInTable, SMT DEF pattern_items_names
  <2> QED
    BY <2>1, OffersOfItems, SMT DEF ItemList, item_port_id
<1>5. ItemList(item_mark, "item_mark")
  <2>1. \A t \in {"ITEM_MARK_ID"} : t \in Tokens /\ FieldOf(token_list[t], "item_mark")
    BY FieldsOfItems, GroupsInTable, SMT DEF pattern_items_names
  <2> QED
    BY <2>1, OffersOfItems, SMT DEF ItemList, item_mark
<1>6. ItemList(item_raw, "item_raw")
  <2>1. \A t \in {"ITEM_RAW_RELATIVE", "ITEM_RAW_SEARCH", "ITEM_RAW_OFFSET", "ITEM_RAW_LIMIT",
          "ITEM_RAW_PATTERN"} : t \in Tokens /\ FieldOf(token_list[t], "item_raw")
    BY FieldsOfItems, GroupsInTable, SMT DEF pattern_items_names
  <2> QED
    BY <2>1, OffersOfItems, SMT DEF ItemList, item_raw
<1>7. ItemList(item_eth, "item_eth")
  <2>1. \A t \in {"ITEM_ETH_DST", "ITEM_ETH_SRC", "ITEM_ETH_TYPE", "ITEM_ETH_HAS_VLAN"} : t \in
          Tokens /\ FieldOf(token_list[t], "item_eth")
    BY FieldsOfItems, GroupsInTable, SMT DEF l2_items_names
  <2> QED
    BY <2>1, OffersOfItems, SMT DEF ItemList, item_eth
<1>8. ItemList(item_vlan, "item_vlan")
  <2>1. \A t \in {"ITEM_VLAN_TCI", "ITEM_VLAN_PCP", "ITEM_VLAN_DEI", "ITEM_VLAN_VID",
          "ITEM_VLAN_INNER_TYPE", "ITEM_VLAN_HAS_MORE_VLAN"} : t \in Tokens /\
          FieldOf(token_list[t], "item_vlan")
    BY FieldsOfItems, GroupsInTable, SMT DEF l2_items_names
  <2> QED
    BY <2>1, OffersOfItems, SMT DEF ItemList, item_vlan
<1>9. ItemList(item_ipv4, "item_ipv4")
  <2>1. \A t \in {"ITEM_IPV4_VER_IHL", "ITEM_IPV4_TOS", "ITEM_IPV4_ID", "ITEM_IPV4_FRAGMENT_OFFSET",
          "ITEM_IPV4_TTL", "ITEM_IPV4_PROTO", "ITEM_IPV4_SRC", "ITEM_IPV4_DST"} : t \in
          Tokens /\ FieldOf(token_list[t], "item_ipv4")
    BY FieldsOfItems, GroupsInTable, SMT DEF ip_items_names
  <2> QED
    BY <2>1, OffersOfItems, SMT DEF ItemList, item_ipv4
<1>10. ItemList(item_ipv6, "item_ipv6")
  <2>1. \A t \in {"ITEM_IPV6_TC", "ITEM_IPV6_FLOW", "ITEM_IPV6_PROTO", "ITEM_IPV6_HOP",
          "ITEM_IPV6_SRC", "ITEM_IPV6_DST", "ITEM_IPV6_HAS_FRAG_EXT"} : t \in Tokens /\
          FieldOf(token_list[t], "item_ipv6")
    BY FieldsOfItems, GroupsInTable, SMT DEF ip_items_names
  <2> QED
    BY <2>1, OffersOfItems, SMT DEF ItemList, item_ipv6
<1>11. ItemList(item_icmp, "item_icmp")
  <2>1. \A t \in {"ITEM_ICMP_TYPE", "ITEM_ICMP_CODE", "ITEM_ICMP_IDENT", "ITEM_ICMP_SEQ"} : t \in
          Tokens /\ FieldOf(token_list[t], "item_icmp")
    BY FieldsOfItems, GroupsInTable, SMT DEF l4_items_names
  <2> QED
    BY <2>1, OffersOfItems, SMT DEF ItemList, item_icmp
<1>12. ItemList(item_udp, "item_udp")
  <2>1. \A t \in {"ITEM_UDP_SRC", "ITEM_UDP_DST"} : t \in Tokens /\ FieldOf(token_list[t],
          "item_udp")
    BY FieldsOfItems, GroupsInTable, SMT DEF l4_items_names
  <2> QED
    BY <2>1, OffersOfItems, SMT DEF ItemList, item_udp
<1>13. ItemList(item_tcp, "item_tcp")
  <2>1. \A t \in {"ITEM_TCP_SRC", "ITEM_TCP_DST", "ITEM_TCP_FLAGS"} : t \in Tokens /\
          FieldOf(token_list[t], "item_tcp")
    BY FieldsOfItems, GroupsInTable, SMT DEF l4_items_names
  <2> QED
    BY <2>1, OffersOfItems, SMT DEF ItemList, item_tcp
<1>14. ItemList(item_sctp, "item_sctp")
  <2>1. \A t \in {"ITEM_SCTP_SRC", "ITEM_SCTP_DST", "ITEM_SCTP_TAG", "ITEM_SCTP_CKSUM"} : t \in
          Tokens /\ FieldOf(token_list[t], "item_sctp")
    BY FieldsOfItems, GroupsInTable, SMT DEF l4_items_names
  <2> QED
    BY <2>1, OffersOfItems, SMT DEF ItemList, item_sctp
<1>15. ItemList(item_vxlan, "item_vxlan")
  <2>1. \A t \in {"ITEM_VXLAN_VNI", "ITEM_VXLAN_LAST_RSVD"} : t \in Tokens /\ FieldOf(token_list[t],
          "item_vxlan")
    BY FieldsOfItems, GroupsInTable, SMT DEF tunnel_items_names
  <2> QED
    BY <2>1, OffersOfItems, SMT DEF ItemList, item_vxlan
<1>16. ItemList(item_e_tag, "item_e_tag")
  <2>1. \A t \in {"ITEM_E_TAG_GRP_ECID_B"} : t \in Tokens /\ FieldOf(token_list[t], "item_e_tag")
    BY FieldsOfItems, GroupsInTable, SMT DEF tunnel_items_names
  <2> QED
    BY <2>1, OffersOfItems, SMT DEF ItemList, item_e_tag
<1>17. ItemList(item_nvgre, "item_nvgre")
  <2>1. \A t \in {"ITEM_NVGRE_TNI"} : t \in Tokens /\ FieldOf(token_list[t], "item_nvgre")
    BY FieldsOfItems, GroupsInTable, SMT DEF tunnel_items_names
  <2> QED
    BY <2>1, OffersOfItems, SMT DEF ItemList, item_nvgre
<1>18. ItemList(item_mpls, "item_mpls")
  <2>1. \A t \in {"ITEM_MPLS_LABEL", "ITEM_MPLS_TC", "ITEM_MPLS_S"} : t \in Tokens /\
          FieldOf(token_list[t], "item_mpls")
    BY FieldsOfItems, GroupsInTable, SMT DEF tunnel_items_names
  <2> QED
    BY <2>1, OffersOfItems, SMT DEF ItemList, item_mpls
<1>19. ItemList(item_gre, "item_gre")
  <2>1. \A t \in {"ITEM_GRE_PROTO", "ITEM_GRE_C_RSVD0_VER", "ITEM_GRE_C_BIT", "ITEM_GRE_K_BIT",
          "ITEM_GRE_S_BIT"} : t \in Tokens /\ FieldOf(token_list[t], "item_gre")
    BY FieldsOfItems, GroupsInTable, SMT DEF tunnel_items_names
  <2> QED
    BY <2>1, OffersOfItems, SMT DEF ItemList, item_gre
<1>20. ItemList(item_fuzzy, "item_fuzzy")
  <2>1. \A t \in {"ITEM_FUZZY_THRESH"} : t \in Tokens /\ FieldOf(token_list[t], "item_fuzzy")
    BY FieldsOfItems, GroupsInTable, SMT DEF gtp_geneve_items_names
  <2> QED
    BY <2>1, OffersOfItems, SMT DEF ItemList, item_fuzzy
<1>21. ItemList(item_gtp, "item_gtp")
  <2>1. \A t \in {"ITEM_GTP_FLAGS", "ITEM_GTP_MSG_TYPE", "ITEM_GTP_TEID"} : t \in Tokens /\
          FieldOf(token_list[t], "item_gtp")
    BY FieldsOfItems, GroupsInTable, SMT DEF gtp_geneve_items_names
  <2> QED
    BY <2>1, OffersOfItems, SMT DEF ItemList, item_gtp
<1>22. ItemList(item_geneve, "item_geneve")
  <2>1. \A t \in {"ITEM_GENEVE_VNI", "ITEM_GENEVE_PROTO", "ITEM_GENEVE_OPTLEN"} : t \in Tokens /\
          FieldOf(token_list[t], "item_geneve")
    BY FieldsOfItems, GroupsInTable, SMT DEF gtp_geneve_items_names
  <2> QED
    BY <2>1, OffersOfItems, SMT DEF ItemList, item_geneve
<1>23. ItemList(item_vxlan_gpe, "item_vxlan_gpe")
  <2>1. \A t \in {"ITEM_VXLAN_GPE_VNI"} : t \in Tokens /\ FieldOf(token_list[t], "item_vxlan_gpe")
    BY FieldsOfItems, GroupsInTable, SMT DEF gtp_geneve_items_names
  <2> QED
    BY <2>1, OffersOfItems, SMT DEF ItemList, item_vxlan_gpe
<1>24. ItemList(item_arp_eth_ipv4, "item_arp_eth_ipv4")
  <2>1. \A t \in {"ITEM_ARP_ETH_IPV4_SHA", "ITEM_ARP_ETH_IPV4_SPA", "ITEM_ARP_ETH_IPV4_THA",
          "ITEM_ARP_ETH_IPV4_TPA"} : t \in Tokens /\ FieldOf(token_list[t],
          "item_arp_eth_ipv4")
    BY FieldsOfItems, GroupsInTable, SMT DEF ipv6_ext_items_names
  <2> QED
    BY <2>1, OffersOfItems, SMT DEF ItemList, item_arp_eth_ipv4
<1>25. ItemList(item_ipv6_ext, "item_ipv6_ext")
  <2>1. \A t \in {"ITEM_IPV6_EXT_NEXT_HDR"} : t \in Tokens /\ FieldOf(token_list[t],
          "item_ipv6_ext")
    BY FieldsOfItems, GroupsInTable, SMT DEF ipv6_ext_items_names
  <2> QED
    BY <2>1, OffersOfItems, SMT DEF ItemList, item_ipv6_ext
<1>26. ItemList(item_ipv6_frag_ext, "item_ipv6_frag_ext")
  <2>1. \A t \in {"ITEM_IPV6_FRAG_EXT_NEXT_HDR", "ITEM_IPV6_FRAG_EXT_FRAG_DATA",
          "ITEM_IPV6_FRAG_EXT_ID"} : t \in Tokens /\ FieldOf(token_list[t],
          "item_ipv6_frag_ext")
    BY FieldsOfItems, GroupsInTable, SMT DEF ipv6_ext_items_names
  <2> QED
    BY <2>1, OffersOfItems, SMT DEF ItemList, item_ipv6_frag_ext
<1>27. ItemList(item_icmp6, "item_icmp6")
  <2>1. \A t \in {"ITEM_ICMP6_TYPE", "ITEM_ICMP6_CODE"} : t \in Tokens /\ FieldOf(token_list[t],
          "item_icmp6")
    BY FieldsOfItems, GroupsInTable, SMT DEF icmp6_items_names
  <2> QED
    BY <2>1, OffersOfItems, SMT DEF ItemList, item_icmp6
<1>28. ItemList(item_icmp6_nd_ns, "item_icmp6_nd_ns")
  <2>1. \A t \in {"ITEM_ICMP6_ND_NS_TARGET_ADDR"} : t \in Tokens /\ FieldOf(token_list[t],
          "item_icmp6_nd_ns")
    BY FieldsOfItems, GroupsInTable, SMT DEF icmp6_items_names
  <2> QED
    BY <2>1, OffersOfItems, SMT DEF ItemList, item_icmp6_nd_ns
<1>29. ItemList(item_icmp6_nd_na, "item_icmp6_nd_na")
  <2>1. \A t \in {"ITEM_ICMP6_ND_NA_TARGET_ADDR"} : t \in Tokens /\ FieldOf(token_list[t],
          "item_icmp6_nd_na")
    BY FieldsOfItems, GroupsInTable, SMT DEF icmp6_items_names
  <2> QED
    BY <2>1, OffersOfItems, SMT DEF ItemList, item_icmp6_nd_na
<1>30. ItemList(item_icmp6_nd_opt, "item_icmp6_nd_opt")
  <2>1. \A t \in {"ITEM_ICMP6_ND_OPT_TYPE"} : t \in Tokens /\ FieldOf(token_list[t],
          "item_icmp6_nd_opt")
    BY FieldsOfItems, GroupsInTable, SMT DEF icmp6_items_names
  <2> QED
    BY <2>1, OffersOfItems, SMT DEF ItemList, item_icmp6_nd_opt
<1>31. ItemList(item_icmp6_nd_opt_sla_eth, "item_icmp6_nd_opt_sla_eth")
  <2>1. \A t \in {"ITEM_ICMP6_ND_OPT_SLA_ETH_SLA"} : t \in Tokens /\ FieldOf(token_list[t],
          "item_icmp6_nd_opt_sla_eth")
    BY FieldsOfItems, GroupsInTable, SMT DEF icmp6_items_names
  <2> QED
    BY <2>1, OffersOfItems, SMT DEF ItemList, item_icmp6_nd_opt_sla_eth
<1>32. ItemList(item_icmp6_nd_opt_tla_eth, "item_icmp6_nd_opt_tla_eth")
  <2>1. \A t \in {"ITEM_ICMP6_ND_OPT_TLA_ETH_TLA"} : t \in Tokens /\ FieldOf(token_list[t],
          "item_icmp6_nd_opt_tla_eth")
    BY FieldsOfItems, GroupsInTable, SMT DEF icmp6_items_names
  <2> QED
    BY <2>1, OffersOfItems, SMT DEF ItemList, item_icmp6_nd_opt_tla_eth
<1>33. ItemList(item_meta, "item_meta")
  <2>1. \A t \in {"ITEM_META_DATA"} : t \in Tokens /\ FieldOf(token_list[t], "item_meta")
    BY FieldsOfItems, GroupsInTable, SMT DEF icmp6_items_names
  <2> QED
    BY <2>1, OffersOfItems, SMT DEF ItemList, item_meta
<1>34. ItemList(item_gre_key, "rte_be32_t")
  <2>1. \A t \in {"ITEM_GRE_KEY_VALUE"} : t \in Tokens /\ FieldOf(token_list[t], "rte_be32_t")
    BY FieldsOfItems, GroupsInTable, SMT DEF session_items_names
  <2> QED
    BY <2>1, OffersOfItems, SMT DEF ItemList, item_gre_key
<1>35. ItemList(item_gtp_psc, "item_gtp_psc")
  <2>1. \A t \in {"ITEM_GTP_PSC_QFI", "ITEM_GTP_PSC_PDU_T"} : t \in Tokens /\ FieldOf(token_list[t],
          "item_gtp_psc")
    BY FieldsOfItems, GroupsInTable, SMT DEF session_items_names
  <2> QED
    BY <2>1, OffersOfItems, SMT DEF ItemList, item_gtp_psc
<1>36. ItemList(item_pppoes, "item_pppoe")
  <2>1. \A t \in {"ITEM_PPPOE_SEID"} : t \in Tokens /\ FieldOf(token_list[t], "item_pppoe")
    BY FieldsOfItems, GroupsInTable, SMT DEF session_items_names
  <2> QED
    BY <2>1, OffersOfItems, SMT DEF ItemList, item_pppoes
<1>37. ItemList(item_pppoed, "item_pppoe")
  <2>1. \A t \in {"ITEM_PPPOE_SEID"} : t \in Tokens /\ FieldOf(token_list[t], "item_pppoe")
    BY FieldsOfItems, GroupsInTable, SMT DEF session_items_names
  <2> QED
    BY <2>1, OffersOfItems, SMT DEF ItemList, item_pppoed
<1>38. ItemList(item_pppoe_proto_id, "item_pppoe_proto_id")
  BY OffersOfItems, SMT DEF ItemList, item_pppoe_proto_id
<1>39. ItemList(item_higig2, "item_higig2_hdr")
  <2>1. \A t \in {"ITEM_HIGIG2_CLASSIFICATION", "ITEM_HIGIG2_VID"} : t \in Tokens /\
          FieldOf(token_list[t], "item_higig2_hdr")
    BY FieldsOfItems, GroupsInTable, SMT DEF session_items_names
  <2> QED
    BY <2>1, OffersOfItems, SMT DEF ItemList, item_higig2
<1>40. ItemList(item_tag, "item_tag")
  <2>1. \A t \in {"ITEM_TAG_DATA", "ITEM_TAG_INDEX"} : t \in Tokens /\ FieldOf(token_list[t],
          "item_tag")
    BY FieldsOfItems, GroupsInTable, SMT DEF session_items_names
  <2> QED
    BY <2>1, OffersOfItems, SMT DEF ItemList, item_tag
<1>41. ItemList(item_l2tpv3oip, "item_l2tpv3oip")
  <2>1. \A t \in {"ITEM_L2TPV3OIP_SESSION_ID"} : t \in Tokens /\ FieldOf(token_list[t],
          "item_l2tpv3oip")
    BY FieldsOfItems, GroupsInTable, SMT DEF ecpri_items_names
  <2> QED
    BY <2>1, OffersOfItems, SMT DEF ItemList, item_l2tpv3oip
<1>42. ItemList(item_esp, "item_esp")
  <2>1. \A t \in {"ITEM_ESP_SPI"} : t \in Tokens /\ FieldOf(token_list[t], "item_esp")
    BY FieldsOfItems, GroupsInTable, SMT DEF ecpri_items_names
  <2> QED
    BY <2>1, OffersOfItems, SMT DEF ItemList, item_esp
<1>43. ItemList(item_ah, "item_ah")
  <2>1. \A t \in {"ITEM_AH_SPI"} : t \in Tokens /\ FieldOf(token_list[t], "item_ah")
    BY FieldsOfItems, GroupsInTable, SMT DEF ecpri_items_names
  <2> QED
    BY <2>1, OffersOfItems, SMT DEF ItemList, item_ah
<1>44. ItemList(item_pfcp, "item_pfcp")
  <2>1. \A t \in {"ITEM_PFCP_S_FIELD", "ITEM_PFCP_SEID"} : t \in Tokens /\ FieldOf(token_list[t],
          "item_pfcp")
    BY FieldsOfItems, GroupsInTable, SMT DEF ecpri_items_names
  <2> QED
    BY <2>1, OffersOfItems, SMT DEF ItemList, item_pfcp
<1>45. ItemList(item_ecpri, "item_ecpri")
  BY OffersOfItems, SMT DEF ItemList, item_ecpri
<1>46. ItemList(item_ecpri_common, "item_ecpri")
  BY OffersOfItems, SMT DEF ItemList, item_ecpri_common
<1>47. ItemList(NEXT_ENTRY_2("ITEM_ECPRI_MSG_IQ_DATA_PCID", "ITEM_NEXT"), "item_ecpri")
  <2>1. \A t \in {"ITEM_ECPRI_MSG_IQ_DATA_PCID"} : t \in Tokens /\ FieldOf(token_list[t],
          "item_ecpri")
    BY FieldsOfItems, GroupsInTable, SMT DEF ecpri_items_names
  <2> QED
    BY <2>1, OffersOfItems, SMT DEF ItemList, NEXT_ENTRY_2
<1>48. ItemList(NEXT_ENTRY_3("ITEM_ECPRI_MSG_IQ_DATA_PCID", "ITEM_ECPRI_COMMON",
       "ITEM_NEXT"), "item_ecpri")
  <2>1. \A t \in {"ITEM_ECPRI_MSG_IQ_DATA_PCID"} : t \in Tokens /\ FieldOf(token_list[t],
          "item_ecpri")
    BY FieldsOfItems, GroupsInTable, SMT DEF ecpri_items_names
  <2> QED
    BY <2>1, OffersOfItems, SMT DEF ItemList, NEXT_ENTRY_3
<1>49. ItemList(NEXT_ENTRY_2("ITEM_ECPRI_MSG_RTC_CTRL_RTCID", "ITEM_NEXT"), "item_ecpri")
  <2>1. \A t \in {"ITEM_ECPRI_MSG_RTC_CTRL_RTCID"} : t \in Tokens /\ FieldOf(token_list[t],
          "item_ecpri")
    BY FieldsOfItems, GroupsInTable, SMT DEF ecpri_items_names
  <2> QED
    BY <2>1, OffersOfItems, SMT DEF ItemList, NEXT_ENTRY_2
<1>50. ItemList(NEXT_ENTRY_3("ITEM_ECPRI_MSG_RTC_CTRL_RTCID", "ITEM_ECPRI_COMMON",
       "ITEM_NEXT"), "item_ecpri")
  <2>1. \A t \in {"ITEM_ECPRI_MSG_RTC_CTRL_RTCID"} : t \in Tokens /\ FieldOf(token_list[t],
          "item_ecpri")
    BY FieldsOfItems, GroupsInTable, SMT DEF ecpri_items_names
  <2> QED
    BY <2>1, OffersOfItems, SMT DEF ItemList, NEXT_ENTRY_3
<1>51. ItemList(NEXT_ENTRY_2("ITEM_ECPRI_MSG_DLY_MSR_MSRID", "ITEM_NEXT"), "item_ecpri")
  <2>1. \A t \in {"ITEM_ECPRI_MSG_DLY_MSR_MSRID"} : t \in Tokens /\ FieldOf(token_list[t],
          "item_ecpri")
    BY FieldsOfItems, GroupsInTable, SMT DEF ecpri_items_names
  <2> QED
    BY <2>1, OffersOfItems, SMT DEF ItemList, NEXT_ENTRY_2
<1>52. ItemList(NEXT_ENTRY_3("ITEM_ECPRI_MSG_DLY_MSR_MSRID", "ITEM_ECPRI_COMMON",
       "ITEM_NEXT"), "item_ecpri")
  <2>1. \A t \in {"ITEM_ECPRI_MSG_DLY_MSR_MSRID"} : t \in Tokens /\ FieldOf(token_list[t],
          "item_ecpri")
    BY FieldsOfItems, GroupsInTable, SMT DEF ecpri_items_names
  <2> QED
    BY <2>1, OffersOfItems, SMT DEF ItemList, NEXT_ENTRY_3
<1>53. ItemList(item_geneve_opt, "item_geneve_opt")
  <2>1. \A t \in {"ITEM_GENEVE_OPT_CLASS", "ITEM_GENEVE_OPT_TYPE", "ITEM_GENEVE_OPT_LENGTH",
          "ITEM_GENEVE_OPT_DATA"} : t \in Tokens /\ FieldOf(token_list[t],
          "item_geneve_opt")
    BY FieldsOfItems, GroupsInTable, SMT DEF option_items_names
  <2> QED
    BY <2>1, OffersOfItems, SMT DEF ItemList, item_geneve_opt
<1>54. ItemList(item_integrity, "item_integrity")
  <2>1. \A t \in {"ITEM_INTEGRITY_LEVEL", "ITEM_INTEGRITY_VALUE"} : t \in Tokens /\
          FieldOf(token_list[t], "item_integrity")
    BY FieldsOfItems, GroupsInTable, SMT DEF option_items_names
  <2> QED
    BY <2>1, OffersOfItems, SMT DEF ItemList, item_integrity
<1>55. ItemList(item_integrity_lv, "item_integrity")
  <2>1. \A t \in {"ITEM_INTEGRITY_LEVEL", "ITEM_INTEGRITY_VALUE"} : t \in Tokens /\
          FieldOf(token_list[t], "item_integrity")
    BY FieldsOfItems, GroupsInTable, SMT DEF option_items_names
  <2> QED
    BY <2>1, OffersOfItems, SMT DEF ItemList, item_integrity_lv
<1>56. ItemList(NEXT_ENTRY("ITEM_NEXT"), "item_conntrack")
  BY OffersOfItems, SMT DEF ItemList, NEXT_ENTRY
<1>57. ItemList(item_port_representor, "item_ethdev")
  <2>1. \A t \in {"ITEM_PORT_REPRESENTOR_PORT_ID"} : t \in Tokens /\ FieldOf(token_list[t],
          "item_ethdev")
    BY FieldsOfItems, GroupsInTable, SMT DEF option_items_names
  <2> QED
    BY <2>1, OffersOfItems, SMT DEF ItemList, item_port_representor
<1>58. ItemList(item_represented_port, "item_ethdev")
  <2>1. \A t \in {"ITEM_REPRESENTED_PORT_ETHDEV_PORT_ID"} : t \in Tokens /\ FieldOf(token_list[t],
          "item_ethdev")
    BY FieldsOfItems, GroupsInTable, SMT DEF option_items_names
  <2> QED
    BY <2>1, OffersOfItems, SMT DEF ItemList, item_represented_port
<1>59. ItemList(item_flex, "item_flex")
  <2>1. \A t \in {"ITEM_FLEX_PATTERN_HANDLE", "ITEM_FLEX_ITEM_HANDLE"} : t \in Tokens /\
          FieldOf(token_list[t], "item_flex")
    BY FieldsOfItems, GroupsInTable, SMT DEF option_items_names
  <2> QED
    BY <2>1, OffersOfItems, SMT DEF ItemList, item_flex
<1>60. ItemList(item_l2tpv2, "item_l2tpv2")
  BY OffersOfItems, SMT DEF ItemList, item_l2tpv2
<1>61. ItemList(item_l2tpv2_common, "item_l2tpv2")
  BY OffersOfItems, SMT DEF ItemList, item_l2tpv2_common
<1>62. ItemList(item_l2tpv2_msg_data_l, "item_l2tpv2")
  <2>1. \A t \in {"ITEM_L2TPV2_MSG_DATA_L_LENGTH", "ITEM_L2TPV2_MSG_DATA_L_TUNNEL_ID",
          "ITEM_L2TPV2_MSG_DATA_L_SESSION_ID"} : t \in Tokens /\ FieldOf(token_list[t],
          "item_l2tpv2")
    BY FieldsOfItems, GroupsInTable, SMT DEF l2tpv2_items_names
  <2> QED
    BY <2>1, OffersOfItems, SMT DEF ItemList, item_l2tpv2_msg_data_l
<1>63. ItemList(NEXT_ENTRY_3("ITEM_L2TPV2_MSG_DATA_L_LENGTH", "ITEM_L2TPV2_COMMON",
       "ITEM_NEXT"), "item_l2tpv2")
  <2>1. \A t \in {"ITEM_L2TPV2_MSG_DATA_L_LENGTH"} : t \in Tokens /\ FieldOf(token_list[t],
          "item_l2tpv2")
    BY FieldsOfItems, GroupsInTable, SMT DEF l2tpv2_items_names
  <2> QED
    BY <2>1, OffersOfItems, SMT DEF ItemList, NEXT_ENTRY_3
<1>64. ItemList(NEXT_ENTRY_3("ITEM_L2TPV2_MSG_DATA_L_TUNNEL_ID", "ITEM_L2TPV2_COMMON",
       "ITEM_NEXT"), "item_l2tpv2")
  <2>1. \A t \in {"ITEM_L2TPV2_MSG_DATA_L_TUNNEL_ID"} : t \in Tokens /\ FieldOf(token_list[t],
          "item_l2tpv2")
    BY FieldsOfItems, GroupsInTable, SMT DEF l2tpv2_items_names
  <2> QED
    BY <2>1, OffersOfItems, SMT DEF ItemList, NEXT_ENTRY_3
<1>65. ItemList(NEXT_ENTRY_3("ITEM_L2TPV2_MSG_DATA_L_SESSION_ID", "ITEM_L2TPV2_COMMON",
       "ITEM_NEXT"), "item_l2tpv2")
  <2>1. \A t \in {"ITEM_L2TPV2_MSG_DATA_L_SESSION_ID"} : t \in Tokens /\ FieldOf(token_list[t],
          "item_l2tpv2")
    BY FieldsOfItems, GroupsInTable, SMT DEF l2tpv2_items_names
  <2> QED
    BY <2>1, OffersOfItems, SMT DEF ItemList, NEXT_ENTRY_3
<1>66. ItemList(item_l2tpv2_msg_ctrl, "item_l2tpv2")
  <2>1. \A t \in {"ITEM_L2TPV2_MSG_CTRL_LENGTH", "ITEM_L2TPV2_MSG_CTRL_TUNNEL_ID",
          "ITEM_L2TPV2_MSG_CTRL_SESSION_ID", "ITEM_L2TPV2_MSG_CTRL_NS",
          "ITEM_L2TPV2_MSG_CTRL_NR"} : t \in Tokens /\ FieldOf(token_list[t], "item_l2tpv2")
    BY FieldsOfItems, GroupsInTable, SMT DEF l2tpv2_items_names
  <2> QED
    BY <2>1, OffersOfItems, SMT DEF ItemList, item_l2tpv2_msg_ctrl
<1>67. ItemList(NEXT_ENTRY_3("ITEM_L2TPV2_MSG_CTRL_LENGTH", "ITEM_L2TPV2_COMMON",
       "ITEM_NEXT"), "item_l2tpv2")
  <2>1. \A t \in {"ITEM_L2TPV2_MSG_CTRL_LENGTH"} : t \in Tokens /\ FieldOf(token_list[t],
          "item_l2tpv2")
    BY FieldsOfItems, GroupsInTable, SMT DEF l2tpv2_items_names
  <2> QED
    BY <2>1, OffersOfItems, SMT DEF ItemList, NEXT_ENTRY_3
<1>68. ItemList(NEXT_ENTRY_3("ITEM_L2TPV2_MSG_CTRL_TUNNEL_ID", "ITEM_L2TPV2_COMMON",
       "ITEM_NEXT"), "item_l2tpv2")
  <2>1. \A t \in {"ITEM_L2TPV2_MSG_CTRL_TUNNEL_ID"} : t \in Tokens /\ FieldOf(token_list[t],
          "item_l2tpv2")
    BY FieldsOfItems, GroupsInTable, SMT DEF l2tpv2_items_names
  <2> QED
    BY <2>1, OffersOfItems, SMT DEF ItemList, NEXT_ENTRY_3
<1>69. ItemList(NEXT_ENTRY_3("ITEM_L2TPV2_MSG_CTRL_SESSION_ID", "ITEM_L2TPV2_COMMON",
       "ITEM_NEXT"), "item_l2tpv2")
  <2>1. \A t \in {"ITEM_L2TPV2_MSG_CTRL_SESSION_ID"} : t \in Tokens /\ FieldOf(token_list[t],
          "item_l2tpv2")
    BY FieldsOfItems, GroupsInTable, SMT DEF l2tpv2_items_names
  <2> QED
    BY <2>1, OffersOfItems, SMT DEF ItemList, NEXT_ENTRY_3
<1>70. ItemList(NEXT_ENTRY_3("ITEM_L2TPV2_MSG_CTRL_NS", "ITEM_L2TPV2_COMMON", "ITEM_NEXT"),
       "item_l2tpv2")
  <2>1. \A t \in {"ITEM_L2TPV2_MSG_CTRL_NS"} : t \in Tokens /\ FieldOf(token_list[t], "item_l2tpv2")
    BY FieldsOfItems, GroupsInTable, SMT DEF l2tpv2_items_names
  <2> QED
    BY <2>1, OffersOfItems, SMT DEF ItemList, NEXT_ENTRY_3
<1>71. ItemList(item_ppp, "item_ppp")
  <2>1. \A t \in {"ITEM_PPP_ADDR", "ITEM_PPP_CTRL", "ITEM_PPP_PROTO_ID"} : t \in Tokens /\
          FieldOf(token_list[t], "item_ppp")
    BY FieldsOfItems, GroupsInTable, SMT DEF l2tpv2_items_names
  <2> QED
    BY <2>1, OffersOfItems, SMT DEF ItemList, item_ppp
<1> QED
  BY <1>1, <1>2, <1>3, <1>4, <1>5, <1>6, <1>7, <1>8, <1>9, <1>10, <1>11, <1>12, <1>13, <1>14,
     <1>15, <1>16, <1>17, <1>18, <1>19, <1>20, <1>21, <1>22, <1>23, <1>24, <1>25, <1>26,
     <1>27, <1>28, <1>29, <1>30, <1>31, <1>32, <1>33, <1>34, <1>35, <1>36, <1>37, <1>38,
     <1>39, <1>40, <1>41, <1>42, <1>43, <1>44, <1>45, <1>46, <1>47, <1>48, <1>49, <1>50,
     <1>51, <1>52, <1>53, <1>54, <1>55, <1>56, <1>57, <1>58, <1>59, <1>60, <1>61, <1>62,
     <1>63, <1>64, <1>65, <1>66, <1>67, <1>68, <1>69, <1>70, <1>71, Zenon

(* The lists of the fields of the actions.                                 *)
LEMMA ActionLists ==
  /\ ActionList(action_jump, "action_jump")
  /\ ActionList(action_mark, "action_mark")
  /\ ActionList(action_queue, "action_queue")
  /\ ActionList(action_count, "action_count")
  /\ ActionList(action_rss, "action_rss_data")
  /\ ActionList(action_vf, "action_vf")
  /\ ActionList(action_phy_port, "action_phy_port")
  /\ ActionList(action_port_id, "action_port_id")
  /\ ActionList(action_meter, "action_meter")
  /\ ActionList(action_meter_color, "action_meter_color")
  /\ ActionList(NEXT_ENTRY("ACTION_NEXT"), "action_meter_color")
  /\ ActionList(action_of_set_mpls_ttl, "action_of_set_mpls_ttl")
  /\ ActionList(action_of_set_nw_ttl, "action_of_set_nw_ttl")
  /\ ActionList(action_of_push_vlan, "action_of_push_vlan")
  /\ ActionList(action_of_set_vlan_vid, "action_of_set_vlan_vid")
  /\ ActionList(action_of_set_vlan_pcp, "action_of_set_vlan_pcp")
  /\ ActionList(action_of_pop_mpls, "action_of_pop_mpls")
  /\ ActionList(action_of_push_mpls, "action_of_push_mpls")
  /\ ActionList(NEXT_ENTRY("ACTION_NEXT"), "action_vxlan_encap_data")
  /\ ActionList(NEXT_ENTRY("ACTION_NEXT"), "action_nvgre_encap_data")
  /\ ActionList(NEXT_ENTRY("ACTION_NEXT"), "action_raw_encap_data")
  /\ ActionList(NEXT_ENTRY("ACTION_NEXT"), "action_raw_decap_data")
  /\ ActionList(action_set_ipv4_src, "action_set_ipv4")
  /\ ActionList(action_set_ipv4_dst, "action_set_ipv4")
  /\ ActionList(action_set_ipv6_src, "action_set_ipv6")
  /\ ActionList(action_set_ipv6_dst, "action_set_ipv6")
  /\ ActionList(action_set_tp_src, "action_set_tp")
  /\ ActionList(action_set_tp_dst, "action_set_tp")
  /\ ActionList(action_set_ttl, "action_set_ttl")
  /\ ActionList(action_set_mac_src, "action_set_mac")
  /\ ActionList(action_set_mac_dst, "action_set_mac")
  /\ ActionList(action_inc_tcp_seq, "rte_be32_t")
  /\ ActionList(action_dec_tcp_seq, "rte_be32_t")
  /\ ActionList(action_inc_tcp_ack, "rte_be32_t")
  /\ ActionList(action_dec_tcp_ack, "rte_be32_t")
  /\ ActionList(action_raw_encap, "action_raw_encap_data")
  /\ ActionList(NEXT_ENTRY("ACTION_RAW_ENCAP_INDEX_VALUE"), "action_raw_encap_data")
  /\ ActionList(action_raw_decap, "action_raw_decap_data")
  /\ ActionList(NEXT_ENTRY("ACTION_RAW_DECAP_INDEX_VALUE"), "action_raw_decap_data")
  /\ ActionList(NEXT_ENTRY("ACTION_MODIFY_FIELD_OP"), "action_modify_field")
  /\ ActionList(NEXT_ENTRY("ACTION_MODIFY_FIELD_DST_TYPE"), "action_modify_field")
  /\ ActionList(action_modify_field_dst, "action_modify_field")
  /\ ActionList(action_modify_field_src, "action_modify_field")
  /\ ActionList(NEXT_ENTRY("ACTION_MODIFY_FIELD_WIDTH"), "action_modify_field")
  /\ ActionList(NEXT_ENTRY("ACTION_NEXT"), "action_modify_field")
  /\ ActionList(action_set_tag, "action_set_tag")
  /\ ActionList(action_set_meta, "action_set_meta")
  /\ ActionList(action_set_ipv4_dscp, "action_set_dscp")
  /\ ActionList(action_set_ipv6_dscp, "action_set_dscp")
  /\ ActionList(action_age, "action_age")
  /\ ActionList(action_sample, "action_sample_data")
  /\ ActionList(NEXT_ENTRY("ACTION_SAMPLE_INDEX_VALUE"), "action_sample_data")
  /\ ActionList(NEXT_ENTRY("ACTION_NEXT"), "action_sample_data")
  /\ ActionList(NEXT_ENTRY("ACTION_NEXT"), "action_conntrack")
  /\ ActionList(action_update_conntrack, "modify_conntrack")
  /\ ActionList(action_port_representor, "action_ethdev")
  /\ ActionList(action_represented_port, "action_ethdev")
<1>1. ActionList(action_jump, "action_jump")
  <2>1. \A t \in {"ACTION_JUMP_GROUP"} : t \in Tokens /\ ConfOf(token_list[t], "action_jump")
    BY ConfsOfActions, GroupsInTable, SMT DEF actions_tokens_names
  <2> QED
    BY <2>1, OffersOfActions, SMT DEF ActionList, action_jump
<1>2. ActionList(action_mark, "action_mark")
  <2>1. \A t \in {"ACTION_MARK_ID"} : t \in Tokens /\ ConfOf(token_list[t], "action_mark")
    BY ConfsOfActions, GroupsInTable, SMT DEF actions_tokens_names
  <2> QED
    BY <2>1, OffersOfActions, SMT DEF ActionList, action_mark
<1>3. ActionList(action_queue, "action_queue")
  <2>1. \A t \in {"ACTION_QUEUE_INDEX"} : t \in Tokens /\ ConfOf(token_list[t], "action_queue")
    BY ConfsOfActions, GroupsInTable, SMT DEF actions_tokens_names
  <2> QED
    BY <2>1, OffersOfActions, SMT DEF ActionList, action_queue
<1>4. ActionList(action_count, "action_count")
  <2>1. \A t \in {"ACTION_COUNT_ID"} : t \in Tokens /\ ConfOf(token_list[t], "action_count")
    BY ConfsOfActions, GroupsInTable, SMT DEF actions_tokens_names
  <2> QED
    BY <2>1, OffersOfActions, SMT DEF ActionList, action_count
<1>5. ActionList(action_rss, "action_rss_data")
  <2>1. \A t \in {"ACTION_RSS_LEVEL", "ACTION_RSS_KEY", "ACTION_RSS_KEY_LEN"} : t \in Tokens /\
          ConfOf(token_list[t], "action_rss_data")
    BY ConfsOfActions, GroupsInTable, SMT DEF rss_tokens_names
  <2> QED
    BY <2>1, OffersOfActions, SMT DEF ActionList, action_rss
<1>6. ActionList(action_vf, "action_vf")
  <2>1. \A t \in {"ACTION_VF_ORIGINAL", "ACTION_VF_ID"} : t \in Tokens /\ ConfOf(token_list[t],
          "action_vf")
    BY ConfsOfActions, GroupsInTable, SMT DEF port_meter_actions_names
  <2> QED
    BY <2>1, OffersOfActions, SMT DEF ActionList, action_vf
<1>7. ActionList(action_phy_port, "action_phy_port")
  <2>1. \A t \in {"ACTION_PHY_PORT_ORIGINAL", "ACTION_PHY_PORT_INDEX"} : t \in Tokens /\
          ConfOf(token_list[t], "action_phy_port")
    BY ConfsOfActions, GroupsInTable, SMT DEF port_meter_actions_names
  <2> QED
    BY <2>1, OffersOfActions, SMT DEF ActionList, action_phy_port
<1>8. ActionList(action_port_id, "action_port_id")
  <2>1. \A t \in {"ACTION_PORT_ID_ORIGINAL", "ACTION_PORT_ID_ID"} : t \in Tokens /\
          ConfOf(token_list[t], "action_port_id")
    BY ConfsOfActions, GroupsInTable, SMT DEF port_meter_actions_names
  <2> QED
    BY <2>1, OffersOfActions, SMT DEF ActionList, action_port_id
<1>9. ActionList(action_meter, "action_meter")
  <2>1. \A t \in {"ACTION_METER_ID"} : t \in Tokens /\ ConfOf(token_list[t], "action_meter")
    BY ConfsOfActions, GroupsInTable, SMT DEF port_meter_actions_names
  <2> QED
    BY <2>1, OffersOfActions, SMT DEF ActionList, action_meter
<1>10. ActionList(action_meter_color, "action_meter_color")
  BY OffersOfActions, SMT DEF ActionList, action_meter_color
<1>11. ActionList(NEXT_ENTRY("ACTION_NEXT"), "action_meter_color")
  BY OffersOfActions, SMT DEF ActionList, NEXT_ENTRY
<1>12. ActionList(action_of_set_mpls_ttl, "action_of_set_mpls_ttl")
  <2>1. \A t \in {"ACTION_OF_SET_MPLS_TTL_MPLS_TTL"} : t \in Tokens /\ ConfOf(token_list[t],
          "action_of_set_mpls_ttl")
    BY ConfsOfActions, GroupsInTable, SMT DEF port_meter_actions_names
  <2> QED
    BY <2>1, OffersOfActions, SMT DEF ActionList, action_of_set_mpls_ttl
<1>13. ActionList(action_of_set_nw_ttl, "action_of_set_nw_ttl")
  <2>1. \A t \in {"ACTION_OF_SET_NW_TTL_NW_TTL"} : t \in Tokens /\ ConfOf(token_list[t],
          "action_of_set_nw_ttl")
    BY ConfsOfActions, GroupsInTable, SMT DEF openflow_actions_names
  <2> QED
    BY <2>1, OffersOfActions, SMT DEF ActionList, action_of_set_nw_ttl
<1>14. ActionList(action_of_push_vlan, "action_of_push_vlan")
  <2>1. \A t \in {"ACTION_OF_PUSH_VLAN_ETHERTYPE"} : t \in Tokens /\ ConfOf(token_list[t],
          "action_of_push_vlan")
    BY ConfsOfActions, GroupsInTable, SMT DEF openflow_actions_names
  <2> QED
    BY <2>1, OffersOfActions, SMT DEF ActionList, action_of_push_vlan
<1>15. ActionList(action_of_set_vlan_vid, "action_of_set_vlan_vid")
  <2>1. \A t \in {"ACTION_OF_SET_VLAN_VID_VLAN_VID"} : t \in Tokens /\ ConfOf(token_list[t],
          "action_of_set_vlan_vid")
    BY ConfsOfActions, GroupsInTable, SMT DEF openflow_actions_names
  <2> QED
    BY <2>1, OffersOfActions, SMT DEF ActionList, action_of_set_vlan_vid
<1>16. ActionList(action_of_set_vlan_pcp, "action_of_set_vlan_pcp")
  <2>1. \A t \in {"ACTION_OF_SET_VLAN_PCP_VLAN_PCP"} : t \in Tokens /\ ConfOf(token_list[t],
          "action_of_set_vlan_pcp")
    BY ConfsOfActions, GroupsInTable, SMT DEF openflow_actions_names
  <2> QED
    BY <2>1, OffersOfActions, SMT DEF ActionList, action_of_set_vlan_pcp
<1>17. ActionList(action_of_pop_mpls, "action_of_pop_mpls")
  <2>1. \A t \in {"ACTION_OF_POP_MPLS_ETHERTYPE"} : t \in Tokens /\ ConfOf(token_list[t],
          "action_of_pop_mpls")
    BY ConfsOfActions, GroupsInTable, SMT DEF openflow_actions_names
  <2> QED
    BY <2>1, OffersOfActions, SMT DEF ActionList, action_of_pop_mpls
<1>18. ActionList(action_of_push_mpls, "action_of_push_mpls")
  <2>1. \A t \in {"ACTION_OF_PUSH_MPLS_ETHERTYPE"} : t \in Tokens /\ ConfOf(token_list[t],
          "action_of_push_mpls")
    BY ConfsOfActions, GroupsInTable, SMT DEF openflow_actions_names
  <2> QED
    BY <2>1, OffersOfActions, SMT DEF ActionList, action_of_push_mpls
<1>19. ActionList(NEXT_ENTRY("ACTION_NEXT"), "action_vxlan_encap_data")
  BY OffersOfActions, SMT DEF ActionList, NEXT_ENTRY
<1>20. ActionList(NEXT_ENTRY("ACTION_NEXT"), "action_nvgre_encap_data")
  BY OffersOfActions, SMT DEF ActionList, NEXT_ENTRY
<1>21. ActionList(NEXT_ENTRY("ACTION_NEXT"), "action_raw_encap_data")
  BY OffersOfActions, SMT DEF ActionList, NEXT_ENTRY
<1>22. ActionList(NEXT_ENTRY("ACTION_NEXT"), "action_raw_decap_data")
  BY OffersOfActions, SMT DEF ActionList, NEXT_ENTRY
<1>23. ActionList(action_set_ipv4_src, "action_set_ipv4")
  <2>1. \A t \in {"ACTION_SET_IPV4_SRC_IPV4_SRC"} : t \in Tokens /\ ConfOf(token_list[t],
          "action_set_ipv4")
    BY ConfsOfActions, GroupsInTable, SMT DEF set_address_actions_names
  <2> QED
    BY <2>1, OffersOfActions, SMT DEF ActionList, action_set_ipv4_src
<1>24. ActionList(action_set_ipv4_dst, "action_set_ipv4")
  <2>1. \A t \in {"ACTION_SET_IPV4_DST_IPV4_DST"} : t \in Tokens /\ ConfOf(token_list[t],
          "action_set_ipv4")
    BY ConfsOfActions, GroupsInTable, SMT DEF set_address_actions_names
  <2> QED
    BY <2>1, OffersOfActions, SMT DEF ActionList, action_set_ipv4_dst
<1>25. ActionList(action_set_ipv6_src, "action_set_ipv6")
  <2>1. \A t \in {"ACTION_SET_IPV6_SRC_IPV6_SRC"} : t \in Tokens /\ ConfOf(token_list[t],
          "action_set_ipv6")
    BY ConfsOfActions, GroupsInTable, SMT DEF set_address_actions_names
  <2> QED
    BY <2>1, OffersOfActions, SMT DEF ActionList, action_set_ipv6_src
<1>26. ActionList(action_set_ipv6_dst, "action_set_ipv6")
  <2>1. \A t \in {"ACTION_SET_IPV6_DST_IPV6_DST"} : t \in Tokens /\ ConfOf(token_list[t],
          "action_set_ipv6")
    BY ConfsOfActions, GroupsInTable, SMT DEF set_address_actions_names
  <2> QED
    BY <2>1, OffersOfActions, SMT DEF ActionList, action_set_ipv6_dst
<1>27. ActionList(action_set_tp_src, "action_set_tp")
  <2>1. \A t \in {"ACTION_SET_TP_SRC_TP_SRC"} : t \in Tokens /\ ConfOf(token_list[t],
          "action_set_tp")
    BY ConfsOfActions, GroupsInTable, SMT DEF set_address_actions_names
  <2> QED
    BY <2>1, OffersOfActions, SMT DEF ActionList, action_set_tp_src
<1>28. ActionList(action_set_tp_dst, "action_set_tp")
  <2>1. \A t \in {"ACTION_SET_TP_DST_TP_DST"} : t \in Tokens /\ ConfOf(token_list[t],
          "action_set_tp")
    BY ConfsOfActions, GroupsInTable, SMT DEF set_address_actions_names
  <2> QED
    BY <2>1, OffersOfActions, SMT DEF ActionList, action_set_tp_dst
<1>29. ActionList(action_set_ttl, "action_set_ttl")
  <2>1. \A t \in {"ACTION_SET_TTL_TTL"} : t \in Tokens /\ ConfOf(token_list[t], "action_set_ttl")
    BY ConfsOfActions, GroupsInTable, SMT DEF mac_tcp_actions_names
  <2> QED
    BY <2>1, OffersOfActions, SMT DEF ActionList, action_set_ttl
<1>30. ActionList(action_set_mac_src, "action_set_mac")
  <2>1. \A t \in {"ACTION_SET_MAC_SRC_MAC_SRC"} : t \in Tokens /\ ConfOf(token_list[t],
          "action_set_mac")
    BY ConfsOfActions, GroupsInTable, SMT DEF mac_tcp_actions_names
  <2> QED
    BY <2>1, OffersOfActions, SMT DEF ActionList, action_set_mac_src
<1>31. ActionList(action_set_mac_dst, "action_set_mac")
  <2>1. \A t \in {"ACTION_SET_MAC_DST_MAC_DST"} : t \in Tokens /\ ConfOf(token_list[t],
          "action_set_mac")
    BY ConfsOfActions, GroupsInTable, SMT DEF mac_tcp_actions_names
  <2> QED
    BY <2>1, OffersOfActions, SMT DEF ActionList, action_set_mac_dst
<1>32. ActionList(action_inc_tcp_seq, "rte_be32_t")
  <2>1. \A t \in {"ACTION_INC_TCP_SEQ_VALUE"} : t \in Tokens /\ ConfOf(token_list[t], "rte_be32_t")
    BY ConfsOfActions, GroupsInTable, SMT DEF mac_tcp_actions_names
  <2> QED
    BY <2>1, OffersOfActions, SMT DEF ActionList, action_inc_tcp_seq
<1>33. ActionList(action_dec_tcp_seq, "rte_be32_t")
  <2>1. \A t \in {"ACTION_DEC_TCP_SEQ_VALUE"} : t \in Tokens /\ ConfOf(token_list[t], "rte_be32_t")
    BY ConfsOfActions, GroupsInTable, SMT DEF mac_tcp_actions_names
  <2> QED
    BY <2>1, OffersOfActions, SMT DEF ActionList, action_dec_tcp_seq
<1>34. ActionList(action_inc_tcp_ack, "rte_be32_t")
  <2>1. \A t \in {"ACTION_INC_TCP_ACK_VALUE"} : t \in Tokens /\ ConfOf(token_list[t], "rte_be32_t")
    BY ConfsOfActions, GroupsInTable, SMT DEF mac_tcp_actions_names
  <2> QED
    BY <2>1, OffersOfActions, SMT DEF ActionList, action_inc_tcp_ack
<1>35. ActionList(action_dec_tcp_ack, "rte_be32_t")
  <2>1. \A t \in {"ACTION_DEC_TCP_ACK_VALUE"} : t \in Tokens /\ ConfOf(token_list[t], "rte_be32_t")
    BY ConfsOfActions, GroupsInTable, SMT DEF mac_tcp_actions_names
  <2> QED
    BY <2>1, OffersOfActions, SMT DEF ActionList, action_dec_tcp_ack
<1>36. ActionList(action_raw_encap, "action_raw_encap_data")
  BY OffersOfActions, SMT DEF ActionList, action_raw_encap
<1>37. ActionList(NEXT_ENTRY("ACTION_RAW_ENCAP_INDEX_VALUE"), "action_raw_encap_data")
  BY OffersOfActions, SMT DEF ActionList, NEXT_ENTRY
<1>38. ActionList(action_raw_decap, "action_raw_decap_data")
  BY OffersOfActions, SMT DEF ActionList, action_raw_decap
<1>39. ActionList(NEXT_ENTRY("ACTION_RAW_DECAP_INDEX_VALUE"), "action_raw_decap_data")
  BY OffersOfActions, SMT DEF ActionList, NEXT_ENTRY
<1>40. ActionList(NEXT_ENTRY("ACTION_MODIFY_FIELD_OP"), "action_modify_field")
  BY OffersOfActions, SMT DEF ActionList, NEXT_ENTRY
<1>41. ActionList(NEXT_ENTRY("ACTION_MODIFY_FIELD_DST_TYPE"), "action_modify_field")
  BY OffersOfActions, SMT DEF ActionList, NEXT_ENTRY
<1>42. ActionList(action_modify_field_dst, "action_modify_field")
  <2>1. \A t \in {"ACTION_MODIFY_FIELD_DST_LEVEL", "ACTION_MODIFY_FIELD_DST_OFFSET"} : t \in Tokens
          /\ ConfOf(token_list[t], "action_modify_field")
    BY ConfsOfActions, GroupsInTable, SMT DEF modify_field_actions_names
  <2> QED
    BY <2>1, OffersOfActions, SMT DEF ActionList, action_modify_field_dst
<1>43. ActionList(action_modify_field_src, "action_modify_field")
  <2>1. \A t \in {"ACTION_MODIFY_FIELD_SRC_LEVEL", "ACTION_MODIFY_FIELD_SRC_OFFSET",
          "ACTION_MODIFY_FIELD_SRC_VALUE", "ACTION_MODIFY_FIELD_SRC_POINTER",
          "ACTION_MODIFY_FIELD_WIDTH"} : t \in Tokens /\ ConfOf(token_list[t],
          "action_modify_field")
    BY ConfsOfActions, GroupsInTable, SMT DEF modify_field_actions_names
  <2> QED
    BY <2>1, OffersOfActions, SMT DEF ActionList, action_modify_field_src
<1>44. ActionList(NEXT_ENTRY("ACTION_MODIFY_FIELD_WIDTH"), "action_modify_field")
  <2>1. \A t \in {"ACTION_MODIFY_FIELD_WIDTH"} : t \in Tokens /\ ConfOf(token_list[t],
          "action_modify_field")
    BY ConfsOfActions, GroupsInTable, SMT DEF modify_field_actions_names
  <2> QED
    BY <2>1, OffersOfActions, SMT DEF ActionList, NEXT_ENTRY
<1>45. ActionList(NEXT_ENTRY("ACTION_NEXT"), "action_modify_field")
  BY OffersOfActions, SMT DEF ActionList, NEXT_ENTRY
<1>46. ActionList(action_set_tag, "action_set_tag")
  <2>1. \A t \in {"ACTION_SET_TAG_DATA", "ACTION_SET_TAG_INDEX", "ACTION_SET_TAG_MASK"} : t \in
          Tokens /\ ConfOf(token_list[t], "action_set_tag")
    BY ConfsOfActions, GroupsInTable, SMT DEF set_tokens_names
  <2> QED
    BY <2>1, OffersOfActions, SMT DEF ActionList, action_set_tag
<1>47. ActionList(action_set_meta, "action_set_meta")
  <2>1. \A t \in {"ACTION_SET_META_DATA", "ACTION_SET_META_MASK"} : t \in Tokens /\
          ConfOf(token_list[t], "action_set_meta")
    BY ConfsOfActions, GroupsInTable, SMT DEF set_tokens_names
  <2> QED
    BY <2>1, OffersOfActions, SMT DEF ActionList, action_set_meta
<1>48. ActionList(action_set_ipv4_dscp, "action_set_dscp")
  <2>1. \A t \in {"ACTION_SET_IPV4_DSCP_VALUE"} : t \in Tokens /\ ConfOf(token_list[t],
          "action_set_dscp")
    BY ConfsOfActions, GroupsInTable, SMT DEF age_sample_actions_names
  <2> QED
    BY <2>1, OffersOfActions, SMT DEF ActionList, action_set_ipv4_dscp
<1>49. ActionList(action_set_ipv6_dscp, "action_set_dscp")
  <2>1. \A t \in {"ACTION_SET_IPV6_DSCP_VALUE"} : t \in Tokens /\ ConfOf(token_list[t],
          "action_set_dscp")
    BY ConfsOfActions, GroupsInTable, SMT DEF age_sample_actions_names
  <2> QED
    BY <2>1, OffersOfActions, SMT DEF ActionList, action_set_ipv6_dscp
<1>50. ActionList(action_age, "action_age")
  <2>1. \A t \in {"ACTION_AGE_TIMEOUT"} : t \in Tokens /\ ConfOf(token_list[t], "action_age")
    BY ConfsOfActions, GroupsInTable, SMT DEF age_sample_actions_names
  <2> QED
    BY <2>1, OffersOfActions, SMT DEF ActionList, action_age
<1>51. ActionList(action_sample, "action_sample_data")
  <2>1. \A t \in {"ACTION_SAMPLE_RATIO"} : t \in Tokens /\ ConfOf(token_list[t],
          "action_sample_data")
    BY ConfsOfActions, GroupsInTable, SMT DEF age_sample_actions_names
  <2> QED
    BY <2>1, OffersOfActions, SMT DEF ActionList, action_sample
<1>52. ActionList(NEXT_ENTRY("ACTION_SAMPLE_INDEX_VALUE"), "action_sample_data")
  BY OffersOfActions, SMT DEF ActionList, NEXT_ENTRY
<1>53. ActionList(NEXT_ENTRY("ACTION_NEXT"), "action_sample_data")
  BY OffersOfActions, SMT DEF ActionList, NEXT_ENTRY
<1>54. ActionList(NEXT_ENTRY("ACTION_NEXT"), "action_conntrack")
  BY OffersOfActions, SMT DEF ActionList, NEXT_ENTRY
<1>55. ActionList(action_update_conntrack, "modify_conntrack")
  BY OffersOfActions, SMT DEF ActionList, action_update_conntrack
<1>56. ActionList(action_port_representor, "action_ethdev")
  <2>1. \A t \in {"ACTION_PORT_REPRESENTOR_PORT_ID"} : t \in Tokens /\ ConfOf(token_list[t],
          "action_ethdev")
    BY ConfsOfActions, GroupsInTable, SMT DEF age_sample_actions_names
  <2> QED
    BY <2>1, OffersOfActions, SMT DEF ActionList, action_port_representor
<1>57. ActionList(action_represented_port, "action_ethdev")
  <2>1. \A t \in {"ACTION_REPRESENTED_PORT_ETHDEV_PORT_ID"} : t \in Tokens /\ ConfOf(token_list[t],
          "action_ethdev")
    BY ConfsOfActions, GroupsInTable, SMT DEF age_sample_actions_names
  <2> QED
    BY <2>1, OffersOfActions, SMT DEF ActionList, action_represented_port
<1> QED
  BY <1>1, <1>2, <1>3, <1>4, <1>5, <1>6, <1>7, <1>8, <1>9, <1>10, <1>11, <1>12, <1>13, <1>14,
     <1>15, <1>16, <1>17, <1>18, <1>19, <1>20, <1>21, <1>22, <1>23, <1>24, <1>25, <1>26,
     <1>27, <1>28, <1>29, <1>30, <1>31, <1>32, <1>33, <1>34, <1>35, <1>36, <1>37, <1>38,
     <1>39, <1>40, <1>41, <1>42, <1>43, <1>44, <1>45, <1>46, <1>47, <1>48, <1>49, <1>50,
     <1>51, <1>52, <1>53, <1>54, <1>55, <1>56, <1>57, Zenon

\* The fields of an item go on to a list of the same item, after one of is,
\* spec, last, mask and prefix and a value; those of an action after a value.
\* The arguments of the value are in the structure that has the field.
FieldSound(token) ==
  FieldShape(token) =>
    /\ ItemList(token.next[1], Owner(token))
    /\ ValueList(token.next[2], Len(token.args))
    /\ token.next[3] \subseteq item_param
    /\ \A i \in DOMAIN token.args : token.args[i] \in {Owner(token), "none"}
\* Only these configurations are read without moving the object.
Own == {"action_rss_data", "action_sample_data", "action_raw_encap_data", "action_raw_decap_data"}
ConfSound(token) ==
  ConfShape(token) =>
    /\ ActionList(token.next[1], Owner(token))
    /\ ValueList(token.next[2], Len(token.args))
    /\ \A i \in DOMAIN token.args : token.args[i] \in {Owner(token), "none"}
    /\ token.call = "parse_default" => Owner(token) \in Own
Sound(token) == FieldSound(token) /\ ConfSound(token)

(* What makes a token put together from lists and arguments sound.         *)
LEMMA SoundTokens ==
  /\ \A c, N, A, p : c \notin {"parse_default", "parse_vc_conf"} => Sound(Token(c, N, A, p))
  /\ \A c, A, p : Sound(Token(c, <<>>, A, p))
  /\ \A c, L, A, p : Sound(Token(c, <<L>>, A, p))
  /\ \A c, L, M, p : Sound(Token(c, <<L, M>>, <<>>, p))
  /\ \A c, L, M, p : Sound(Token(c, <<L, M>>, <<"buffer">>, p))
  /\ \A c, L, M, A, p :
       /\ ActionList(L, A) /\ ValueList(M, 1) /\ (c = "parse_default" => A \in Own)
       => Sound(Token(c, <<L, M>>, <<A>>, p))
  /\ \A c, L, M, A, B, C, p :
       /\ ActionList(L, C) /\ ValueList(M, 3) /\ (c = "parse_default" => C \in Own)
       /\ A \in {C, "none"} /\ B \in {C, "none"}
       => Sound(Token(c, <<L, M>>, <<A, B, C>>, p))
  /\ \A L, M, N, A, p :
       ItemList(L, A) /\ ValueList(M, 1) /\ N \subseteq item_param =>
         Sound(Token("parse_default", <<L, M, N>>, <<A>>, p))
  /\ \A L, M, N, A, B, C, p :
       /\ ItemList(L, C) /\ ValueList(M, 3) /\ N \subseteq item_param
       /\ A \in {C, "none"} /\ B \in {C, "none"}
       => Sound(Token("parse_default", <<L, M, N>>, <<A, B, C>>, p))
<1>1. \A c, N, A, p : c \notin {"parse_default", "parse_vc_conf"} => Sound(Token(c, N, A, p))
  BY SMT DEF Sound, FieldSound, ConfSound, FieldShape, ConfShape, Owner, Token
<1>2. \A c, A, p : Sound(Token(c, <<>>, A, p))
  BY SMT DEF Sound, FieldSound, ConfSound, FieldShape, ConfShape, Owner, Token
<1>3. \A c, L, A, p : Sound(Token(c, <<L>>, A, p))
  BY SMT DEF Sound, FieldSound, ConfSound, FieldShape, ConfShape, Owner, Token
<1>4. \A c, L, M, p : Sound(Token(c, <<L, M>>, <<>>, p))
  BY SMT DEF Sound, FieldSound, ConfSound, FieldShape, ConfShape, Owner, Token
<1>5. \A c, L, M, p : Sound(Token(c, <<L, M>>, <<"buffer">>, p))
  BY SMT DEF Sound, FieldSound, ConfSound, FieldShape, ConfShape, Owner, Token
<1>6. \A c, L, M, A, p :
        /\ ActionList(L, A) /\ ValueList(M, 1) /\ (c = "parse_default" => A \in Own)
        => Sound(Token(c, <<L, M>>, <<A>>, p))
  BY SMT DEF Sound, FieldSound, ConfSound, FieldShape, ConfShape, Owner, Token
<1>7. \A c, L, M, A, B, C, p :
        /\ ActionList(L, C) /\ ValueList(M, 3) /\ (c = "parse_default" => C \in Own)
        /\ A \in {C, "none"} /\ B \in {C, "none"}
        => Sound(Token(c, <<L, M>>, <<A, B, C>>, p))
  BY SMT DEF Sound, FieldSound, ConfSound, FieldShape, ConfShape, Owner, Token
<1>8. \A L, M, N, A, p :
        ItemList(L, A) /\ ValueList(M, 1) /\ N \subseteq item_param =>
          Sound(Token("parse_default", <<L, M, N>>, <<A>>, p))
  BY SMT DEF Sound, FieldSound, ConfSound, FieldShape, ConfShape, Owner, Token
<1>9. \A L, M, N, A, B, C, p :
        /\ ItemList(L, C) /\ ValueList(M, 3) /\ N \subseteq item_param
        /\ A \in {C, "none"} /\ B \in {C, "none"}
        => Sound(Token("parse_default", <<L, M, N>>, <<A, B, C>>, p))
  BY SMT DEF Sound, FieldSound, ConfSound, FieldShape, ConfShape, Owner, Token
<1> QED
  BY <1>1, <1>2, <1>3, <1>4, <1>5, <1>6, <1>7, <1>8, <1>9, Zenon

(* The values of the fields, and what comes before them.                   *)
LEMMA ListsOfValues ==
  /\ ValueList(NEXT_ENTRY("COMMON_UNSIGNED"), 1)
  /\ ValueList(NEXT_ENTRY("COMMON_BOOLEAN"), 1)
  /\ ValueList(NEXT_ENTRY("COMMON_INTEGER"), 1)
  /\ ValueList(NEXT_ENTRY("COMMON_STRING"), 3)
  /\ ValueList(NEXT_ENTRY("COMMON_MAC_ADDR"), 1)
  /\ ValueList(NEXT_ENTRY("COMMON_IPV4_ADDR"), 1)
  /\ ValueList(NEXT_ENTRY("COMMON_IPV6_ADDR"), 1)
  /\ ValueList(NEXT_ENTRY("COMMON_HEX"), 3)
  /\ ValueList(NEXT_ENTRY("COMMON_FLEX_HANDLE"), 1)
  /\ item_param \subseteq item_param
  /\ NEXT_ENTRY_3("ITEM_PARAM_IS", "ITEM_PARAM_SPEC", "ITEM_PARAM_MASK") \subseteq item_param
  /\ NEXT_ENTRY("ITEM_PARAM_IS") \subseteq item_param
  BY SMT DEF ValueList, OneValues, ThreeValues, item_param, NEXT_ENTRY, NEXT_ENTRY_3

(* Every row of the table is sound.                                        *)
LEMMA SoundRows ==
  /\ \A row \in common_tokens : Sound(row.token)
  /\ \A row \in command_tokens : Sound(row.token)
  /\ \A row \in flex_tunnel_tokens : Sound(row.token)
  /\ \A row \in attr_tokens : Sound(row.token)
  /\ \A row \in pattern_items : Sound(row.token)
  /\ \A row \in l2_items : Sound(row.token)
  /\ \A row \in ip_items : Sound(row.token)
  /\ \A row \in l4_items : Sound(row.token)
  /\ \A row \in tunnel_items : Sound(row.token)
  /\ \A row \in gtp_geneve_items : Sound(row.token)
  /\ \A row \in ipv6_ext_items : Sound(row.token)
  /\ \A row \in icmp6_items : Sound(row.token)
  /\ \A row \in session_items : Sound(row.token)
  /\ \A row \in ecpri_items : Sound(row.token)
  /\ \A row \in option_items : Sound(row.token)
  /\ \A row \in l2tpv2_items : Sound(row.token)
  /\ \A row \in actions_tokens : Sound(row.token)
  /\ \A row \in rss_tokens : Sound(row.token)
  /\ \A row \in port_meter_actions : Sound(row.token)
  /\ \A row \in openflow_actions : Sound(row.token)
  /\ \A row \in encap_actions : Sound(row.token)
  /\ \A row \in set_address_actions : Sound(row.token)
  /\ \A row \in mac_tcp_actions : Sound(row.token)
  /\ \A row \in raw_actions : Sound(row.token)
  /\ \A row \in modify_field_actions : Sound(row.token)
  /\ \A row \in set_tokens : Sound(row.token)
  /\ \A row \in age_sample_actions : Sound(row.token)
  /\ \A row \in indirect_policy_tokens : Sound(row.token)
<1>1. \A row \in common_tokens : Sound(row.token)
  BY SoundTokens, SMT DEF common_tokens, Each, Own, Word, Call
<1>2. \A row \in command_tokens : Sound(row.token)
  BY SoundTokens, SMT DEF command_tokens, Each, Own, Call
<1>3. \A row \in flex_tunnel_tokens : Sound(row.token)
  BY SoundTokens, SMT DEF flex_tunnel_tokens, Each, Own, Call
<1>4. \A row \in attr_tokens : Sound(row.token)
  BY SoundTokens, SMT DEF attr_tokens, Each, Own, Call
<1>5. \A row \in pattern_items : Sound(row.token)
  BY ItemLists, ListsOfValues, SoundTokens, SMT DEF pattern_items, Each, Own, Word, Place,
     BareItem, Field
<1>6. \A row \in l2_items : Sound(row.token)
  BY ItemLists, ListsOfValues, SoundTokens, SMT DEF l2_items, Each, Own, Place, Field
<1>7. \A row \in ip_items : Sound(row.token)
  BY ItemLists, ListsOfValues, SoundTokens, SMT DEF ip_items, Each, Own, Place, Field
<1>8. \A row \in l4_items : Sound(row.token)
  BY ItemLists, ListsOfValues, SoundTokens, SMT DEF l4_items, Each, Own, Place, Field
<1>9. \A row \in tunnel_items : Sound(row.token)
  BY ItemLists, ListsOfValues, SoundTokens, SMT DEF tunnel_items, Each, Own, Place, Field
<1>10. \A row \in gtp_geneve_items : Sound(row.token)
  BY ItemLists, ListsOfValues, SoundTokens, SMT DEF gtp_geneve_items, Each, Own, Place,
     Field
<1>11. \A row \in ipv6_ext_items : Sound(row.token)
  BY ItemLists, ListsOfValues, SoundTokens, SMT DEF ipv6_ext_items, Each, Own, Place, Field
<1>12. \A row \in icmp6_items : Sound(row.token)
  BY ItemLists, ListsOfValues, SoundTokens, SMT DEF icmp6_items, Each, Own, Place, Field
<1>13. \A row \in session_items : Sound(row.token)
  BY ItemLists, ListsOfValues, SoundTokens, SMT DEF session_items, Each, Own, Place, Field
<1>14. \A row \in ecpri_items : Sound(row.token)
  BY ItemLists, ListsOfValues, SoundTokens, SMT DEF ecpri_items, Each, Own, Word, Call,
     Place, Field
<1>15. \A row \in option_items : Sound(row.token)
  BY ItemLists, ListsOfValues, SoundTokens, SMT DEF option_items, Each, Own, Place, Field
<1>16. \A row \in l2tpv2_items : Sound(row.token)
  BY ItemLists, ListsOfValues, SoundTokens, SMT DEF l2tpv2_items, Each, Own, Word, Call,
     Place, Field
<1>17. \A row \in actions_tokens : Sound(row.token)
  BY ActionLists, ListsOfValues, SoundTokens, SMT DEF actions_tokens, Each, Own, Word, Call,
     Place, BareAction, Conf
<1>18. \A row \in rss_tokens : Sound(row.token)
  BY ActionLists, ListsOfValues, SoundTokens, SMT DEF rss_tokens, Each, Own, Word, Call
<1>19. \A row \in port_meter_actions : Sound(row.token)
  BY ActionLists, ListsOfValues, SoundTokens, SMT DEF port_meter_actions, Each, Own, Word,
     Call, Place, BareAction, Conf
<1>20. \A row \in openflow_actions : Sound(row.token)
  BY ActionLists, ListsOfValues, SoundTokens, SMT DEF openflow_actions, Each, Own, Place,
     BareAction, Conf
<1>21. \A row \in encap_actions : Sound(row.token)
  BY ActionLists, ListsOfValues, SoundTokens, SMT DEF encap_actions, Each, Own, BareAction,
     Place
<1>22. \A row \in set_address_actions : Sound(row.token)
  BY ActionLists, ListsOfValues, SoundTokens, SMT DEF set_address_actions, Each, Own, Place,
     Conf
<1>23. \A row \in mac_tcp_actions : Sound(row.token)
  BY ActionLists, ListsOfValues, SoundTokens, SMT DEF mac_tcp_actions, Each, Own, Place,
     BareAction, Conf
<1>24. \A row \in raw_actions : Sound(row.token)
  BY ActionLists, ListsOfValues, SoundTokens, SMT DEF raw_actions, Each, Own, Word, Call
<1>25. \A row \in modify_field_actions : Sound(row.token)
  BY ActionLists, ListsOfValues, SoundTokens, SMT DEF modify_field_actions, Each, Own, Call,
     Place, Conf
<1>26. \A row \in set_tokens : Sound(row.token)
  BY ActionLists, ListsOfValues, SoundTokens, SMT DEF set_tokens, Each, Own, Call, Place,
     Conf
<1>27. \A row \in age_sample_actions : Sound(row.token)
  BY ActionLists, ListsOfValues, SoundTokens, SMT DEF age_sample_actions, Each, Own, Word,
     Call, Place, Conf
<1>28. \A row \in indirect_policy_tokens : Sound(row.token)
  BY ActionLists, ListsOfValues, SoundTokens, SMT DEF indirect_policy_tokens, Each, Own,
     Word, Call
<1> QED BY <1>1, <1>2, <1>3, <1>4, <1>5, <1>6, <1>7, <1>8, <1>9, <1>10, <1>11, <1>12, <1>13,
     <1>14, <1>15, <1>16, <1>17, <1>18, <1>19, <1>20, <1>21, <1>22, <1>23, <1>24, <1>25,
     <1>26, <1>27, <1>28, Zenon

(* So is every token.                                                      *)
LEMMA SoundTable == \A t \in Tokens : Sound(token_list[t])
<1> TAKE t \in Tokens
<1>1. PICK row \in rows : t \in row.names
  BY Zenon DEF Tokens, token_list
<1>2. PICK r \in rows : t \in r.names /\ token_list[t] = r.token
  BY <1>1, RowOfToken, Zenon
<1>3. Sound(r.token)
  BY <1>2, SoundRows, Zenon DEF rows
<1> QED
  BY <1>2, <1>3, Zenon

\* Where the next item, the next action may begin.
PatternList(L) == L \subseteq next_item \cup {"ITEM_NEXT"}
ActionsList(L) == L \subseteq next_action \cup {"ACTION_NEXT"}

\* The tokens that read a value and push nothing.
OneCalls ==
  {"parse_prefix", "parse_int", "parse_boolean", "parse_string0", "parse_mac_addr",
   "parse_ipv4_addr", "parse_ipv6_addr", "parse_port", "parse_flex_handle"}
ThreeCalls == {"parse_string", "parse_hex"}
ValueOf(token, calls) == token.call \in calls /\ token.next = <<>> /\ token.args = <<>>

\* The tokens that append an item or an action.
ItemHead(token) ==
  /\ token.call = "parse_vc" /\ token.args = <<>> /\ Len(token.next) = 1
  /\ \/ token.priv = "void" /\ PatternList(token.next[1])
     \/ token.priv \notin {"none", "void"} /\ ItemList(token.next[1], token.priv)
ConfiguredCalls ==
  {"parse_vc_action_rss", "parse_vc_action_vxlan_encap", "parse_vc_action_nvgre_encap",
   "parse_vc_action_l2_encap", "parse_vc_action_l2_decap", "parse_vc_action_mplsogre_encap",
   "parse_vc_action_mplsogre_decap", "parse_vc_action_mplsoudp_encap",
   "parse_vc_action_mplsoudp_decap", "parse_vc_action_raw_encap",
   "parse_vc_action_raw_decap", "parse_vc_action_sample"}
ActionHead(token) ==
  /\ token.args = <<>> /\ Len(token.next) = 1
  /\ \/ token.call = "parse_vc" /\ token.priv = "void" /\ ActionsList(token.next[1])
     \/ /\ token.call \in {"parse_vc", "parse_vc_action_set_meta"}
        /\ token.priv \notin {"none", "void"} \cup Own
        /\ ActionList(token.next[1], token.priv)
     \/ /\ token.call \in ConfiguredCalls
        /\ token.priv \notin {"none", "void", "action_meter_color"}
        /\ ActionList(token.next[1], token.priv)

\* The types of a header, the words and the settings of an action.
TypeOf(token, callback, S) ==
  /\ token.call = callback /\ token.args = <<>> /\ Len(token.next) = 1
  /\ ItemList(token.next[1], S)
WordCalls(S) ==
  CASE S = "action_raw_encap_data" -> {"parse_default", "parse_vc_action_raw_encap_index"}
    [] S = "action_raw_decap_data" -> {"parse_default", "parse_vc_action_raw_decap_index"}
    [] S = "action_sample_data" -> {"parse_default", "parse_vc_action_sample_index"}
    [] S = "modify_conntrack" -> {"parse_vc_action_conntrack_update"}
    [] OTHER -> {}
WordOf(token, S) ==
  /\ token.call \in WordCalls(S) /\ token.args = <<>> /\ Len(token.next) = 1
  /\ ActionList(token.next[1], S)
SettingCalls(S) ==
  CASE S = "action_rss_data" ->
         {"parse_vc_action_rss_func", "parse_vc_action_rss_type", "parse_vc_action_rss_queue"}
    [] S = "action_modify_field" -> {"parse_vc_modify_field_op", "parse_vc_modify_field_id"}
    [] S = "action_meter_color" -> {"parse_vc_action_meter_color_type"}
    [] OTHER -> {}
SettingList(L, S) == \A t \in L : t \in Tokens /\ ValueOf(token_list[t], SettingCalls(S))
SettingOf(token, S) ==
  /\ token.args = <<>> /\ Len(token.next) = 2
  /\ ActionList(token.next[1], S) /\ SettingList(token.next[2], S)
  /\ \/ token.call = "parse_default" /\ S \in Own \cup {"action_meter_color"}
     \/ token.call = "parse_vc_conf" /\ S # "action_meter_color"

(* The tokens of the commands.                                              *)
LEMMA CommandRows ==
  /\ token_list["ZERO"] = Word(<<NEXT_ENTRY_2("FLOW", "ADD")>>)
  /\ token_list["START_SET"] = Word(<<NEXT_ENTRY("SET")>>)
  /\ token_list["FLOW"] = Call("parse_init", <<flow_keywords>>)
  /\ token_list["INDIRECT_ACTION"] = Token("parse_ia", <<next_ia_subcmd,
       NEXT_ENTRY("COMMON_PORT_ID")>>, <<"buffer">>, "none")
  /\ token_list["INDIRECT_ACTION_CREATE"] = Call("parse_ia", <<next_ia_create_attr>>)
  /\ token_list["INDIRECT_ACTION_UPDATE"] = Token("parse_ia",
       <<NEXT_ENTRY("INDIRECT_ACTION_SPEC"), NEXT_ENTRY("COMMON_INDIRECT_ACTION_ID")>>,
       <<"buffer">>, "none")
  /\ token_list["INDIRECT_ACTION_DESTROY"] = Token("parse_ia_destroy",
       <<NEXT_ENTRY("INDIRECT_ACTION_DESTROY_ID")>>, <<"buffer">>, "none")
  /\ token_list["INDIRECT_ACTION_QUERY"] = Token("parse_ia", <<NEXT_ENTRY("END"),
       NEXT_ENTRY("COMMON_INDIRECT_ACTION_ID")>>, <<"buffer">>, "none")
  /\ token_list["VALIDATE"] = Token("parse_vc", <<next_vc_attr,
       NEXT_ENTRY("COMMON_PORT_ID")>>, <<"buffer">>, "none")
  /\ token_list["CREATE"] = Token("parse_vc", <<next_vc_attr,
       NEXT_ENTRY("COMMON_PORT_ID")>>, <<"buffer">>, "none")
  /\ token_list["DESTROY"] = Token("parse_destroy", <<NEXT_ENTRY("DESTROY_RULE"),
       NEXT_ENTRY("COMMON_PORT_ID")>>, <<"buffer">>, "none")
  /\ token_list["FLUSH"] = Token("parse_flush", <<NEXT_ENTRY("COMMON_PORT_ID")>>,
       <<"buffer">>, "none")
  /\ token_list["DUMP"] = Token("parse_dump", <<next_dump_subcmd,
       NEXT_ENTRY("COMMON_PORT_ID")>>, <<"buffer">>, "none")
  /\ token_list["QUERY"] = Token("parse_query", <<NEXT_ENTRY("QUERY_ACTION"),
       NEXT_ENTRY("COMMON_RULE_ID"), NEXT_ENTRY("COMMON_PORT_ID")>>, <<"buffer", "buffer",
       "buffer">>, "none")
  /\ token_list["LIST"] = Token("parse_list", <<next_list_attr,
       NEXT_ENTRY("COMMON_PORT_ID")>>, <<"buffer">>, "none")
  /\ token_list["AGED"] = Token("parse_aged", <<next_aged_attr,
       NEXT_ENTRY("COMMON_PORT_ID")>>, <<"buffer">>, "none")
  /\ token_list["ISOLATE"] = Token("parse_isolate", <<NEXT_ENTRY("COMMON_BOOLEAN"),
       NEXT_ENTRY("COMMON_PORT_ID")>>, <<"buffer", "buffer">>, "none")
  /\ token_list["SET"] = Call("parse_set_init", <<NEXT_ENTRY_3("SET_RAW_ENCAP",
       "SET_RAW_DECAP", "SET_SAMPLE_ACTIONS")>>)
  /\ token_list["SET_SAMPLE_ACTIONS"] = Token("parse_set_sample_action",
       <<NEXT_ENTRY("SET_SAMPLE_INDEX")>>, <<"buffer">>, "none")
  /\ token_list["SET_RAW_ENCAP"] = Token("parse_set_raw_encap_decap", <<next_set_raw>>,
       <<"buffer">>, "none")
  /\ token_list["SET_RAW_DECAP"] = Token("parse_set_raw_encap_decap", <<next_set_raw>>,
       <<"buffer">>, "none")
  /\ token_list["INDIRECT_ACTION_DESTROY_ID"] = Token("parse_ia_destroy",
       <<next_ia_destroy_attr, NEXT_ENTRY("COMMON_INDIRECT_ACTION_ID")>>, <<"action_id">>,
       "none")
  /\ token_list["ITEM_POL_POLICY"] = Token("parse_mp", <<NEXT_ENTRY("ACTION_POL_R"),
       NEXT_ENTRY("ACTION_POL_Y"), NEXT_ENTRY("ACTION_POL_G"),
       NEXT_ENTRY("COMMON_POLICY_ID"), NEXT_ENTRY("COMMON_PORT_ID")>>, <<"buffer",
       "buffer">>, "none")
  /\ token_list["ADD"] = Call("parse_init", <<NEXT_ENTRY("ITEM_POL_PORT")>>)
  /\ token_list["ITEM_POL_PORT"] = Word(<<NEXT_ENTRY("ITEM_POL_METER")>>)
  /\ token_list["ITEM_POL_METER"] = Word(<<NEXT_ENTRY("ITEM_POL_POLICY")>>)
  /\ token_list["INDIRECT_ACTION_CREATE_ID"] = Token("parse_default", <<next_ia_create_attr,
       NEXT_ENTRY("COMMON_INDIRECT_ACTION_ID")>>, <<"buffer">>, "none")
  /\ token_list["INDIRECT_ACTION_INGRESS"] = Call("parse_ia", <<next_ia_create_attr>>)
  /\ token_list["INDIRECT_ACTION_EGRESS"] = Call("parse_ia", <<next_ia_create_attr>>)
  /\ token_list["INDIRECT_ACTION_TRANSFER"] = Call("parse_ia", <<next_ia_create_attr>>)
  /\ token_list["DESTROY_RULE"] = Token("parse_destroy", <<next_destroy_attr,
       NEXT_ENTRY("COMMON_RULE_ID")>>, <<"rule">>, "none")
  /\ token_list["DUMP_ALL"] = Token("parse_dump", <<next_dump_attr>>, <<"buffer">>, "none")
  /\ token_list["DUMP_ONE"] = Token("parse_dump", <<next_dump_attr,
       NEXT_ENTRY("COMMON_RULE_ID")>>, <<"buffer", "buffer">>, "none")
  /\ token_list["LIST_GROUP"] = Token("parse_list", <<next_list_attr,
       NEXT_ENTRY("COMMON_GROUP_ID")>>, <<"group">>, "none")
  /\ token_list["FLEX"] = Call("parse_flex", <<next_flex_item>>)
  /\ token_list["FLEX_ITEM_INIT"] = Token("parse_flex", <<NEXT_ENTRY("COMMON_FLEX_TOKEN"),
       NEXT_ENTRY("COMMON_PORT_ID")>>, <<"buffer", "buffer">>, "none")
  /\ token_list["FLEX_ITEM_CREATE"] = Token("parse_flex", <<NEXT_ENTRY("COMMON_FILE_PATH"),
       NEXT_ENTRY("COMMON_FLEX_TOKEN"), NEXT_ENTRY("COMMON_PORT_ID")>>, <<"buffer",
       "buffer", "buffer">>, "none")
  /\ token_list["FLEX_ITEM_DESTROY"] = Token("parse_flex",
       <<NEXT_ENTRY("COMMON_FLEX_TOKEN"), NEXT_ENTRY("COMMON_PORT_ID")>>, <<"buffer",
       "buffer">>, "none")
  /\ token_list["TUNNEL"] = Call("parse_tunnel", <<NEXT_ENTRY_3("TUNNEL_CREATE",
       "TUNNEL_LIST", "TUNNEL_DESTROY")>>)
  /\ token_list["TUNNEL_CREATE"] = Token("parse_tunnel", <<NEXT_ENTRY("TUNNEL_CREATE_TYPE"),
       NEXT_ENTRY("COMMON_PORT_ID")>>, <<"buffer">>, "none")
  /\ token_list["TUNNEL_CREATE_TYPE"] = Token("parse_tunnel",
       <<NEXT_ENTRY("COMMON_FILE_PATH")>>, <<"tunnel_ops">>, "none")
  /\ token_list["TUNNEL_DESTROY"] = Token("parse_tunnel", <<NEXT_ENTRY("TUNNEL_DESTROY_ID"),
       NEXT_ENTRY("COMMON_PORT_ID")>>, <<"buffer">>, "none")
  /\ token_list["TUNNEL_DESTROY_ID"] = Token("parse_tunnel",
       <<NEXT_ENTRY("COMMON_UNSIGNED")>>, <<"tunnel_ops">>, "none")
  /\ token_list["TUNNEL_LIST"] = Token("parse_tunnel", <<NEXT_ENTRY("COMMON_PORT_ID")>>,
       <<"buffer">>, "none")
  /\ token_list["VC_GROUP"] = Token("parse_vc", <<next_vc_attr,
       NEXT_ENTRY("COMMON_GROUP_ID")>>, <<"attr">>, "none")
  /\ token_list["VC_PRIORITY"] = Token("parse_vc", <<next_vc_attr,
       NEXT_ENTRY("COMMON_PRIORITY_LEVEL")>>, <<"attr">>, "none")
  /\ token_list["VC_INGRESS"] = Call("parse_vc", <<next_vc_attr>>)
  /\ token_list["VC_EGRESS"] = Call("parse_vc", <<next_vc_attr>>)
  /\ token_list["VC_TRANSFER"] = Call("parse_vc", <<next_vc_attr>>)
  /\ token_list["VC_TUNNEL_SET"] = Token("parse_vc", <<next_vc_attr,
       NEXT_ENTRY("COMMON_UNSIGNED")>>, <<"tunnel_ops">>, "none")
  /\ token_list["VC_TUNNEL_MATCH"] = Token("parse_vc", <<next_vc_attr,
       NEXT_ENTRY("COMMON_UNSIGNED")>>, <<"tunnel_ops">>, "none")
<1>1. /\ token_list["ZERO"] = Word(<<NEXT_ENTRY_2("FLOW", "ADD")>>)
      /\ token_list["START_SET"] = Word(<<NEXT_ENTRY("SET")>>)
  <2>1. \A t \in common_tokens_names : RowOf(t, common_tokens)
    BY RowsApart, Zenon
  <2> QED
    BY <2>1, SMT DEF common_tokens, common_tokens_names, RowOf, Each
<1>2. /\ token_list["FLOW"] = Call("parse_init", <<flow_keywords>>)
      /\ token_list["INDIRECT_ACTION"] = Token("parse_ia", <<next_ia_subcmd,
           NEXT_ENTRY("COMMON_PORT_ID")>>, <<"buffer">>, "none")
      /\ token_list["INDIRECT_ACTION_CREATE"] = Call("parse_ia", <<next_ia_create_attr>>)
      /\ token_list["INDIRECT_ACTION_UPDATE"] = Token("parse_ia",
           <<NEXT_ENTRY("INDIRECT_ACTION_SPEC"), NEXT_ENTRY("COMMON_INDIRECT_ACTION_ID")>>,
           <<"buffer">>, "none")
      /\ token_list["INDIRECT_ACTION_DESTROY"] = Token("parse_ia_destroy",
           <<NEXT_ENTRY("INDIRECT_ACTION_DESTROY_ID")>>, <<"buffer">>, "none")
      /\ token_list["INDIRECT_ACTION_QUERY"] = Token("parse_ia", <<NEXT_ENTRY("END"),
           NEXT_ENTRY("COMMON_INDIRECT_ACTION_ID")>>, <<"buffer">>, "none")
      /\ token_list["VALIDATE"] = Token("parse_vc", <<next_vc_attr,
           NEXT_ENTRY("COMMON_PORT_ID")>>, <<"buffer">>, "none")
      /\ token_list["CREATE"] = Token("parse_vc", <<next_vc_attr, NEXT_ENTRY("COMMON_PORT_ID")>>,
           <<"buffer">>, "none")
      /\ token_list["DESTROY"] = Token("parse_destroy", <<NEXT_ENTRY("DESTROY_RULE"),
           NEXT_ENTRY("COMMON_PORT_ID")>>, <<"buffer">>, "none")
      /\ token_list["FLUSH"] = Token("parse_flush", <<NEXT_ENTRY("COMMON_PORT_ID")>>,
           <<"buffer">>, "none")
      /\ token_list["DUMP"] = Token("parse_dump", <<next_dump_subcmd,
           NEXT_ENTRY("COMMON_PORT_ID")>>, <<"buffer">>, "none")
      /\ token_list["QUERY"] = Token("parse_query", <<NEXT_ENTRY("QUERY_ACTION"),
           NEXT_ENTRY("COMMON_RULE_ID"), NEXT_ENTRY("COMMON_PORT_ID")>>, <<"buffer",
           "buffer", "buffer">>, "none")
      /\ token_list["LIST"] = Token("parse_list", <<next_list_attr,
           NEXT_ENTRY("COMMON_PORT_ID")>>, <<"buffer">>, "none")
      /\ token_list["AGED"] = Token("parse_aged", <<next_aged_attr,
           NEXT_ENTRY("COMMON_PORT_ID")>>, <<"buffer">>, "none")
      /\ token_list["ISOLATE"] = Token("parse_isolate", <<NEXT_ENTRY("COMMON_BOOLEAN"),
           NEXT_ENTRY("COMMON_PORT_ID")>>, <<"buffer", "buffer">>, "none")
  <2>1. \A t \in command_tokens_names : RowOf(t, command_tokens)
    BY RowsApart, Zenon
  <2> QED
    BY <2>1, SMT DEF command_tokens, command_tokens_names, RowOf, Each
<1>3. /\ token_list["SET"] = Call("parse_set_init", <<NEXT_ENTRY_3("SET_RAW_ENCAP",
           "SET_RAW_DECAP", "SET_SAMPLE_ACTIONS")>>)
      /\ token_list["SET_SAMPLE_ACTIONS"] = Token("parse_set_sample_action",
           <<NEXT_ENTRY("SET_SAMPLE_INDEX")>>, <<"buffer">>, "none")
      /\ token_list["SET_RAW_ENCAP"] = Token("parse_set_raw_encap_decap", <<next_set_raw>>,
           <<"buffer">>, "none")
      /\ token_list["SET_RAW_DECAP"] = Token("parse_set_raw_encap_decap", <<next_set_raw>>,
           <<"buffer">>, "none")
  <2>1. \A t \in set_tokens_names : RowOf(t, set_tokens)
    BY RowsApart, Zenon
  <2> QED
    BY <2>1, SMT DEF set_tokens, set_tokens_names, RowOf, Each
<1>4. /\ token_list["INDIRECT_ACTION_DESTROY_ID"] = Token("parse_ia_destroy",
           <<next_ia_destroy_attr, NEXT_ENTRY("COMMON_INDIRECT_ACTION_ID")>>,
           <<"action_id">>, "none")
      /\ token_list["ITEM_POL_POLICY"] = Token("parse_mp", <<NEXT_ENTRY("ACTION_POL_R"),
           NEXT_ENTRY("ACTION_POL_Y"), NEXT_ENTRY("ACTION_POL_G"),
           NEXT_ENTRY("COMMON_POLICY_ID"), NEXT_ENTRY("COMMON_PORT_ID")>>, <<"buffer",
           "buffer">>, "none")
      /\ token_list["ADD"] = Call("parse_init", <<NEXT_ENTRY("ITEM_POL_PORT")>>)
      /\ token_list["ITEM_POL_PORT"] = Word(<<NEXT_ENTRY("ITEM_POL_METER")>>)
      /\ token_list["ITEM_POL_METER"] = Word(<<NEXT_ENTRY("ITEM_POL_POLICY")>>)
      /\ token_list["INDIRECT_ACTION_CREATE_ID"] = Token("parse_default", <<next_ia_create_attr,
           NEXT_ENTRY("COMMON_INDIRECT_ACTION_ID")>>, <<"buffer">>, "none")
      /\ token_list["INDIRECT_ACTION_INGRESS"] = Call("parse_ia", <<next_ia_create_attr>>)
      /\ token_list["INDIRECT_ACTION_EGRESS"] = Call("parse_ia", <<next_ia_create_attr>>)
      /\ token_list["INDIRECT_ACTION_TRANSFER"] = Call("parse_ia", <<next_ia_create_attr>>)
  <2>1. \A t \in indirect_policy_tokens_names : RowOf(t, indirect_policy_tokens)
    BY RowsApart, Zenon
  <2> QED
    BY <2>1, SMT DEF indirect_policy_tokens, indirect_policy_tokens_names, RowOf, Each
<1>5. /\ token_list["DESTROY_RULE"] = Token("parse_destroy", <<next_destroy_attr,
           NEXT_ENTRY("COMMON_RULE_ID")>>, <<"rule">>, "none")
      /\ token_list["DUMP_ALL"] = Token("parse_dump", <<next_dump_attr>>, <<"buffer">>, "none")
      /\ token_list["DUMP_ONE"] = Token("parse_dump", <<next_dump_attr,
           NEXT_ENTRY("COMMON_RULE_ID")>>, <<"buffer", "buffer">>, "none")
      /\ token_list["LIST_GROUP"] = Token("parse_list", <<next_list_attr,
           NEXT_ENTRY("COMMON_GROUP_ID")>>, <<"group">>, "none")
      /\ token_list["FLEX"] = Call("parse_flex", <<next_flex_item>>)
      /\ token_list["FLEX_ITEM_INIT"] = Token("parse_flex", <<NEXT_ENTRY("COMMON_FLEX_TOKEN"),
           NEXT_ENTRY("COMMON_PORT_ID")>>, <<"buffer", "buffer">>, "none")
      /\ token_list["FLEX_ITEM_CREATE"] = Token("parse_flex", <<NEXT_ENTRY("COMMON_FILE_PATH"),
           NEXT_ENTRY("COMMON_FLEX_TOKEN"), NEXT_ENTRY("COMMON_PORT_ID")>>, <<"buffer",
           "buffer", "buffer">>, "none")
      /\ token_list["FLEX_ITEM_DESTROY"] = Token("parse_flex", <<NEXT_ENTRY("COMMON_FLEX_TOKEN"),
           NEXT_ENTRY("COMMON_PORT_ID")>>, <<"buffer", "buffer">>, "none")
      /\ token_list["TUNNEL"] = Call("parse_tunnel", <<NEXT_ENTRY_3("TUNNEL_CREATE",
           "TUNNEL_LIST", "TUNNEL_DESTROY")>>)
      /\ token_list["TUNNEL_CREATE"] = Token("parse_tunnel", <<NEXT_ENTRY("TUNNEL_CREATE_TYPE"),
           NEXT_ENTRY("COMMON_PORT_ID")>>, <<"buffer">>, "none")
      /\ token_list["TUNNEL_CREATE_TYPE"] = Token("parse_tunnel",
           <<NEXT_ENTRY("COMMON_FILE_PATH")>>, <<"tunnel_ops">>, "none")
      /\ token_list["TUNNEL_DESTROY"] = Token("parse_tunnel", <<NEXT_ENTRY("TUNNEL_DESTROY_ID"),
           NEXT_ENTRY("COMMON_PORT_ID")>>, <<"buffer">>, "none")
      /\ token_list["TUNNEL_DESTROY_ID"] = Token("parse_tunnel",
           <<NEXT_ENTRY("COMMON_UNSIGNED")>>, <<"tunnel_ops">>, "none")
      /\ token_list["TUNNEL_LIST"] = Token("parse_tunnel", <<NEXT_ENTRY("COMMON_PORT_ID")>>,
           <<"buffer">>, "none")
  <2>1. \A t \in flex_tunnel_tokens_names : RowOf(t, flex_tunnel_tokens)
    BY RowsApart, Zenon
  <2> QED
    BY <2>1, SMT DEF flex_tunnel_tokens, flex_tunnel_tokens_names, RowOf, Each
<1>6. /\ token_list["VC_GROUP"] = Token("parse_vc", <<next_vc_attr,
           NEXT_ENTRY("COMMON_GROUP_ID")>>, <<"attr">>, "none")
      /\ token_list["VC_PRIORITY"] = Token("parse_vc", <<next_vc_attr,
           NEXT_ENTRY("COMMON_PRIORITY_LEVEL")>>, <<"attr">>, "none")
      /\ token_list["VC_INGRESS"] = Call("parse_vc", <<next_vc_attr>>)
      /\ token_list["VC_EGRESS"] = Call("parse_vc", <<next_vc_attr>>)
      /\ token_list["VC_TRANSFER"] = Call("parse_vc", <<next_vc_attr>>)
      /\ token_list["VC_TUNNEL_SET"] = Token("parse_vc", <<next_vc_attr,
           NEXT_ENTRY("COMMON_UNSIGNED")>>, <<"tunnel_ops">>, "none")
      /\ token_list["VC_TUNNEL_MATCH"] = Token("parse_vc", <<next_vc_attr,
           NEXT_ENTRY("COMMON_UNSIGNED")>>, <<"tunnel_ops">>, "none")
  <2>1. \A t \in attr_tokens_names : RowOf(t, attr_tokens)
    BY RowsApart, Zenon
  <2> QED
    BY <2>1, SMT DEF attr_tokens, attr_tokens_names, RowOf, Each
<1> QED BY <1>1, <1>2, <1>3, <1>4, <1>5, <1>6, Zenon

(* The tokens a line goes through whatever its items and actions.           *)
LEMMA LandmarkRows ==
  /\ token_list["END"] = Word(<<>>)
  /\ token_list["END_SET"] = Word(<<>>)
  /\ token_list["COMMON_PREFIX"] = Call("parse_prefix", <<>>)
  /\ token_list["QUERY_ACTION"] = Call("parse_action", <<>>)
  /\ token_list["AGED_DESTROY"] = Call("parse_aged", <<>>)
  /\ token_list["ITEM_PATTERN"] = Call("parse_vc", <<next_item>>)
  /\ token_list["SET_RAW_INDEX"] = Call("parse_port", <<next_item>>)
  /\ token_list["SET_SAMPLE_INDEX"] = Call("parse_port", <<next_action_sample>>)
  /\ token_list["INDIRECT_ACTION_SPEC"] = Word(<<next_action>>)
  /\ token_list["ACTION_POL_G"] = Call("parse_mp", <<next_action>>)
  /\ token_list["ACTION_POL_Y"] = Word(<<next_action>>)
  /\ token_list["ACTION_POL_R"] = Word(<<next_action>>)
  /\ token_list["ACTION_INDIRECT"] = Token("parse_vc",
       <<NEXT_ENTRY("INDIRECT_ACTION_ID2PTR")>>, <<"id">>, "void")
  /\ token_list["INDIRECT_ACTION_ID2PTR"] = Call("parse_ia_id2ptr",
       <<NEXT_ENTRY("ACTION_NEXT")>>)
  /\ token_list["ITEM_NEXT"] = Word(<<next_item>>)
  /\ token_list["ITEM_END"] = Place(NEXT_ENTRY("ACTIONS"), "void")
  /\ token_list["ITEM_PPPOE_PROTO_ID"] = Token("parse_vc", <<item_pppoe_proto_id,
       NEXT_ENTRY("COMMON_UNSIGNED"), item_param>>, <<"item_pppoe_proto_id">>,
       "item_pppoe_proto_id")
  /\ token_list["ITEM_ECPRI_COMMON"] = Word(<<item_ecpri_common>>)
  /\ token_list["ITEM_ECPRI_COMMON_TYPE"] = Token("parse_default",
       <<item_ecpri_common_type>>, <<"item_ecpri">>, "none")
  /\ token_list["ITEM_L2TPV2_COMMON"] = Word(<<item_l2tpv2_common>>)
  /\ token_list["ITEM_L2TPV2_COMMON_TYPE"] = Token("parse_default",
       <<item_l2tpv2_common_type>>, <<"item_l2tpv2">>, "none")
  /\ token_list["ACTIONS"] = Call("parse_vc", <<next_action>>)
  /\ token_list["ACTION_NEXT"] = Word(<<next_action>>)
  /\ token_list["ACTION_END"] = Token("parse_vc", <<>>, <<>>, "void")
<1>1. /\ token_list["END"] = Word(<<>>)
      /\ token_list["END_SET"] = Word(<<>>)
      /\ token_list["COMMON_PREFIX"] = Call("parse_prefix", <<>>)
  <2>1. \A t \in common_tokens_names : RowOf(t, common_tokens)
    BY RowsApart, Zenon
  <2> QED
    BY <2>1, SMT DEF common_tokens, common_tokens_names, RowOf, Each
<1>2. /\ token_list["QUERY_ACTION"] = Call("parse_action", <<>>)
      /\ token_list["AGED_DESTROY"] = Call("parse_aged", <<>>)
  <2>1. \A t \in flex_tunnel_tokens_names : RowOf(t, flex_tunnel_tokens)
    BY RowsApart, Zenon
  <2> QED
    BY <2>1, SMT DEF flex_tunnel_tokens, flex_tunnel_tokens_names, RowOf, Each
<1>3. /\ token_list["ITEM_PATTERN"] = Call("parse_vc", <<next_item>>)
  <2>1. \A t \in attr_tokens_names : RowOf(t, attr_tokens)
    BY RowsApart, Zenon
  <2> QED
    BY <2>1, SMT DEF attr_tokens, attr_tokens_names, RowOf, Each
<1>4. /\ token_list["SET_RAW_INDEX"] = Call("parse_port", <<next_item>>)
      /\ token_list["SET_SAMPLE_INDEX"] = Call("parse_port", <<next_action_sample>>)
  <2>1. \A t \in set_tokens_names : RowOf(t, set_tokens)
    BY RowsApart, Zenon
  <2> QED
    BY <2>1, SMT DEF set_tokens, set_tokens_names, RowOf, Each
<1>5. /\ token_list["INDIRECT_ACTION_SPEC"] = Word(<<next_action>>)
      /\ token_list["ACTION_POL_G"] = Call("parse_mp", <<next_action>>)
      /\ token_list["ACTION_POL_Y"] = Word(<<next_action>>)
      /\ token_list["ACTION_POL_R"] = Word(<<next_action>>)
      /\ token_list["ACTION_INDIRECT"] = Token("parse_vc",
           <<NEXT_ENTRY("INDIRECT_ACTION_ID2PTR")>>, <<"id">>, "void")
      /\ token_list["INDIRECT_ACTION_ID2PTR"] = Call("parse_ia_id2ptr",
           <<NEXT_ENTRY("ACTION_NEXT")>>)
  <2>1. \A t \in indirect_policy_tokens_names : RowOf(t, indirect_policy_tokens)
    BY RowsApart, Zenon
  <2> QED
    BY <2>1, SMT DEF indirect_policy_tokens, indirect_policy_tokens_names, RowOf, Each
<1>6. /\ token_list["ITEM_NEXT"] = Word(<<next_item>>)
      /\ token_list["ITEM_END"] = Place(NEXT_ENTRY("ACTIONS"), "void")
  <2>1. \A t \in pattern_items_names : RowOf(t, pattern_items)
    BY RowsApart, Zenon
  <2> QED
    BY <2>1, SMT DEF pattern_items, pattern_items_names, RowOf, Each
<1>7. /\ token_list["ITEM_PPPOE_PROTO_ID"] = Token("parse_vc", <<item_pppoe_proto_id,
           NEXT_ENTRY("COMMON_UNSIGNED"), item_param>>, <<"item_pppoe_proto_id">>,
           "item_pppoe_proto_id")
  <2>1. \A t \in session_items_names : RowOf(t, session_items)
    BY RowsApart, Zenon
  <2> QED
    BY <2>1, SMT DEF session_items, session_items_names, RowOf, Each
<1>8. /\ token_list["ITEM_ECPRI_COMMON"] = Word(<<item_ecpri_common>>)
      /\ token_list["ITEM_ECPRI_COMMON_TYPE"] = Token("parse_default", <<item_ecpri_common_type>>,
           <<"item_ecpri">>, "none")
  <2>1. \A t \in ecpri_items_names : RowOf(t, ecpri_items)
    BY RowsApart, Zenon
  <2> QED
    BY <2>1, SMT DEF ecpri_items, ecpri_items_names, RowOf, Each
<1>9. /\ token_list["ITEM_L2TPV2_COMMON"] = Word(<<item_l2tpv2_common>>)
      /\ token_list["ITEM_L2TPV2_COMMON_TYPE"] = Token("parse_default",
           <<item_l2tpv2_common_type>>, <<"item_l2tpv2">>, "none")
  <2>1. \A t \in l2tpv2_items_names : RowOf(t, l2tpv2_items)
    BY RowsApart, Zenon
  <2> QED
    BY <2>1, SMT DEF l2tpv2_items, l2tpv2_items_names, RowOf, Each
<1>10. /\ token_list["ACTIONS"] = Call("parse_vc", <<next_action>>)
      /\ token_list["ACTION_NEXT"] = Word(<<next_action>>)
      /\ token_list["ACTION_END"] = Token("parse_vc", <<>>, <<>>, "void")
  <2>1. \A t \in actions_tokens_names : RowOf(t, actions_tokens)
    BY RowsApart, Zenon
  <2> QED
    BY <2>1, SMT DEF actions_tokens, actions_tokens_names, RowOf, Each
<1> QED BY <1>1, <1>2, <1>3, <1>4, <1>5, <1>6, <1>7, <1>8, <1>9, <1>10, Zenon

(* What makes a token one of these.                                        *)
LEMMA HeadTokens ==
  /\ ItemHead(BareItem) /\ ActionHead(BareAction)
  /\ \A L, S : ItemList(L, S) /\ S \notin {"none", "void"} =>
       ItemHead(Token("parse_vc", <<L>>, <<>>, S))
  /\ \A c, L, S :
       /\ ActionList(L, S)
       /\ c \in {"parse_vc", "parse_vc_action_set_meta"} /\ S \notin {"none", "void"} \cup Own
       => ActionHead(Token(c, <<L>>, <<>>, S))
  /\ \A c, L, S :
       /\ ActionList(L, S)
       /\ c \in ConfiguredCalls /\ S \notin {"none", "void", "action_meter_color"}
       => ActionHead(Token(c, <<L>>, <<>>, S))
  /\ \A c, p, calls : c \in calls => ValueOf(Token(c, <<>>, <<>>, p), calls)
  /\ \A c, L, S, p : ItemList(L, S) => TypeOf(Token(c, <<L>>, <<>>, p), c, S)
  /\ \A c, L, S, p : ActionList(L, S) /\ c \in WordCalls(S) => WordOf(Token(c, <<L>>, <<>>, p), S)
  /\ \A c, L, M, S, p :
       /\ ActionList(L, S) /\ SettingList(M, S)
       /\ \/ c = "parse_default" /\ S \in Own \cup {"action_meter_color"}
          \/ c = "parse_vc_conf" /\ S # "action_meter_color"
       => SettingOf(Token(c, <<L, M>>, <<>>, p), S)
<1>1. ItemHead(BareItem) /\ ActionHead(BareAction)
  BY SMT DEF ItemHead, ActionHead, BareItem, BareAction, Place, Token, PatternList, ActionsList,
             NEXT_ENTRY
<1>2. \A L, S : ItemList(L, S) /\ S \notin {"none", "void"} =>
       ItemHead(Token("parse_vc", <<L>>, <<>>, S))
  BY SMT DEF ItemHead, Token
<1>3. \A c, L, S :
       /\ ActionList(L, S)
       /\ c \in {"parse_vc", "parse_vc_action_set_meta"} /\ S \notin {"none", "void"} \cup Own
       => ActionHead(Token(c, <<L>>, <<>>, S))
  BY SMT DEF ActionHead, Token
<1>4. \A c, L, S :
       /\ ActionList(L, S)
       /\ c \in ConfiguredCalls /\ S \notin {"none", "void", "action_meter_color"}
       => ActionHead(Token(c, <<L>>, <<>>, S))
  BY SMT DEF ActionHead, Token
<1>5. \A c, p, calls : c \in calls => ValueOf(Token(c, <<>>, <<>>, p), calls)
  BY SMT DEF ValueOf, Token
<1>6. \A c, L, S, p : ItemList(L, S) => TypeOf(Token(c, <<L>>, <<>>, p), c, S)
  BY SMT DEF TypeOf, Token
<1>7. \A c, L, S, p : ActionList(L, S) /\ c \in WordCalls(S) => WordOf(Token(c, <<L>>, <<>>, p), S)
  BY SMT DEF WordOf, Token
<1>8. \A c, L, M, S, p :
       /\ ActionList(L, S) /\ SettingList(M, S)
       /\ \/ c = "parse_default" /\ S \in Own \cup {"action_meter_color"}
          \/ c = "parse_vc_conf" /\ S # "action_meter_color"
       => SettingOf(Token(c, <<L, M>>, <<>>, p), S)
  BY SMT DEF SettingOf, Token
<1> QED BY <1>1, <1>2, <1>3, <1>4, <1>5, <1>6, <1>7, <1>8, Zenon


(* Every item but the ends and proto_id appends an entry of its structure.  *)
LEMMA ItemHeads ==
  /\ \A t \in {"ITEM_VOID", "ITEM_INVERT", "ITEM_ANY", "ITEM_PF", "ITEM_VF", "ITEM_PHY_PORT",
       "ITEM_PORT_ID", "ITEM_MARK", "ITEM_RAW"} : ItemHead(token_list[t])
  /\ \A t \in {"ITEM_ETH", "ITEM_VLAN"} : ItemHead(token_list[t])
  /\ \A t \in {"ITEM_IPV4", "ITEM_IPV6"} : ItemHead(token_list[t])
  /\ \A t \in {"ITEM_ICMP", "ITEM_UDP", "ITEM_TCP", "ITEM_SCTP"} : ItemHead(token_list[t])
  /\ \A t \in {"ITEM_VXLAN", "ITEM_E_TAG", "ITEM_NVGRE", "ITEM_MPLS", "ITEM_GRE"} :
       ItemHead(token_list[t])
  /\ \A t \in {"ITEM_FUZZY", "ITEM_GTP", "ITEM_GTPC", "ITEM_GTPU", "ITEM_GENEVE",
       "ITEM_VXLAN_GPE"} : ItemHead(token_list[t])
  /\ \A t \in {"ITEM_ARP_ETH_IPV4", "ITEM_IPV6_EXT", "ITEM_IPV6_FRAG_EXT"} :
       ItemHead(token_list[t])
  /\ \A t \in {"ITEM_ICMP6", "ITEM_ICMP6_ND_NS", "ITEM_ICMP6_ND_NA", "ITEM_ICMP6_ND_OPT",
       "ITEM_ICMP6_ND_OPT_SLA_ETH", "ITEM_ICMP6_ND_OPT_TLA_ETH", "ITEM_META"} :
       ItemHead(token_list[t])
  /\ \A t \in {"ITEM_GRE_KEY", "ITEM_GTP_PSC", "ITEM_PPPOES", "ITEM_PPPOED", "ITEM_HIGIG2",
       "ITEM_TAG"} : ItemHead(token_list[t])
  /\ \A t \in {"ITEM_L2TPV3OIP", "ITEM_ESP", "ITEM_AH", "ITEM_PFCP", "ITEM_ECPRI"} :
       ItemHead(token_list[t])
  /\ \A t \in {"ITEM_GENEVE_OPT", "ITEM_INTEGRITY", "ITEM_PORT_REPRESENTOR",
       "ITEM_REPRESENTED_PORT", "ITEM_FLEX"} : ItemHead(token_list[t])
  /\ \A t \in {"ITEM_L2TPV2", "ITEM_PPP"} : ItemHead(token_list[t])
<1>1. \A t \in {"ITEM_VOID", "ITEM_INVERT", "ITEM_ANY", "ITEM_PF", "ITEM_VF",
       "ITEM_PHY_PORT", "ITEM_PORT_ID", "ITEM_MARK", "ITEM_RAW"} : ItemHead(token_list[t])
  <2>1. \A t \in pattern_items_names : RowOf(t, pattern_items)
    BY RowsApart, Zenon
  <2> QED
    BY <2>1, HeadTokens, ItemLists, SMT DEF pattern_items, pattern_items_names, RowOf, Each,
       Word, Place, BareItem, Field
<1>2. \A t \in {"ITEM_ETH", "ITEM_VLAN"} : ItemHead(token_list[t])
  <2>1. \A t \in l2_items_names : RowOf(t, l2_items)
    BY RowsApart, Zenon
  <2> QED
    BY <2>1, HeadTokens, ItemLists, SMT DEF l2_items, l2_items_names, RowOf, Each, Place,
       Field
<1>3. \A t \in {"ITEM_IPV4", "ITEM_IPV6"} : ItemHead(token_list[t])
  <2>1. \A t \in ip_items_names : RowOf(t, ip_items)
    BY RowsApart, Zenon
  <2> QED
    BY <2>1, HeadTokens, ItemLists, SMT DEF ip_items, ip_items_names, RowOf, Each, Place,
       Field
<1>4. \A t \in {"ITEM_ICMP", "ITEM_UDP", "ITEM_TCP", "ITEM_SCTP"} : ItemHead(token_list[t])
  <2>1. \A t \in l4_items_names : RowOf(t, l4_items)
    BY RowsApart, Zenon
  <2> QED
    BY <2>1, HeadTokens, ItemLists, SMT DEF l4_items, l4_items_names, RowOf, Each, Place,
       Field
<1>5. \A t \in {"ITEM_VXLAN", "ITEM_E_TAG", "ITEM_NVGRE", "ITEM_MPLS", "ITEM_GRE"} :
       ItemHead(token_list[t])
  <2>1. \A t \in tunnel_items_names : RowOf(t, tunnel_items)
    BY RowsApart, Zenon
  <2> QED
    BY <2>1, HeadTokens, ItemLists, SMT DEF tunnel_items, tunnel_items_names, RowOf, Each,
       Place, Field
<1>6. \A t \in {"ITEM_FUZZY", "ITEM_GTP", "ITEM_GTPC", "ITEM_GTPU", "ITEM_GENEVE",
       "ITEM_VXLAN_GPE"} : ItemHead(token_list[t])
  <2>1. \A t \in gtp_geneve_items_names : RowOf(t, gtp_geneve_items)
    BY RowsApart, Zenon
  <2> QED
    BY <2>1, HeadTokens, ItemLists, SMT DEF gtp_geneve_items, gtp_geneve_items_names, RowOf,
       Each, Place, Field
<1>7. \A t \in {"ITEM_ARP_ETH_IPV4", "ITEM_IPV6_EXT", "ITEM_IPV6_FRAG_EXT"} :
       ItemHead(token_list[t])
  <2>1. \A t \in ipv6_ext_items_names : RowOf(t, ipv6_ext_items)
    BY RowsApart, Zenon
  <2> QED
    BY <2>1, HeadTokens, ItemLists, SMT DEF ipv6_ext_items, ipv6_ext_items_names, RowOf,
       Each, Place, Field
<1>8. \A t \in {"ITEM_ICMP6", "ITEM_ICMP6_ND_NS", "ITEM_ICMP6_ND_NA", "ITEM_ICMP6_ND_OPT",
       "ITEM_ICMP6_ND_OPT_SLA_ETH", "ITEM_ICMP6_ND_OPT_TLA_ETH", "ITEM_META"} :
       ItemHead(token_list[t])
  <2>1. \A t \in icmp6_items_names : RowOf(t, icmp6_items)
    BY RowsApart, Zenon
  <2> QED
    BY <2>1, HeadTokens, ItemLists, SMT DEF icmp6_items, icmp6_items_names, RowOf, Each,
       Place, Field
<1>9. \A t \in {"ITEM_GRE_KEY", "ITEM_GTP_PSC", "ITEM_PPPOES", "ITEM_PPPOED", "ITEM_HIGIG2",
       "ITEM_TAG"} : ItemHead(token_list[t])
  <2>1. \A t \in session_items_names : RowOf(t, session_items)
    BY RowsApart, Zenon
  <2> QED
    BY <2>1, HeadTokens, ItemLists, SMT DEF session_items, session_items_names, RowOf, Each,
       Place, Field
<1>10. \A t \in {"ITEM_L2TPV3OIP", "ITEM_ESP", "ITEM_AH", "ITEM_PFCP", "ITEM_ECPRI"} :
       ItemHead(token_list[t])
  <2>1. \A t \in ecpri_items_names : RowOf(t, ecpri_items)
    BY RowsApart, Zenon
  <2> QED
    BY <2>1, HeadTokens, ItemLists, SMT DEF ecpri_items, ecpri_items_names, RowOf, Each,
       Word, Call, Place, Field
<1>11. \A t \in {"ITEM_GENEVE_OPT", "ITEM_INTEGRITY", "ITEM_PORT_REPRESENTOR",
       "ITEM_REPRESENTED_PORT", "ITEM_FLEX"} : ItemHead(token_list[t])
  <2>1. \A t \in option_items_names : RowOf(t, option_items)
    BY RowsApart, Zenon
  <2> QED
    BY <2>1, HeadTokens, ItemLists, SMT DEF option_items, option_items_names, RowOf, Each,
       Place, Field
<1>12. \A t \in {"ITEM_L2TPV2", "ITEM_PPP"} : ItemHead(token_list[t])
  <2>1. \A t \in l2tpv2_items_names : RowOf(t, l2tpv2_items)
    BY RowsApart, Zenon
  <2> QED
    BY <2>1, HeadTokens, ItemLists, SMT DEF l2tpv2_items, l2tpv2_items_names, RowOf, Each,
       Word, Call, Place, Field
<1> QED BY <1>1, <1>2, <1>3, <1>4, <1>5, <1>6, <1>7, <1>8, <1>9, <1>10, <1>11, <1>12, Zenon

(* Every action but the end and an indirect one does.                      *)
LEMMA ActionHeads ==
  /\ \A t \in {"ACTION_VOID", "ACTION_PASSTHRU", "ACTION_JUMP", "ACTION_MARK", "ACTION_FLAG",
       "ACTION_QUEUE", "ACTION_DROP", "ACTION_COUNT"} : ActionHead(token_list[t])
  /\ \A t \in {"ACTION_RSS"} : ActionHead(token_list[t])
  /\ \A t \in {"ACTION_PF", "ACTION_VF", "ACTION_PHY_PORT", "ACTION_PORT_ID", "ACTION_METER",
       "ACTION_METER_COLOR", "ACTION_OF_SET_MPLS_TTL"} : ActionHead(token_list[t])
  /\ \A t \in {"ACTION_OF_DEC_MPLS_TTL", "ACTION_OF_SET_NW_TTL", "ACTION_OF_DEC_NW_TTL",
       "ACTION_OF_COPY_TTL_OUT", "ACTION_OF_COPY_TTL_IN", "ACTION_OF_POP_VLAN",
       "ACTION_OF_PUSH_VLAN", "ACTION_OF_SET_VLAN_VID", "ACTION_OF_SET_VLAN_PCP",
       "ACTION_OF_POP_MPLS", "ACTION_OF_PUSH_MPLS"} : ActionHead(token_list[t])
  /\ \A t \in {"ACTION_VXLAN_ENCAP", "ACTION_VXLAN_DECAP", "ACTION_NVGRE_ENCAP",
       "ACTION_NVGRE_DECAP", "ACTION_L2_ENCAP", "ACTION_L2_DECAP", "ACTION_MPLSOGRE_ENCAP",
       "ACTION_MPLSOGRE_DECAP", "ACTION_MPLSOUDP_ENCAP", "ACTION_MPLSOUDP_DECAP"} :
       ActionHead(token_list[t])
  /\ \A t \in {"ACTION_SET_IPV4_SRC", "ACTION_SET_IPV4_DST", "ACTION_SET_IPV6_SRC",
       "ACTION_SET_IPV6_DST", "ACTION_SET_TP_SRC", "ACTION_SET_TP_DST"} :
       ActionHead(token_list[t])
  /\ \A t \in {"ACTION_MAC_SWAP", "ACTION_DEC_TTL", "ACTION_SET_TTL", "ACTION_SET_MAC_SRC",
       "ACTION_SET_MAC_DST", "ACTION_INC_TCP_SEQ", "ACTION_DEC_TCP_SEQ",
       "ACTION_INC_TCP_ACK", "ACTION_DEC_TCP_ACK"} : ActionHead(token_list[t])
  /\ \A t \in {"ACTION_RAW_ENCAP", "ACTION_RAW_DECAP"} : ActionHead(token_list[t])
  /\ \A t \in {"ACTION_SET_TAG", "ACTION_SET_META"} : ActionHead(token_list[t])
  /\ \A t \in {"ACTION_SET_IPV4_DSCP", "ACTION_SET_IPV6_DSCP", "ACTION_AGE", "ACTION_SAMPLE",
       "ACTION_CONNTRACK", "ACTION_CONNTRACK_UPDATE", "ACTION_PORT_REPRESENTOR",
       "ACTION_REPRESENTED_PORT"} : ActionHead(token_list[t])
  /\ \A t \in {"ACTION_MODIFY_FIELD"} : ActionHead(token_list[t])
<1>1. \A t \in {"ACTION_VOID", "ACTION_PASSTHRU", "ACTION_JUMP", "ACTION_MARK",
       "ACTION_FLAG", "ACTION_QUEUE", "ACTION_DROP", "ACTION_COUNT"} :
       ActionHead(token_list[t])
  <2>1. \A t \in actions_tokens_names : RowOf(t, actions_tokens)
    BY RowsApart, Zenon
  <2> QED
    BY <2>1, HeadTokens, ActionLists, SMT DEF actions_tokens, actions_tokens_names, RowOf,
       Each, Word, Call, Place, BareAction, Conf, Own, ConfiguredCalls
<1>2. \A t \in {"ACTION_RSS"} : ActionHead(token_list[t])
  <2>1. \A t \in rss_tokens_names : RowOf(t, rss_tokens)
    BY RowsApart, Zenon
  <2> QED
    BY <2>1, HeadTokens, ActionLists, SMT DEF rss_tokens, rss_tokens_names, RowOf, Each,
       Word, Call, Own, ConfiguredCalls
<1>3. \A t \in {"ACTION_PF", "ACTION_VF", "ACTION_PHY_PORT", "ACTION_PORT_ID",
       "ACTION_METER", "ACTION_METER_COLOR", "ACTION_OF_SET_MPLS_TTL"} :
       ActionHead(token_list[t])
  <2>1. \A t \in port_meter_actions_names : RowOf(t, port_meter_actions)
    BY RowsApart, Zenon
  <2> QED
    BY <2>1, HeadTokens, ActionLists, SMT DEF port_meter_actions, port_meter_actions_names,
       RowOf, Each, Word, Call, Place, BareAction, Conf, Own, ConfiguredCalls
<1>4. \A t \in {"ACTION_OF_DEC_MPLS_TTL", "ACTION_OF_SET_NW_TTL", "ACTION_OF_DEC_NW_TTL",
       "ACTION_OF_COPY_TTL_OUT", "ACTION_OF_COPY_TTL_IN", "ACTION_OF_POP_VLAN",
       "ACTION_OF_PUSH_VLAN", "ACTION_OF_SET_VLAN_VID", "ACTION_OF_SET_VLAN_PCP",
       "ACTION_OF_POP_MPLS", "ACTION_OF_PUSH_MPLS"} : ActionHead(token_list[t])
  <2>1. \A t \in openflow_actions_names : RowOf(t, openflow_actions)
    BY RowsApart, Zenon
  <2> QED
    BY <2>1, HeadTokens, ActionLists, SMT DEF openflow_actions, openflow_actions_names,
       RowOf, Each, Place, BareAction, Conf, Own, ConfiguredCalls
<1>5. \A t \in {"ACTION_VXLAN_ENCAP", "ACTION_VXLAN_DECAP", "ACTION_NVGRE_ENCAP",
       "ACTION_NVGRE_DECAP", "ACTION_L2_ENCAP", "ACTION_L2_DECAP", "ACTION_MPLSOGRE_ENCAP",
       "ACTION_MPLSOGRE_DECAP", "ACTION_MPLSOUDP_ENCAP", "ACTION_MPLSOUDP_DECAP"} :
       ActionHead(token_list[t])
  <2>1. \A t \in encap_actions_names : RowOf(t, encap_actions)
    BY RowsApart, Zenon
  <2> QED
    BY <2>1, HeadTokens, ActionLists, SMT DEF encap_actions, encap_actions_names, RowOf,
       Each, BareAction, Place, Own, ConfiguredCalls
<1>6. \A t \in {"ACTION_SET_IPV4_SRC", "ACTION_SET_IPV4_DST", "ACTION_SET_IPV6_SRC",
       "ACTION_SET_IPV6_DST", "ACTION_SET_TP_SRC", "ACTION_SET_TP_DST"} :
       ActionHead(token_list[t])
  <2>1. \A t \in set_address_actions_names : RowOf(t, set_address_actions)
    BY RowsApart, Zenon
  <2> QED
    BY <2>1, HeadTokens, ActionLists, SMT DEF set_address_actions,
       set_address_actions_names, RowOf, Each, Place, Conf, Own, ConfiguredCalls
<1>7. \A t \in {"ACTION_MAC_SWAP", "ACTION_DEC_TTL", "ACTION_SET_TTL", "ACTION_SET_MAC_SRC",
       "ACTION_SET_MAC_DST", "ACTION_INC_TCP_SEQ", "ACTION_DEC_TCP_SEQ",
       "ACTION_INC_TCP_ACK", "ACTION_DEC_TCP_ACK"} : ActionHead(token_list[t])
  <2>1. \A t \in mac_tcp_actions_names : RowOf(t, mac_tcp_actions)
    BY RowsApart, Zenon
  <2> QED
    BY <2>1, HeadTokens, ActionLists, SMT DEF mac_tcp_actions, mac_tcp_actions_names, RowOf,
       Each, Place, BareAction, Conf, Own, ConfiguredCalls
<1>8. \A t \in {"ACTION_RAW_ENCAP", "ACTION_RAW_DECAP"} : ActionHead(token_list[t])
  <2>1. \A t \in raw_actions_names : RowOf(t, raw_actions)
    BY RowsApart, Zenon
  <2> QED
    BY <2>1, HeadTokens, ActionLists, SMT DEF raw_actions, raw_actions_names, RowOf, Each,
       Word, Call, Own, ConfiguredCalls
<1>9. \A t \in {"ACTION_SET_TAG", "ACTION_SET_META"} : ActionHead(token_list[t])
  <2>1. \A t \in set_tokens_names : RowOf(t, set_tokens)
    BY RowsApart, Zenon
  <2> QED
    BY <2>1, HeadTokens, ActionLists, SMT DEF set_tokens, set_tokens_names, RowOf, Each,
       Call, Place, Conf, Own, ConfiguredCalls
<1>10. \A t \in {"ACTION_SET_IPV4_DSCP", "ACTION_SET_IPV6_DSCP", "ACTION_AGE",
       "ACTION_SAMPLE", "ACTION_CONNTRACK", "ACTION_CONNTRACK_UPDATE",
       "ACTION_PORT_REPRESENTOR", "ACTION_REPRESENTED_PORT"} : ActionHead(token_list[t])
  <2>1. \A t \in age_sample_actions_names : RowOf(t, age_sample_actions)
    BY RowsApart, Zenon
  <2> QED
    BY <2>1, HeadTokens, ActionLists, SMT DEF age_sample_actions, age_sample_actions_names,
       RowOf, Each, Word, Call, Place, Conf, Own, ConfiguredCalls
<1>11. \A t \in {"ACTION_MODIFY_FIELD"} : ActionHead(token_list[t])
  <2>1. \A t \in modify_field_actions_names : RowOf(t, modify_field_actions)
    BY RowsApart, Zenon
  <2> QED
    BY <2>1, HeadTokens, ActionLists, SMT DEF modify_field_actions,
       modify_field_actions_names, RowOf, Each, Call, Place, Conf, Own, ConfiguredCalls
<1> QED BY <1>1, <1>2, <1>3, <1>4, <1>5, <1>6, <1>7, <1>8, <1>9, <1>10, <1>11, Zenon

(* The values, and what precedes the value of a field of an item.          *)
LEMMA ValueTokens ==
  /\ \A t \in {"COMMON_INTEGER", "COMMON_UNSIGNED", "COMMON_RULE_ID", "COMMON_GROUP_ID",
       "COMMON_PRIORITY_LEVEL", "COMMON_INDIRECT_ACTION_ID", "COMMON_POLICY_ID",
       "COMMON_FLEX_TOKEN", "COMMON_PREFIX", "COMMON_BOOLEAN", "COMMON_FILE_PATH",
       "COMMON_MAC_ADDR", "COMMON_IPV4_ADDR", "COMMON_IPV6_ADDR", "COMMON_PORT_ID",
       "COMMON_FLEX_HANDLE"} : ValueOf(token_list[t], OneCalls)
  /\ \A t \in {"COMMON_STRING", "COMMON_HEX"} : ValueOf(token_list[t], ThreeCalls)
  /\ \A t \in {"ITEM_PARAM_IS", "ITEM_PARAM_SPEC", "ITEM_PARAM_LAST", "ITEM_PARAM_MASK",
       "ITEM_PARAM_PREFIX"} : ValueOf(token_list[t], {"parse_vc_spec"})
  /\ \A t \in {"ACTION_RSS_FUNC_DEFAULT", "ACTION_RSS_FUNC_TOEPLITZ",
       "ACTION_RSS_FUNC_SIMPLE_XOR", "ACTION_RSS_FUNC_SYMMETRIC_TOEPLITZ",
       "ACTION_RSS_TYPE", "ACTION_RSS_QUEUE"} : ValueOf(token_list[t],
       SettingCalls("action_rss_data"))
  /\ \A t \in {"ACTION_MODIFY_FIELD_OP_VALUE", "ACTION_MODIFY_FIELD_DST_TYPE_VALUE",
       "ACTION_MODIFY_FIELD_SRC_TYPE_VALUE"} : ValueOf(token_list[t],
       SettingCalls("action_modify_field"))
  /\ \A t \in {"ACTION_METER_COLOR_GREEN", "ACTION_METER_COLOR_YELLOW",
       "ACTION_METER_COLOR_RED"} : ValueOf(token_list[t],
       SettingCalls("action_meter_color"))
<1>1. \A t \in {"COMMON_INTEGER", "COMMON_UNSIGNED", "COMMON_RULE_ID", "COMMON_GROUP_ID",
       "COMMON_PRIORITY_LEVEL", "COMMON_INDIRECT_ACTION_ID", "COMMON_POLICY_ID",
       "COMMON_FLEX_TOKEN", "COMMON_PREFIX", "COMMON_BOOLEAN", "COMMON_FILE_PATH",
       "COMMON_MAC_ADDR", "COMMON_IPV4_ADDR", "COMMON_IPV6_ADDR", "COMMON_PORT_ID",
       "COMMON_FLEX_HANDLE"} : ValueOf(token_list[t], OneCalls)
  <2>1. \A t \in common_tokens_names : RowOf(t, common_tokens)
    BY RowsApart, Zenon
  <2> QED
    BY <2>1, HeadTokens, SMT DEF common_tokens, common_tokens_names, RowOf, Each, Word,
       Call, OneCalls
<1>2. \A t \in {"COMMON_STRING", "COMMON_HEX"} : ValueOf(token_list[t], ThreeCalls)
  <2>1. \A t \in common_tokens_names : RowOf(t, common_tokens)
    BY RowsApart, Zenon
  <2> QED
    BY <2>1, HeadTokens, SMT DEF common_tokens, common_tokens_names, RowOf, Each, Word,
       Call, ThreeCalls
<1>3. \A t \in {"ITEM_PARAM_IS", "ITEM_PARAM_SPEC", "ITEM_PARAM_LAST", "ITEM_PARAM_MASK",
       "ITEM_PARAM_PREFIX"} : ValueOf(token_list[t], {"parse_vc_spec"})
  <2>1. \A t \in attr_tokens_names : RowOf(t, attr_tokens)
    BY RowsApart, Zenon
  <2> QED
    BY <2>1, HeadTokens, SMT DEF attr_tokens, attr_tokens_names, RowOf, Each, Call
<1>4. \A t \in {"ACTION_RSS_FUNC_DEFAULT", "ACTION_RSS_FUNC_TOEPLITZ",
       "ACTION_RSS_FUNC_SIMPLE_XOR", "ACTION_RSS_FUNC_SYMMETRIC_TOEPLITZ",
       "ACTION_RSS_TYPE", "ACTION_RSS_QUEUE"} : ValueOf(token_list[t],
       SettingCalls("action_rss_data"))
  <2>1. \A t \in rss_tokens_names : RowOf(t, rss_tokens)
    BY RowsApart, Zenon
  <2> QED
    BY <2>1, HeadTokens, SMT DEF rss_tokens, rss_tokens_names, RowOf, Each, Word, Call,
       SettingCalls
<1>5. \A t \in {"ACTION_MODIFY_FIELD_OP_VALUE", "ACTION_MODIFY_FIELD_DST_TYPE_VALUE",
       "ACTION_MODIFY_FIELD_SRC_TYPE_VALUE"} : ValueOf(token_list[t],
       SettingCalls("action_modify_field"))
  <2>1. \A t \in modify_field_actions_names : RowOf(t, modify_field_actions)
    BY RowsApart, Zenon
  <2> QED
    BY <2>1, HeadTokens, SMT DEF modify_field_actions, modify_field_actions_names, RowOf,
       Each, Call, Place, Conf, SettingCalls
<1>6. \A t \in {"ACTION_METER_COLOR_GREEN", "ACTION_METER_COLOR_YELLOW",
       "ACTION_METER_COLOR_RED"} : ValueOf(token_list[t],
       SettingCalls("action_meter_color"))
  <2>1. \A t \in port_meter_actions_names : RowOf(t, port_meter_actions)
    BY RowsApart, Zenon
  <2> QED
    BY <2>1, HeadTokens, SMT DEF port_meter_actions, port_meter_actions_names, RowOf, Each,
       Word, Call, Place, BareAction, Conf, SettingCalls
<1> QED BY <1>1, <1>2, <1>3, <1>4, <1>5, <1>6, Zenon

(* The lists of the settings.                                              *)
LEMMA ListsOfSettings ==
  /\ SettingList(action_rss_func, "action_rss_data")
  /\ SettingList(NEXT_ENTRY("ACTION_RSS_TYPE"), "action_rss_data")
  /\ SettingList(NEXT_ENTRY("ACTION_RSS_QUEUE"), "action_rss_data")
  /\ SettingList(NEXT_ENTRY("ACTION_MODIFY_FIELD_OP_VALUE"), "action_modify_field")
  /\ SettingList(NEXT_ENTRY("ACTION_MODIFY_FIELD_DST_TYPE_VALUE"), "action_modify_field")
  /\ SettingList(NEXT_ENTRY("ACTION_MODIFY_FIELD_SRC_TYPE_VALUE"), "action_modify_field")
  /\ SettingList(NEXT_ENTRY_3("ACTION_METER_COLOR_GREEN", "ACTION_METER_COLOR_YELLOW", "ACTION_METER_COLOR_RED"), "action_meter_color")
<1>1. SettingList(action_rss_func, "action_rss_data")
  BY ValueTokens, GroupsInTable, SMT DEF SettingList, rss_tokens_names, action_rss_func
<1>2. SettingList(NEXT_ENTRY("ACTION_RSS_TYPE"), "action_rss_data")
  BY ValueTokens, GroupsInTable, SMT DEF SettingList, rss_tokens_names, NEXT_ENTRY
<1>3. SettingList(NEXT_ENTRY("ACTION_RSS_QUEUE"), "action_rss_data")
  BY ValueTokens, GroupsInTable, SMT DEF SettingList, rss_tokens_names, NEXT_ENTRY
<1>4. SettingList(NEXT_ENTRY("ACTION_MODIFY_FIELD_OP_VALUE"), "action_modify_field")
  BY ValueTokens, GroupsInTable, SMT DEF SettingList, modify_field_actions_names, NEXT_ENTRY
<1>5. SettingList(NEXT_ENTRY("ACTION_MODIFY_FIELD_DST_TYPE_VALUE"), "action_modify_field")
  BY ValueTokens, GroupsInTable, SMT DEF SettingList, modify_field_actions_names, NEXT_ENTRY
<1>6. SettingList(NEXT_ENTRY("ACTION_MODIFY_FIELD_SRC_TYPE_VALUE"), "action_modify_field")
  BY ValueTokens, GroupsInTable, SMT DEF SettingList, modify_field_actions_names, NEXT_ENTRY
<1>7. SettingList(NEXT_ENTRY_3("ACTION_METER_COLOR_GREEN", "ACTION_METER_COLOR_YELLOW", "ACTION_METER_COLOR_RED"), "action_meter_color")
  BY ValueTokens, GroupsInTable, SMT DEF SettingList, port_meter_actions_names, NEXT_ENTRY_3
<1> QED BY <1>1, <1>2, <1>3, <1>4, <1>5, <1>6, <1>7, Zenon

(* The words and the settings of the actions, and the types of a header.    *)
LEMMA WordsAndTypes ==
  /\ \A t \in {"ACTION_RSS_FUNC", "ACTION_RSS_TYPES", "ACTION_RSS_QUEUES"} :
       SettingOf(token_list[t], "action_rss_data")
  /\ \A t \in {"ACTION_MODIFY_FIELD_OP", "ACTION_MODIFY_FIELD_DST_TYPE",
       "ACTION_MODIFY_FIELD_SRC_TYPE"} : SettingOf(token_list[t], "action_modify_field")
  /\ \A t \in {"ACTION_METER_COLOR_TYPE"} : SettingOf(token_list[t], "action_meter_color")
  /\ \A t \in {"ACTION_RAW_ENCAP_INDEX", "ACTION_RAW_ENCAP_INDEX_VALUE"} :
       WordOf(token_list[t], "action_raw_encap_data")
  /\ \A t \in {"ACTION_RAW_DECAP_INDEX", "ACTION_RAW_DECAP_INDEX_VALUE"} :
       WordOf(token_list[t], "action_raw_decap_data")
  /\ \A t \in {"ACTION_SAMPLE_INDEX", "ACTION_SAMPLE_INDEX_VALUE"} : WordOf(token_list[t],
       "action_sample_data")
  /\ \A t \in {"ACTION_CONNTRACK_UPDATE_DIR", "ACTION_CONNTRACK_UPDATE_CTX"} :
       WordOf(token_list[t], "modify_conntrack")
  /\ \A t \in {"ITEM_ECPRI_COMMON_TYPE_IQ_DATA", "ITEM_ECPRI_COMMON_TYPE_RTC_CTRL",
       "ITEM_ECPRI_COMMON_TYPE_DLY_MSR"} : TypeOf(token_list[t], "parse_vc_item_ecpri_type",
       "item_ecpri")
  /\ \A t \in {"ITEM_L2TPV2_COMMON_TYPE_DATA_L", "ITEM_L2TPV2_COMMON_TYPE_CTRL"} :
       TypeOf(token_list[t], "parse_vc_item_l2tpv2_type", "item_l2tpv2")
<1>1. \A t \in {"ACTION_RSS_FUNC", "ACTION_RSS_TYPES", "ACTION_RSS_QUEUES"} :
       SettingOf(token_list[t], "action_rss_data")
  <2>1. \A t \in rss_tokens_names : RowOf(t, rss_tokens)
    BY RowsApart, Zenon
  <2> QED
    BY <2>1, HeadTokens, ActionLists, ListsOfSettings, SMT DEF rss_tokens, rss_tokens_names,
       RowOf, Each, Word, Call, Own
<1>2. \A t \in {"ACTION_MODIFY_FIELD_OP", "ACTION_MODIFY_FIELD_DST_TYPE",
       "ACTION_MODIFY_FIELD_SRC_TYPE"} : SettingOf(token_list[t], "action_modify_field")
  <2>1. \A t \in modify_field_actions_names : RowOf(t, modify_field_actions)
    BY RowsApart, Zenon
  <2> QED
    BY <2>1, HeadTokens, ActionLists, ListsOfSettings, SMT DEF modify_field_actions,
       modify_field_actions_names, RowOf, Each, Call, Place, Conf, Own
<1>3. \A t \in {"ACTION_METER_COLOR_TYPE"} : SettingOf(token_list[t], "action_meter_color")
  <2>1. \A t \in port_meter_actions_names : RowOf(t, port_meter_actions)
    BY RowsApart, Zenon
  <2> QED
    BY <2>1, HeadTokens, ActionLists, ListsOfSettings, SMT DEF port_meter_actions,
       port_meter_actions_names, RowOf, Each, Word, Call, Place, BareAction, Conf, Own
<1>4. \A t \in {"ACTION_RAW_ENCAP_INDEX", "ACTION_RAW_ENCAP_INDEX_VALUE"} :
       WordOf(token_list[t], "action_raw_encap_data")
  <2>1. \A t \in raw_actions_names : RowOf(t, raw_actions)
    BY RowsApart, Zenon
  <2> QED
    BY <2>1, HeadTokens, ActionLists, SMT DEF raw_actions, raw_actions_names, RowOf, Each,
       Word, Call, WordCalls
<1>5. \A t \in {"ACTION_RAW_DECAP_INDEX", "ACTION_RAW_DECAP_INDEX_VALUE"} :
       WordOf(token_list[t], "action_raw_decap_data")
  <2>1. \A t \in raw_actions_names : RowOf(t, raw_actions)
    BY RowsApart, Zenon
  <2> QED
    BY <2>1, HeadTokens, ActionLists, SMT DEF raw_actions, raw_actions_names, RowOf, Each,
       Word, Call, WordCalls
<1>6. \A t \in {"ACTION_SAMPLE_INDEX", "ACTION_SAMPLE_INDEX_VALUE"} : WordOf(token_list[t],
       "action_sample_data")
  <2>1. \A t \in age_sample_actions_names : RowOf(t, age_sample_actions)
    BY RowsApart, Zenon
  <2> QED
    BY <2>1, HeadTokens, ActionLists, SMT DEF age_sample_actions, age_sample_actions_names,
       RowOf, Each, Word, Call, Place, Conf, WordCalls
<1>7. \A t \in {"ACTION_CONNTRACK_UPDATE_DIR", "ACTION_CONNTRACK_UPDATE_CTX"} :
       WordOf(token_list[t], "modify_conntrack")
  <2>1. \A t \in age_sample_actions_names : RowOf(t, age_sample_actions)
    BY RowsApart, Zenon
  <2> QED
    BY <2>1, HeadTokens, ActionLists, SMT DEF age_sample_actions, age_sample_actions_names,
       RowOf, Each, Word, Call, Place, Conf, WordCalls
<1>8. \A t \in {"ITEM_ECPRI_COMMON_TYPE_IQ_DATA", "ITEM_ECPRI_COMMON_TYPE_RTC_CTRL",
       "ITEM_ECPRI_COMMON_TYPE_DLY_MSR"} : TypeOf(token_list[t], "parse_vc_item_ecpri_type",
       "item_ecpri")
  <2>1. \A t \in ecpri_items_names : RowOf(t, ecpri_items)
    BY RowsApart, Zenon
  <2> QED
    BY <2>1, HeadTokens, ItemLists, SMT DEF ecpri_items, ecpri_items_names, RowOf, Each,
       Word, Call, Place, Field
<1>9. \A t \in {"ITEM_L2TPV2_COMMON_TYPE_DATA_L", "ITEM_L2TPV2_COMMON_TYPE_CTRL"} :
       TypeOf(token_list[t], "parse_vc_item_l2tpv2_type", "item_l2tpv2")
  <2>1. \A t \in l2tpv2_items_names : RowOf(t, l2tpv2_items)
    BY RowsApart, Zenon
  <2> QED
    BY <2>1, HeadTokens, ItemLists, SMT DEF l2tpv2_items, l2tpv2_items_names, RowOf, Each,
       Word, Call, Place, Field
<1> QED BY <1>1, <1>2, <1>3, <1>4, <1>5, <1>6, <1>7, <1>8, <1>9, Zenon
===============================================================================
