--------------------------- MODULE FlowParser_proofs ---------------------------
(***************************************************************************)
(* Theorems about the parser of the flow commands, for stacks of any size. *)
(***************************************************************************)
EXTENDS FlowParser, FlowTokens_proofs

-----------------------------------------------------------------------------
(* The callbacks.                                                          *)

Parse(t, token) == parse_command(t, token) \/ parse_rule(t, token) \/ parse_value(t, token)

(* A token is accepted by the callback the table gives it: commands.       *)
LEMMA CallsOfCommands ==
  ASSUME NEW t, NEW token
  PROVE  /\ parse_default(t, token) => token.call = "parse_default"
         /\ parse_init(t, token) => token.call = "parse_init"
         /\ parse_ia(t, token) => token.call = "parse_ia"
         /\ parse_ia_destroy(t, token) => token.call = "parse_ia_destroy"
         /\ parse_mp(t, token) => token.call = "parse_mp"
         /\ parse_destroy(t, token) => token.call = "parse_destroy"
         /\ parse_list(t, token) => token.call = "parse_list"
         /\ parse_flush(t, token) => token.call = "parse_flush"
         /\ parse_query(t, token) => token.call = "parse_query"
         /\ parse_aged(t, token) => token.call = "parse_aged"
         /\ parse_isolate(t, token) => token.call = "parse_isolate"
         /\ parse_dump(t, token) => token.call = "parse_dump"
         /\ parse_flex(t, token) => token.call = "parse_flex"
         /\ parse_tunnel(t, token) => token.call = "parse_tunnel"
         /\ parse_set_init(t, token) => token.call = "parse_set_init"
         /\ parse_set_raw_encap_decap(t, token) => token.call = "parse_set_raw_encap_decap"
         /\ parse_set_sample_action(t, token) => token.call = "parse_set_sample_action"
<1>1. parse_default(t, token) => token.call = "parse_default"
  BY Zenon DEF parse_default
<1>2. parse_init(t, token) => token.call = "parse_init"
  BY Zenon DEF parse_init
<1>3. parse_ia(t, token) => token.call = "parse_ia"
  BY Zenon DEF parse_ia
<1>4. parse_ia_destroy(t, token) => token.call = "parse_ia_destroy"
  BY Zenon DEF parse_ia_destroy
<1>5. parse_mp(t, token) => token.call = "parse_mp"
  BY Zenon DEF parse_mp
<1>6. parse_destroy(t, token) => token.call = "parse_destroy"
  BY Zenon DEF parse_destroy
<1>7. parse_list(t, token) => token.call = "parse_list"
  BY Zenon DEF parse_list
<1>8. parse_flush(t, token) => token.call = "parse_flush"
  BY Zenon DEF parse_flush
<1>9. parse_query(t, token) => token.call = "parse_query"
  BY Zenon DEF parse_query
<1>10. parse_aged(t, token) => token.call = "parse_aged"
  BY Zenon DEF parse_aged
<1>11. parse_isolate(t, token) => token.call = "parse_isolate"
  BY Zenon DEF parse_isolate
<1>12. parse_dump(t, token) => token.call = "parse_dump"
  BY Zenon DEF parse_dump
<1>13. parse_flex(t, token) => token.call = "parse_flex"
  BY Zenon DEF parse_flex
<1>14. parse_tunnel(t, token) => token.call = "parse_tunnel"
  BY Zenon DEF parse_tunnel
<1>15. parse_set_init(t, token) => token.call = "parse_set_init"
  BY Zenon DEF parse_set_init
<1>16. parse_set_raw_encap_decap(t, token) => token.call = "parse_set_raw_encap_decap"
  BY Zenon DEF parse_set_raw_encap_decap
<1>17. parse_set_sample_action(t, token) => token.call = "parse_set_sample_action"
  BY Zenon DEF parse_set_sample_action
<1> QED BY <1>1, <1>2, <1>3, <1>4, <1>5, <1>6, <1>7, <1>8, <1>9, <1>10, <1>11, <1>12, <1>13,
   <1>14, <1>15, <1>16, <1>17, Zenon

(* The same of the callbacks of rules.                                     *)
LEMMA CallsOfRules ==
  ASSUME NEW t, NEW token
  PROVE  /\ parse_vc(t, token) => token.call = "parse_vc"
         /\ parse_vc_spec(t, token) => token.call = "parse_vc_spec"
         /\ parse_vc_conf(t, token) => token.call = "parse_vc_conf"
         /\ parse_vc_item_ecpri_type(t, token) => token.call = "parse_vc_item_ecpri_type"
         /\ parse_vc_item_l2tpv2_type(t, token) => token.call = "parse_vc_item_l2tpv2_type"
         /\ parse_vc_action_rss(t, token) => token.call = "parse_vc_action_rss"
         /\ parse_vc_action_vxlan_encap(t, token) => token.call = "parse_vc_action_vxlan_encap"
         /\ parse_vc_action_nvgre_encap(t, token) => token.call = "parse_vc_action_nvgre_encap"
         /\ parse_vc_action_l2_encap(t, token) => token.call = "parse_vc_action_l2_encap"
         /\ parse_vc_action_l2_decap(t, token) => token.call = "parse_vc_action_l2_decap"
         /\ parse_vc_action_mplsogre_encap(t, token) => token.call = "parse_vc_action_mplsogre_encap"
         /\ parse_vc_action_mplsogre_decap(t, token) => token.call = "parse_vc_action_mplsogre_decap"
         /\ parse_vc_action_mplsoudp_encap(t, token) => token.call = "parse_vc_action_mplsoudp_encap"
         /\ parse_vc_action_mplsoudp_decap(t, token) => token.call = "parse_vc_action_mplsoudp_decap"
         /\ parse_vc_action_raw_encap(t, token) => token.call = "parse_vc_action_raw_encap"
         /\ parse_vc_action_raw_decap(t, token) => token.call = "parse_vc_action_raw_decap"
         /\ parse_vc_action_sample(t, token) => token.call = "parse_vc_action_sample"
         /\ parse_vc_action_set_meta(t, token) => token.call = "parse_vc_action_set_meta"
         /\ parse_vc_action_meter_color_type(t, token) => token.call = "parse_vc_action_meter_color_type"
         /\ parse_vc_action_rss_func(t, token) => token.call = "parse_vc_action_rss_func"
         /\ parse_vc_modify_field_op(t, token) => token.call = "parse_vc_modify_field_op"
         /\ parse_vc_modify_field_id(t, token) => token.call = "parse_vc_modify_field_id"
         /\ parse_vc_action_conntrack_update(t, token) => token.call = "parse_vc_action_conntrack_update"
         /\ parse_vc_action_raw_encap_index(t, token) => token.call = "parse_vc_action_raw_encap_index"
         /\ parse_vc_action_raw_decap_index(t, token) => token.call = "parse_vc_action_raw_decap_index"
         /\ parse_vc_action_sample_index(t, token) => token.call = "parse_vc_action_sample_index"
         /\ parse_vc_action_rss_type(t, token) => token.call = "parse_vc_action_rss_type"
         /\ parse_vc_action_rss_queue(t, token) => token.call = "parse_vc_action_rss_queue"
<1>1. parse_vc(t, token) => token.call = "parse_vc"
  BY Zenon DEF parse_vc
<1>2. parse_vc_spec(t, token) => token.call = "parse_vc_spec"
  BY Zenon DEF parse_vc_spec
<1>3. parse_vc_conf(t, token) => token.call = "parse_vc_conf"
  BY Zenon DEF parse_vc_conf
<1>4. parse_vc_item_ecpri_type(t, token) => token.call = "parse_vc_item_ecpri_type"
  BY Zenon DEF parse_vc_item_ecpri_type
<1>5. parse_vc_item_l2tpv2_type(t, token) => token.call = "parse_vc_item_l2tpv2_type"
  BY Zenon DEF parse_vc_item_l2tpv2_type
<1>6. parse_vc_action_rss(t, token) => token.call = "parse_vc_action_rss"
  BY Zenon DEF parse_vc_action_rss
<1>7. parse_vc_action_vxlan_encap(t, token) => token.call = "parse_vc_action_vxlan_encap"
  BY Zenon DEF parse_vc_action_vxlan_encap
<1>8. parse_vc_action_nvgre_encap(t, token) => token.call = "parse_vc_action_nvgre_encap"
  BY Zenon DEF parse_vc_action_nvgre_encap
<1>9. parse_vc_action_l2_encap(t, token) => token.call = "parse_vc_action_l2_encap"
  BY Zenon DEF parse_vc_action_l2_encap
<1>10. parse_vc_action_l2_decap(t, token) => token.call = "parse_vc_action_l2_decap"
  BY Zenon DEF parse_vc_action_l2_decap
<1>11. parse_vc_action_mplsogre_encap(t, token) => token.call = "parse_vc_action_mplsogre_encap"
  BY Zenon DEF parse_vc_action_mplsogre_encap
<1>12. parse_vc_action_mplsogre_decap(t, token) => token.call = "parse_vc_action_mplsogre_decap"
  BY Zenon DEF parse_vc_action_mplsogre_decap
<1>13. parse_vc_action_mplsoudp_encap(t, token) => token.call = "parse_vc_action_mplsoudp_encap"
  BY Zenon DEF parse_vc_action_mplsoudp_encap
<1>14. parse_vc_action_mplsoudp_decap(t, token) => token.call = "parse_vc_action_mplsoudp_decap"
  BY Zenon DEF parse_vc_action_mplsoudp_decap
<1>15. parse_vc_action_raw_encap(t, token) => token.call = "parse_vc_action_raw_encap"
  BY Zenon DEF parse_vc_action_raw_encap
<1>16. parse_vc_action_raw_decap(t, token) => token.call = "parse_vc_action_raw_decap"
  BY Zenon DEF parse_vc_action_raw_decap
<1>17. parse_vc_action_sample(t, token) => token.call = "parse_vc_action_sample"
  BY Zenon DEF parse_vc_action_sample
<1>18. parse_vc_action_set_meta(t, token) => token.call = "parse_vc_action_set_meta"
  BY Zenon DEF parse_vc_action_set_meta
<1>19. parse_vc_action_meter_color_type(t, token) => token.call = "parse_vc_action_meter_color_type"
  BY Zenon DEF parse_vc_action_meter_color_type
<1>20. parse_vc_action_rss_func(t, token) => token.call = "parse_vc_action_rss_func"
  BY Zenon DEF parse_vc_action_rss_func
<1>21. parse_vc_modify_field_op(t, token) => token.call = "parse_vc_modify_field_op"
  BY Zenon DEF parse_vc_modify_field_op
<1>22. parse_vc_modify_field_id(t, token) => token.call = "parse_vc_modify_field_id"
  BY Zenon DEF parse_vc_modify_field_id
<1>23. parse_vc_action_conntrack_update(t, token) => token.call = "parse_vc_action_conntrack_update"
  BY Zenon DEF parse_vc_action_conntrack_update
<1>24. parse_vc_action_raw_encap_index(t, token) => token.call = "parse_vc_action_raw_encap_index"
  BY Zenon DEF parse_vc_action_raw_encap_index
<1>25. parse_vc_action_raw_decap_index(t, token) => token.call = "parse_vc_action_raw_decap_index"
  BY Zenon DEF parse_vc_action_raw_decap_index
<1>26. parse_vc_action_sample_index(t, token) => token.call = "parse_vc_action_sample_index"
  BY Zenon DEF parse_vc_action_sample_index
<1>27. parse_vc_action_rss_type(t, token) => token.call = "parse_vc_action_rss_type"
  BY Zenon DEF parse_vc_action_rss_type
<1>28. parse_vc_action_rss_queue(t, token) => token.call = "parse_vc_action_rss_queue"
  BY Zenon DEF parse_vc_action_rss_queue
<1> QED BY <1>1, <1>2, <1>3, <1>4, <1>5, <1>6, <1>7, <1>8, <1>9, <1>10, <1>11, <1>12, <1>13,
   <1>14, <1>15, <1>16, <1>17, <1>18, <1>19, <1>20, <1>21, <1>22, <1>23, <1>24, <1>25,
   <1>26, <1>27, <1>28, Zenon

(* The same of the callbacks of values.                                    *)
LEMMA CallsOfValues ==
  ASSUME NEW t, NEW token
  PROVE  /\ parse_prefix(t, token) => token.call = "parse_prefix"
         /\ parse_int(t, token) => token.call = "parse_int"
         /\ parse_boolean(t, token) => token.call = "parse_boolean"
         /\ parse_string0(t, token) => token.call = "parse_string0"
         /\ parse_mac_addr(t, token) => token.call = "parse_mac_addr"
         /\ parse_ipv4_addr(t, token) => token.call = "parse_ipv4_addr"
         /\ parse_ipv6_addr(t, token) => token.call = "parse_ipv6_addr"
         /\ parse_port(t, token) => token.call = "parse_port"
         /\ parse_flex_handle(t, token) => token.call = "parse_flex_handle"
         /\ parse_action(t, token) => token.call = "parse_action"
         /\ parse_string(t, token) => token.call = "parse_string"
         /\ parse_hex(t, token) => token.call = "parse_hex"
         /\ parse_ia_id2ptr(t, token) => token.call = "parse_ia_id2ptr"
<1>1. parse_prefix(t, token) => token.call = "parse_prefix"
  BY Zenon DEF parse_prefix
<1>2. parse_int(t, token) => token.call = "parse_int"
  BY Zenon DEF parse_int
<1>3. parse_boolean(t, token) => token.call = "parse_boolean"
  BY Zenon DEF parse_boolean
<1>4. parse_string0(t, token) => token.call = "parse_string0"
  BY Zenon DEF parse_string0
<1>5. parse_mac_addr(t, token) => token.call = "parse_mac_addr"
  BY Zenon DEF parse_mac_addr
<1>6. parse_ipv4_addr(t, token) => token.call = "parse_ipv4_addr"
  BY Zenon DEF parse_ipv4_addr
<1>7. parse_ipv6_addr(t, token) => token.call = "parse_ipv6_addr"
  BY Zenon DEF parse_ipv6_addr
<1>8. parse_port(t, token) => token.call = "parse_port"
  BY Zenon DEF parse_port
<1>9. parse_flex_handle(t, token) => token.call = "parse_flex_handle"
  BY Zenon DEF parse_flex_handle
<1>10. parse_action(t, token) => token.call = "parse_action"
  BY Zenon DEF parse_action
<1>11. parse_string(t, token) => token.call = "parse_string"
  BY Zenon DEF parse_string
<1>12. parse_hex(t, token) => token.call = "parse_hex"
  BY Zenon DEF parse_hex
<1>13. parse_ia_id2ptr(t, token) => token.call = "parse_ia_id2ptr"
  BY Zenon DEF parse_ia_id2ptr
<1> QED BY <1>1, <1>2, <1>3, <1>4, <1>5, <1>6, <1>7, <1>8, <1>9, <1>10, <1>11, <1>12, <1>13,
   Zenon

(* So the call of the token tells which one it was.                        *)
LEMMA CallOf ==
  ASSUME NEW t, NEW token, Parse(t, token)
  PROVE  /\ token.call = "parse_default" => parse_default(t, token)
         /\ token.call = "parse_init" => parse_init(t, token)
         /\ token.call = "parse_ia" => parse_ia(t, token)
         /\ token.call = "parse_ia_destroy" => parse_ia_destroy(t, token)
         /\ token.call = "parse_mp" => parse_mp(t, token)
         /\ token.call = "parse_destroy" => parse_destroy(t, token)
         /\ token.call = "parse_list" => parse_list(t, token)
         /\ token.call = "parse_flush" => parse_flush(t, token)
         /\ token.call = "parse_query" => parse_query(t, token)
         /\ token.call = "parse_aged" => parse_aged(t, token)
         /\ token.call = "parse_isolate" => parse_isolate(t, token)
         /\ token.call = "parse_dump" => parse_dump(t, token)
         /\ token.call = "parse_flex" => parse_flex(t, token)
         /\ token.call = "parse_tunnel" => parse_tunnel(t, token)
         /\ token.call = "parse_set_init" => parse_set_init(t, token)
         /\ token.call = "parse_set_raw_encap_decap" => parse_set_raw_encap_decap(t, token)
         /\ token.call = "parse_set_sample_action" => parse_set_sample_action(t, token)
         /\ token.call = "parse_vc" => parse_vc(t, token)
         /\ token.call = "parse_vc_spec" => parse_vc_spec(t, token)
         /\ token.call = "parse_vc_conf" => parse_vc_conf(t, token)
         /\ token.call = "parse_vc_item_ecpri_type" => parse_vc_item_ecpri_type(t, token)
         /\ token.call = "parse_vc_item_l2tpv2_type" => parse_vc_item_l2tpv2_type(t, token)
         /\ token.call = "parse_vc_action_rss" => parse_vc_action_rss(t, token)
         /\ token.call = "parse_vc_action_vxlan_encap" => parse_vc_action_vxlan_encap(t, token)
         /\ token.call = "parse_vc_action_nvgre_encap" => parse_vc_action_nvgre_encap(t, token)
         /\ token.call = "parse_vc_action_l2_encap" => parse_vc_action_l2_encap(t, token)
         /\ token.call = "parse_vc_action_l2_decap" => parse_vc_action_l2_decap(t, token)
         /\ token.call = "parse_vc_action_mplsogre_encap" => parse_vc_action_mplsogre_encap(t, token)
         /\ token.call = "parse_vc_action_mplsogre_decap" => parse_vc_action_mplsogre_decap(t, token)
         /\ token.call = "parse_vc_action_mplsoudp_encap" => parse_vc_action_mplsoudp_encap(t, token)
         /\ token.call = "parse_vc_action_mplsoudp_decap" => parse_vc_action_mplsoudp_decap(t, token)
         /\ token.call = "parse_vc_action_raw_encap" => parse_vc_action_raw_encap(t, token)
         /\ token.call = "parse_vc_action_raw_decap" => parse_vc_action_raw_decap(t, token)
         /\ token.call = "parse_vc_action_sample" => parse_vc_action_sample(t, token)
         /\ token.call = "parse_vc_action_set_meta" => parse_vc_action_set_meta(t, token)
         /\ token.call = "parse_vc_action_meter_color_type" => parse_vc_action_meter_color_type(t, token)
         /\ token.call = "parse_vc_action_rss_func" => parse_vc_action_rss_func(t, token)
         /\ token.call = "parse_vc_modify_field_op" => parse_vc_modify_field_op(t, token)
         /\ token.call = "parse_vc_modify_field_id" => parse_vc_modify_field_id(t, token)
         /\ token.call = "parse_vc_action_conntrack_update" => parse_vc_action_conntrack_update(t, token)
         /\ token.call = "parse_vc_action_raw_encap_index" => parse_vc_action_raw_encap_index(t, token)
         /\ token.call = "parse_vc_action_raw_decap_index" => parse_vc_action_raw_decap_index(t, token)
         /\ token.call = "parse_vc_action_sample_index" => parse_vc_action_sample_index(t, token)
         /\ token.call = "parse_vc_action_rss_type" => parse_vc_action_rss_type(t, token)
         /\ token.call = "parse_vc_action_rss_queue" => parse_vc_action_rss_queue(t, token)
         /\ token.call = "parse_prefix" => parse_prefix(t, token)
         /\ token.call = "parse_int" => parse_int(t, token)
         /\ token.call = "parse_boolean" => parse_boolean(t, token)
         /\ token.call = "parse_string0" => parse_string0(t, token)
         /\ token.call = "parse_mac_addr" => parse_mac_addr(t, token)
         /\ token.call = "parse_ipv4_addr" => parse_ipv4_addr(t, token)
         /\ token.call = "parse_ipv6_addr" => parse_ipv6_addr(t, token)
         /\ token.call = "parse_port" => parse_port(t, token)
         /\ token.call = "parse_flex_handle" => parse_flex_handle(t, token)
         /\ token.call = "parse_action" => parse_action(t, token)
         /\ token.call = "parse_string" => parse_string(t, token)
         /\ token.call = "parse_hex" => parse_hex(t, token)
         /\ token.call = "parse_ia_id2ptr" => parse_ia_id2ptr(t, token)
  BY CallsOfCommands, CallsOfRules, CallsOfValues, SMT DEF Parse, parse_command, parse_rule,
     parse_value

-----------------------------------------------------------------------------
(* The stacks.                                                             *)

\* The lists 1 to m of token b above the first q of the tail of a policy.
Stack(q, b, m) ==
  [i \in 1 .. q + m |-> IF i <= q THEN [by |-> "ITEM_POL_POLICY", n |-> i]
                                  ELSE [by |-> b, n |-> i - q]]

\* The arguments 1 to r of token b are the last on the stack.
Pending(b, r) ==
  /\ Len(args) >= r
  /\ \A i \in 1 .. r : args[Len(args) - r + i] = [by |-> b, n |-> i]

\* The stack of lists when a token is read, and after it.
Above(t, token) == [i \in DOMAIN token.next |-> [by |-> t, n |-> i]]

(* The last entry of the stack, and what is left below it.                 *)
LEMMA StackFacts ==
  ASSUME NEW q \in Nat, NEW m \in Nat, NEW b
  PROVE  /\ Len(Stack(q, b, m)) = q + m
         /\ DOMAIN Stack(q, b, m) = 1 .. q + m
         /\ q + m = 0 => Stack(q, b, m) = <<>>
         /\ \A i \in 1 .. q + m :
              Stack(q, b, m)[i] = IF i <= q THEN [by |-> "ITEM_POL_POLICY", n |-> i]
                                            ELSE [by |-> b, n |-> i - q]
         /\ m > 0 => /\ Stack(q, b, m) # <<>>
                     /\ Last(Stack(q, b, m)) = [by |-> b, n |-> m]
                     /\ Front(Stack(q, b, m)) = Stack(q, b, m - 1)
<1>1. /\ Len(Stack(q, b, m)) = q + m
      /\ DOMAIN Stack(q, b, m) = 1 .. q + m
      /\ \A i \in 1 .. q + m :
           Stack(q, b, m)[i] = IF i <= q THEN [by |-> "ITEM_POL_POLICY", n |-> i]
                                         ELSE [by |-> b, n |-> i - q]
  BY SMT DEF Stack
<1>2. q + m = 0 => Stack(q, b, m) = <<>>
  BY SMT DEF Stack
<1>3. ASSUME m > 0
      PROVE  /\ Stack(q, b, m) # <<>>
             /\ Last(Stack(q, b, m)) = [by |-> b, n |-> m]
  BY <1>1, <1>3, SMT DEF Last
<1>4. ASSUME m > 0
      PROVE  Front(Stack(q, b, m)) = Stack(q, b, m - 1)
  BY <1>4, SMT DEF Front, Stack
<1> QED
  BY <1>1, <1>2, <1>3, <1>4, Zenon

(* A token that pushes no list uncovers the one below; one that pushes its *)
(* own takes the place of a list that is the only one of its token.        *)
TopReplaced(q, m, b, t, token) ==
  /\ token.next = <<>> =>
       Front(Stack(q, b, m)) \o Above(t, token) = Stack(q, b, m - 1)
  /\ m = 1 =>
       Front(Stack(q, b, m)) \o Above(t, token) = Stack(q, t, Len(token.next))

\* Whatever the token and the list that is on top.
LEMMA StackPush ==
  ASSUME NEW q \in Nat, NEW m \in Nat, m > 0, NEW b, NEW t, NEW token, WellFormed(token)
  PROVE  TopReplaced(q, m, b, t, token)
<1>1. Front(Stack(q, b, m)) = Stack(q, b, m - 1)
  BY StackFacts, ZenonT(60)
<1>2. ASSUME token.next = <<>>
      PROVE  Stack(q, b, m - 1) \o Above(t, token) = Stack(q, b, m - 1)
  BY <1>2, SMT DEF Stack, Above
<1>3. Stack(q, b, 0) \o Above(t, token) = Stack(q, t, Len(token.next))
  <2> DEFINE E == [by : {b, t, "ITEM_POL_POLICY"}, n : Int]
             A == Stack(q, b, 0)
             B == Above(t, token)
             C == Stack(q, t, Len(token.next))
  <2>1. A \in Seq(E) /\ Len(A) = q
    BY SMT DEF Stack
  <2>2. Len(token.next) \in Nat /\ DOMAIN token.next = 1 .. Len(token.next)
    BY SMT DEF WellFormed
  <2>3. B \in Seq(E) /\ Len(B) = Len(token.next)
    BY <2>2, SMT DEF Above
  <2>4. C \in Seq(E) /\ Len(C) = q + Len(token.next)
    <3>1. q + Len(token.next) \in Nat
      BY <2>2, SMT
    <3>2. C \in [1 .. q + Len(token.next) -> E]
      BY <2>2, SMT DEF Stack
    <3> HIDE DEF C, E
    <3> QED
      BY <3>1, <3>2, SMT
  <2>5. \A i \in 1 .. Len(C) : (A \o B)[i] = C[i]
    BY <2>1, <2>2, <2>3, <2>4, SMT DEF Stack, Above
  <2> HIDE DEF E, A, B, C
  <2>6. A \o B \in Seq(E) /\ Len(A \o B) = Len(A) + Len(B)
    BY <2>1, <2>3, ConcatProperties, Zenon
  <2>7. Len(A \o B) = Len(C)
    BY <2>1, <2>3, <2>4, <2>6, SMT
  <2>8. A \o B = C
    BY <2>4, <2>5, <2>6, <2>7, SeqEqual, Zenon
  <2> QED
    BY <2>8, Zenon DEF A, B, C
<1>4. ASSUME m = 1
      PROVE  Front(Stack(q, b, m)) = Stack(q, b, 0)
  BY <1>1, <1>4, SMT
<1> QED
  BY <1>1, <1>2, <1>3, <1>4, Zenon DEF TopReplaced

-----------------------------------------------------------------------------
(* Types.                                                                  *)

\* The type invariant without the bounds of the counters.
Buffer ==
  [command : Tokens, data : Structs, area : {"none", "pattern", "actions"}, items : BOOLEAN,
   item_ends : Nat, action_ends : Nat]
Typed ==
  /\ curr \in Tokens
  /\ next \in Seq(OnStack) /\ Len(next) <= CTX_STACK_SIZE
  /\ args \in Seq(OnStack) /\ Len(args) <= CTX_STACK_SIZE
  /\ object \in Structs /\ objdata \in Structs
  /\ out \in Buffer
  /\ phase \in {"reading", "done", "refused"}
Ends == out.item_ends \in 0..1 /\ out.action_ends \in 0..3

\* Every entry is a list of the token it names.
Named(stack) ==
  \A i \in DOMAIN stack :
    stack[i].n = 0 \/ stack[i].n \in DOMAIN token_list[stack[i].by].next
Grammatical == Named(next)

\* The type invariant is the typing of the variables and what holds at the
\* end of a line.
LEMMA TypedOK == TypeOK <=> Typed /\ Ends
  BY SMT DEF TypeOK, Typed, Ends, Buffer, Tokens

(* The tokens offered are tokens of the table.                             *)
LEMMA ExpectedTokens ==
  ASSUME Typed, Grammatical
  PROVE  /\ Expected \subseteq Tokens
         /\ Expected # {} => next # <<>>
<1>1. "COMMON_PREFIX" \in Tokens
  BY GroupsInTable, SMT DEF common_tokens_names
<1>2. ASSUME next # <<>>
      PROVE  List(Last(next)) \subseteq Tokens
  <2>1. /\ Len(next) \in DOMAIN next
        /\ next[Len(next)] = Last(next)
        /\ Last(next) \in OnStack
    BY <1>2, SMT DEF Typed, Last
  <2>2. Last(next).n = 0 \/ Last(next).n \in DOMAIN token_list[Last(next).by].next
    BY <2>1, Zenon DEF Grammatical, Named
  <2>3. Last(next).by \in Tokens
    BY <2>1, SMT DEF OnStack, Tokens
  <2>4. token_list[Last(next).by].next \in Seq(Listed)
    BY <2>3, WellFormedTable, Zenon DEF WellFormed
  <2>5. ASSUME Last(next).n # 0
        PROVE  token_list[Last(next).by].next[Last(next).n] \in Listed
    BY <2>2, <2>4, <2>5, SMT
  <2> QED
    BY <1>1, <2>5, SMT DEF List, Listed
<1> QED
  BY <1>2, SMT DEF Expected

(* What is pushed for a token is on the stacks of the next state.          *)
LEMMA PushTyped ==
  ASSUME Typed, NEW t \in Tokens, NEW lists \in Seq(OnStack), lists # <<>>, Named(lists),
         NEW left \in Seq(OnStack), Push(t, token_list[t], lists, left)
  PROVE  /\ curr' \in Tokens
         /\ next' \in Seq(OnStack) /\ Len(next') <= CTX_STACK_SIZE
         /\ args' \in Seq(OnStack) /\ Len(args') <= CTX_STACK_SIZE
         /\ phase' \in {"reading", "done", "refused"}
         /\ Named(next')
<1> DEFINE token == token_list[t]
           N == Above(t, token)
           A == [i \in DOMAIN token.args |-> [by |-> t, n |-> i]]
           nx == Front(lists) \o N
           ar == left \o A
           Entry == [by : Tokens, n : Nat]
<1>1. WellFormed(token)
  BY WellFormedTable, Zenon
<1>2. /\ N \in Seq(Entry) /\ Len(N) = Len(token.next)
      /\ \A i \in 1 .. Len(N) : N[i] = [by |-> t, n |-> i] /\ i \in DOMAIN token.next
  <2> HIDE DEF token
  <2>1. Len(token.next) \in Nat /\ DOMAIN token.next = 1 .. Len(token.next)
    BY <1>1, SMT DEF WellFormed
  <2>2. Len(N) = Len(token.next)
    BY <2>1, SMT DEF Above
  <2> QED
    BY <2>1, <2>2, SMT DEF Above
<1>3. /\ A \in Seq(Entry) /\ Len(A) = Len(token.args)
      /\ \A i \in 1 .. Len(A) : A[i] = [by |-> t, n |-> i]
  <2> HIDE DEF token
  <2>1. Len(token.args) \in Nat /\ DOMAIN token.args = 1 .. Len(token.args)
    BY <1>1, SMT DEF WellFormed
  <2>2. Len(A) = Len(token.args)
    BY <2>1, SMT
  <2> QED
    BY <2>1, <2>2, SMT
<1>4. OnStack \subseteq Entry
  BY StackAssumption, SMT DEF OnStack, Tokens
<1>5. /\ Front(lists) \in Seq(OnStack)
      /\ \A i \in 1 .. Len(Front(lists)) : i \in DOMAIN lists /\ Front(lists)[i] = lists[i]
  BY SMT DEF Front
<1>6. /\ nx \in Seq(Entry) /\ Len(nx) = Len(Front(lists)) + Len(N)
      /\ \A i \in 1 .. Len(nx) :
           nx[i] = IF i <= Len(Front(lists)) THEN Front(lists)[i] ELSE N[i - Len(Front(lists))]
  <2> HIDE DEF Entry, N
  <2>1. Front(lists) \in Seq(Entry) /\ N \in Seq(Entry)
    BY <1>2, <1>4, <1>5, SeqMonotonic, Zenon
  <2> QED
    BY <2>1, ConcatProperties, Zenon
<1>7. /\ ar \in Seq(Entry) /\ Len(ar) = Len(left) + Len(A)
      /\ \A i \in 1 .. Len(ar) :
           ar[i] = IF i <= Len(left) THEN left[i] ELSE A[i - Len(left)]
  <2> HIDE DEF Entry, A
  <2>1. left \in Seq(Entry) /\ A \in Seq(Entry)
    BY <1>3, <1>4, SeqMonotonic, Zenon
  <2> QED
    BY <2>1, ConcatProperties, Zenon
<1>8. curr' = t /\ phase' \in {"reading", "refused"}
  BY SMT DEF Push
<1>9. CASE Len(nx) <= CTX_STACK_SIZE /\ Len(ar) <= CTX_STACK_SIZE
  <2>1. next' = nx /\ args' = ar
    BY <1>9, Zenon DEF Push, Above
  <2> HIDE DEF nx, ar, N, A, token, Entry
  <2>2. Len(Front(lists)) \in Nat /\ Len(left) \in Nat /\ Len(N) \in Nat /\ Len(A) \in Nat
    BY <1>2, <1>3, <1>5, SMT
  <2>3. \A i \in 1 .. Len(nx) :
          /\ nx[i] \in OnStack
          /\ nx[i].n = 0 \/ nx[i].n \in DOMAIN token_list[nx[i].by].next
    <3> SUFFICES ASSUME NEW i \in 1 .. Len(nx)
                 PROVE  /\ nx[i] \in OnStack
                        /\ nx[i].n = 0 \/ nx[i].n \in DOMAIN token_list[nx[i].by].next
      OBVIOUS
    <3>1. CASE i <= Len(Front(lists))
      <4>1. i \in 1 .. Len(Front(lists))
        BY <1>6, <2>2, <3>1, SMT
      <4>2. nx[i] = lists[i] /\ i \in DOMAIN lists /\ nx[i] \in OnStack
        BY <1>5, <1>6, <3>1, <4>1, SMT
      <4> QED
        BY <4>2, Zenon DEF Named
    <3>2. CASE ~(i <= Len(Front(lists)))
      <4>1. i - Len(Front(lists)) \in 1 .. Len(N)
        BY <1>6, <2>2, <3>2, SMT
      <4>4. nx[i] = N[i - Len(Front(lists))]
        BY <1>6, <3>2, Zenon
      <4>2. /\ nx[i] = [by |-> t, n |-> i - Len(Front(lists))]
            /\ i - Len(Front(lists)) \in DOMAIN token.next
        BY <1>2, <4>1, <4>4, Zenon
      <4>3. i - Len(Front(lists)) \in 0 .. CTX_STACK_SIZE
        BY <1>6, <1>9, <2>2, <4>1, StackAssumption, SMT
      <4> QED
        BY <4>2, <4>3, SMT DEF OnStack, Tokens, token
    <3> QED
      BY <3>1, <3>2, Zenon
  <2>4. \A i \in 1 .. Len(ar) : ar[i] \in OnStack
    <3> SUFFICES ASSUME NEW i \in 1 .. Len(ar)
                 PROVE  ar[i] \in OnStack
      OBVIOUS
    <3>1. CASE i <= Len(left)
      BY <1>7, <2>2, <3>1, SMT
    <3>2. CASE ~(i <= Len(left))
      <4>1. i - Len(left) \in 1 .. Len(A) /\ i - Len(left) \in 0 .. CTX_STACK_SIZE
        BY <1>7, <1>9, <2>2, <3>2, StackAssumption, SMT
      <4>3. ar[i] = A[i - Len(left)]
        BY <1>7, <3>2, Zenon
      <4>2. ar[i] = [by |-> t, n |-> i - Len(left)]
        BY <1>3, <4>1, <4>3, Zenon
      <4> QED
        BY <4>1, <4>2, SMT DEF OnStack, Tokens
    <3> QED
      BY <3>1, <3>2, Zenon
  <2>5. nx \in Seq(OnStack) /\ ar \in Seq(OnStack)
    BY ONLY <1>6, <1>7, <2>3, <2>4, SMT
  <2>6. Named(nx)
    BY <2>3, <2>5, SMT DEF Named
  <2> QED
    BY <1>8, <1>9, <2>1, <2>5, <2>6, SMT
<1>10. CASE ~(Len(nx) <= CTX_STACK_SIZE /\ Len(ar) <= CTX_STACK_SIZE)
  <2>1. next' = <<>> /\ args' = <<>>
    BY <1>10, Zenon DEF Push, Above
  <2> QED
    BY <1>8, <2>1, StackAssumption, SMT DEF Named
<1> QED
  BY <1>9, <1>10, Zenon

(* What the callbacks do with the stacks: nothing but store through the    *)
(* last arguments, push the top list once more, and, after prefix, put the *)
(* list of the prefix length in the place of that of the value.            *)
LEMMA ParsePushes ==
  ASSUME NEW t, NEW token, Parse(t, token)
  PROVE  \/ Accept(t, token)
         \/ Store(t, token, 1) \/ Store(t, token, 3)
         \/ Again(t, token)
         \/ args # <<>> /\ Push(t, token, next, Front(args))
         \/ /\ t = "ITEM_PARAM_PREFIX" /\ Len(next) >= 2
            /\ Push(t, token, [next EXCEPT ![Len(next) - 1].n = 0], args)
<1>1. ASSUME parse_command(t, token)
      PROVE  Accept(t, token)

  BY <1>1, Zenon DEF parse_command, CommandOnly, parse_default, parse_init, parse_ia,
    parse_ia_destroy, parse_mp, parse_destroy, parse_list, parse_flush, parse_query,
    parse_aged, parse_isolate, parse_dump, parse_flex, parse_tunnel, parse_set_init,
    parse_set_raw_encap_decap, parse_set_sample_action
<1>2. ASSUME parse_rule(t, token)
      PROVE  \/ Accept(t, token) \/ Again(t, token)
             \/ args # <<>> /\ Push(t, token, next, Front(args))
             \/ /\ t = "ITEM_PARAM_PREFIX" /\ Len(next) >= 2
                /\ Push(t, token, [next EXCEPT ![Len(next) - 1].n = 0], args)
  BY <1>2, Zenon DEF parse_rule, Configured, Setting, MessageType, parse_vc,
    parse_vc_spec, parse_vc_conf, parse_vc_action_set_meta, parse_vc_action_rss_type,
    parse_vc_action_rss_queue, parse_vc_item_ecpri_type, parse_vc_item_l2tpv2_type,
    parse_vc_action_rss, parse_vc_action_vxlan_encap, parse_vc_action_nvgre_encap,
    parse_vc_action_l2_encap, parse_vc_action_l2_decap, parse_vc_action_mplsogre_encap,
    parse_vc_action_mplsogre_decap, parse_vc_action_mplsoudp_encap,
    parse_vc_action_mplsoudp_decap, parse_vc_action_raw_encap,
    parse_vc_action_raw_decap, parse_vc_action_sample, parse_vc_action_meter_color_type,
    parse_vc_action_rss_func, parse_vc_modify_field_op, parse_vc_modify_field_id,
    parse_vc_action_conntrack_update, parse_vc_action_raw_encap_index,
    parse_vc_action_raw_decap_index, parse_vc_action_sample_index
<1>3. ASSUME parse_value(t, token)
      PROVE  \/ Store(t, token, 1) \/ Store(t, token, 3)
             \/ args # <<>> /\ Push(t, token, next, Front(args))
  <2>1. CASE parse_ia_id2ptr(t, token)
    <3>1. args # <<>>
      BY <2>1, SMT DEF parse_ia_id2ptr
    <3> QED
      BY <2>1, <3>1, Zenon DEF parse_ia_id2ptr
  <2>2. CASE ~parse_ia_id2ptr(t, token)
    BY <1>3, <2>2, Zenon DEF parse_value, parse_prefix, parse_int, parse_boolean,
      parse_string0, parse_mac_addr, parse_ipv4_addr, parse_ipv6_addr, parse_port,
      parse_flex_handle, parse_action, parse_string, parse_hex
  <2> QED
    BY <2>1, <2>2, Zenon
<1> QED
  BY <1>1, <1>2, <1>3, Zenon DEF Parse

(* The structures the callbacks name are structures.                       *)
LEMMA StructsNamed ==
  /\ {"none", "buffer", "attr", "tunnel_ops", "first_entry", "item", "action", "action_id",
      "rule", "group"} \subseteq Structs
  /\ \A t \in Tokens : token_list[t].priv \in Structs
  BY Zenon DEF Structs, Tokens

(* The buffer stays one when a field of it is set.                         *)
LEMMA BufferKept ==
  ASSUME NEW b \in Buffer
  PROVE  /\ \A c \in Tokens : [b EXCEPT !.command = c] \in Buffer
         /\ \A a \in {"none", "pattern", "actions"} : [b EXCEPT !.area = a] \in Buffer
         /\ \A c \in Tokens, a \in {"none", "pattern", "actions"} :
              [b EXCEPT !.command = c, !.area = a] \in Buffer
         /\ \A d \in Structs : [b EXCEPT !.data = d] \in Buffer
         /\ \A d \in Structs, n \in Nat :
              /\ [b EXCEPT !.data = d, !.items = TRUE, !.item_ends = n] \in Buffer
              /\ [b EXCEPT !.data = d, !.action_ends = n] \in Buffer
  BY Zenon DEF Buffer

(* The object stays a structure and the buffer a buffer.                   *)
LEMMA ParseTypes ==
  ASSUME Typed, NEW t \in Tokens, Parse(t, token_list[t])
  PROVE  object' \in Structs /\ objdata' \in Structs /\ out' \in Buffer
<1> DEFINE token == token_list[t]
           OK == object' \in Structs /\ objdata' \in Structs /\ out' \in Buffer
<1>1. /\ object \in Structs /\ objdata \in Structs /\ out \in Buffer
      /\ out.data \in Structs /\ token.priv \in Structs
      /\ {"none", "buffer", "attr", "tunnel_ops", "first_entry", "item", "action", "action_id",
          "rule", "group"} \subseteq Structs
  BY StructsNamed, Zenon DEF Typed, Buffer
<1>2. EmptyBuffer \in Buffer
  <2>1. "ZERO" \in Tokens
    BY GroupsInTable, SMT DEF common_tokens_names
  <2> QED
    BY <1>1, <2>1, Zenon DEF EmptyBuffer, Buffer
<1>3. /\ [out EXCEPT !.command = t] \in Buffer
      /\ [out EXCEPT !.area = "actions"] \in Buffer
      /\ [out EXCEPT !.area = "pattern"] \in Buffer
      /\ [out EXCEPT !.command = t, !.area = "actions"] \in Buffer
      /\ [out EXCEPT !.command = t, !.area = "pattern"] \in Buffer
      /\ [EmptyBuffer EXCEPT !.command = t] \in Buffer
      /\ [out EXCEPT !.data = token.priv] \in Buffer
  BY <1>1, <1>2, BufferKept, Zenon
<1>4. Append_entry(t, token) => OK
  <2> DEFINE data == IF token.priv = "void" THEN out.data ELSE token.priv
  <2>1. data \in Structs
    BY <1>1, Zenon
  <2> HIDE DEF data
  <2>2. /\ [out EXCEPT !.data = data, !.items = TRUE,
                       !.item_ends = @ + (IF t = "ITEM_END" THEN 1 ELSE 0)] \in Buffer
        /\ [out EXCEPT !.data = data,
                       !.action_ends = @ + (IF t = "ACTION_END" THEN 1 ELSE 0)] \in Buffer
    <3>1. /\ out.item_ends + (IF t = "ITEM_END" THEN 1 ELSE 0) \in Nat
          /\ out.action_ends + (IF t = "ACTION_END" THEN 1 ELSE 0) \in Nat
      <4>1. out.item_ends \in Nat /\ out.action_ends \in Nat
        BY <1>1, Zenon DEF Buffer
      <4> QED
        BY ONLY <4>1, SMT
    <3> QED
      BY <1>1, <2>1, <3>1, BufferKept, Zenon
  <2> QED
    BY <1>1, <2>2, Zenon DEF Append_entry, data
<1> HIDE DEF token
<1>5. parse_command(t, token) => OK

  BY <1>1, <1>2, <1>3, Zenon DEF parse_command, CommandOnly, Command, PointAt,
    parse_default, parse_init, parse_ia, parse_ia_destroy, parse_mp, parse_destroy,
    parse_list, parse_flush, parse_query, parse_aged, parse_isolate, parse_dump,
    parse_flex, parse_tunnel, parse_set_init, parse_set_raw_encap_decap,
    parse_set_sample_action
<1>6. parse_rule(t, token) => OK
  <2>1. vc(t, token) => OK
    BY <1>1, <1>3, <1>4, Zenon DEF vc, Command, PointAt
  <2> QED
    BY <1>1, <1>3, <1>4, <2>1, Zenon DEF parse_rule, Configured, Setting, MessageType,
      parse_vc, parse_vc_spec, parse_vc_conf, parse_vc_action_set_meta,
      parse_vc_action_rss_type, parse_vc_action_rss_queue, parse_vc_item_ecpri_type,
      parse_vc_item_l2tpv2_type, parse_vc_action_rss, parse_vc_action_vxlan_encap,
      parse_vc_action_nvgre_encap, parse_vc_action_l2_encap, parse_vc_action_l2_decap,
      parse_vc_action_mplsogre_encap, parse_vc_action_mplsogre_decap,
      parse_vc_action_mplsoudp_encap, parse_vc_action_mplsoudp_decap,
      parse_vc_action_raw_encap, parse_vc_action_raw_decap, parse_vc_action_sample,
      parse_vc_action_meter_color_type, parse_vc_action_rss_func,
      parse_vc_modify_field_op, parse_vc_modify_field_id,
      parse_vc_action_conntrack_update, parse_vc_action_raw_encap_index,
      parse_vc_action_raw_decap_index, parse_vc_action_sample_index
<1>7. parse_value(t, token) => OK
  BY <1>1, Zenon DEF parse_value, Store, parse_ia_id2ptr, parse_prefix, parse_int,
    parse_boolean, parse_string0, parse_mac_addr, parse_ipv4_addr, parse_ipv6_addr,
    parse_port, parse_flex_handle, parse_action, parse_string, parse_hex
<1> QED
  BY <1>5, <1>6, <1>7, Zenon DEF Parse, token

(* One more token keeps the types and leaves lists of their tokens on the  *)
(* stack.                                                                  *)
LEMMA ParseTyped ==
  ASSUME Typed, Grammatical, next # <<>>, NEW t \in Tokens, Parse(t, token_list[t])
  PROVE  Typed' /\ Grammatical'
<1> DEFINE Pushed(lists, left) == Push(t, token_list[t], lists, left)
<1>1. next \in Seq(OnStack) /\ args \in Seq(OnStack) /\ Named(next)
  BY Zenon DEF Typed, Grammatical
<1>2. ASSUME NEW lists \in Seq(OnStack), lists # <<>>, Named(lists), NEW left \in Seq(OnStack),
             Pushed(lists, left)
      PROVE  Typed' /\ Grammatical'
  <2>1. /\ curr' \in Tokens
        /\ next' \in Seq(OnStack) /\ Len(next') <= CTX_STACK_SIZE
        /\ args' \in Seq(OnStack) /\ Len(args') <= CTX_STACK_SIZE
        /\ phase' \in {"reading", "done", "refused"}
        /\ Named(next')
    BY <1>2, PushTyped, Zenon
  <2>2. object' \in Structs /\ objdata' \in Structs /\ out' \in Buffer
    BY ParseTypes, Zenon
  <2> QED
    BY <2>1, <2>2, Zenon DEF Typed, Grammatical
<1> HIDE DEF Pushed
<1>3. CASE Pushed(next, args)
  BY <1>1, <1>2, <1>3, Zenon
<1>4. ASSUME NEW n \in {1, 3}, Len(args) >= n, Pushed(next, SubSeq(args, 1, Len(args) - n))
      PROVE  Typed' /\ Grammatical'
  <2>1. SubSeq(args, 1, Len(args) - n) \in Seq(OnStack)
    BY <1>1, <1>4, SMT
  <2> QED
    BY <1>1, <1>2, <1>4, <2>1, Zenon
<1>5. CASE args # <<>> /\ Pushed(next, Front(args))
  <2>1. Front(args) \in Seq(OnStack)
    BY <1>1, <1>5, SMT DEF Front
  <2> QED
    BY <1>1, <1>2, <1>5, <2>1, Zenon
<1>6. CASE Pushed(Append(next, Last(next)), args)
  <2>1. /\ Len(next) \in DOMAIN next
        /\ Last(next) = next[Len(next)] /\ Last(next) \in OnStack
    BY <1>1, SMT DEF Last
  <2>2. /\ Append(next, Last(next)) \in Seq(OnStack)
        /\ Append(next, Last(next)) # <<>>
        /\ \A i \in DOMAIN Append(next, Last(next)) :
             \E j \in DOMAIN next : Append(next, Last(next))[i] = next[j]
    <3> DEFINE top == Last(next)
    <3> HIDE DEF top
    <3>1. /\ Append(next, top) \in Seq(OnStack) /\ Append(next, top) # <<>>
          /\ DOMAIN Append(next, top) = 1 .. Len(next) + 1
          /\ \A i \in 1 .. Len(next) : Append(next, top)[i] = next[i]
          /\ Append(next, top)[Len(next) + 1] = top
          /\ DOMAIN next = 1 .. Len(next)
      BY <1>1, <2>1, SMT DEF top
    <3>2. ASSUME NEW i \in 1 .. Len(next) + 1
          PROVE  \E j \in DOMAIN next : Append(next, top)[i] = next[j]
      <4>1. i \in 1 .. Len(next) \/ i = Len(next) + 1
        BY <1>1, SMT
      <4> QED
        BY <2>1, <3>1, <4>1, Zenon DEF top
    <3> QED
      BY <3>1, <3>2, Zenon DEF top
  <2>3. Named(Append(next, Last(next)))
    BY <1>1, <2>2, Zenon DEF Named
  <2> QED
    BY <1>1, <1>2, <1>6, <2>2, <2>3, Zenon
<1>7. CASE Len(next) >= 2 /\ Pushed([next EXCEPT ![Len(next) - 1].n = 0], args)
  <2> DEFINE k == Len(next) - 1
             changed == [next EXCEPT ![k].n = 0]
  <2>1. /\ k \in DOMAIN next /\ next[k] \in OnStack
        /\ 0 \in 0 .. CTX_STACK_SIZE
    BY <1>1, <1>7, StackAssumption, SMT
  <2>2. [next[k] EXCEPT !.n = 0] \in OnStack /\ [next[k] EXCEPT !.n = 0].n = 0
    BY <2>1, Zenon DEF OnStack
  <2> HIDE DEF k
  <2>3. changed = [next EXCEPT ![k] = [next[k] EXCEPT !.n = 0]]
    BY SMT
  <2>4. /\ changed \in Seq(OnStack) /\ changed # <<>> /\ DOMAIN changed = DOMAIN next
        /\ \A i \in DOMAIN next :
             changed[i] = IF i = k THEN [next[k] EXCEPT !.n = 0] ELSE next[i]
    BY <1>1, <2>1, <2>2, <2>3, SMT
  <2>5. Named(changed)
    BY <1>1, <2>2, <2>4, Zenon DEF Named
  <2> QED
    BY <1>1, <1>2, <1>7, <2>4, <2>5, Zenon DEF k
<1>8. \/ Pushed(next, args)
      \/ \E n \in {1, 3} : Len(args) >= n /\ Pushed(next, SubSeq(args, 1, Len(args) - n))
      \/ args # <<>> /\ Pushed(next, Front(args))
      \/ Pushed(Append(next, Last(next)), args)
      \/ Len(next) >= 2 /\ Pushed([next EXCEPT ![Len(next) - 1].n = 0], args)
  BY ParsePushes, Zenon DEF Accept, Store, Again, Pushed
<1> QED
  BY <1>3, <1>4, <1>5, <1>6, <1>7, <1>8, Zenon

-----------------------------------------------------------------------------
(* The situations a line goes through: what is on the stacks, and what the *)
(* object and the buffer then are.                                         *)

\* The tokens of the commands, before the items and the actions of a rule.
PolicyWords == {"ADD", "ITEM_POL_PORT", "ITEM_POL_METER"}
IndirectAttrs ==
  {"INDIRECT_ACTION_CREATE_ID", "INDIRECT_ACTION_INGRESS", "INDIRECT_ACTION_EGRESS",
   "INDIRECT_ACTION_TRANSFER"}
SetRaw == {"SET_RAW_ENCAP", "SET_RAW_DECAP"}
CommandWords ==
  {"ZERO", "START_SET", "FLOW", "SET", "INDIRECT_ACTION", "INDIRECT_ACTION_CREATE",
   "INDIRECT_ACTION_UPDATE", "INDIRECT_ACTION_DESTROY", "INDIRECT_ACTION_QUERY",
   "INDIRECT_ACTION_DESTROY_ID", "VALIDATE", "CREATE", "DESTROY", "DESTROY_RULE", "FLUSH",
   "DUMP", "DUMP_ALL", "DUMP_ONE", "QUERY", "LIST", "LIST_GROUP", "AGED", "ISOLATE", "FLEX",
   "FLEX_ITEM_INIT", "FLEX_ITEM_CREATE", "FLEX_ITEM_DESTROY", "TUNNEL", "TUNNEL_CREATE",
   "TUNNEL_CREATE_TYPE", "TUNNEL_DESTROY", "TUNNEL_DESTROY_ID", "TUNNEL_LIST",
   "SET_SAMPLE_ACTIONS", "ITEM_POL_POLICY"}
  \cup PolicyWords \cup IndirectAttrs \cup SetRaw
  \cup {"VC_GROUP", "VC_PRIORITY", "VC_INGRESS", "VC_EGRESS", "VC_TRANSFER", "VC_TUNNEL_SET",
        "VC_TUNNEL_MATCH"}

\* The commands a word may belong to, and what it leaves in the context.
CommandsOf(b) ==
  CASE b \in {"ZERO", "START_SET", "FLOW"} \cup PolicyWords -> {"ZERO"}
    [] b \in IndirectAttrs -> {"INDIRECT_ACTION_CREATE"}
    [] b \in vc_attributes -> {"VALIDATE", "CREATE"}
    [] b = "INDIRECT_ACTION_DESTROY_ID" -> {"INDIRECT_ACTION_DESTROY"}
    [] b = "DESTROY_RULE" -> {"DESTROY"}
    [] b = "LIST_GROUP" -> {"LIST"}
    [] b = "TUNNEL_CREATE_TYPE" -> {"TUNNEL_CREATE"}
    [] b = "TUNNEL_DESTROY_ID" -> {"TUNNEL_DESTROY"}
    [] OTHER -> {b}
AreaOf(b) ==
  CASE b \in {"INDIRECT_ACTION_CREATE", "INDIRECT_ACTION_UPDATE", "SET_SAMPLE_ACTIONS"}
             \cup IndirectAttrs -> "actions"
    [] b \in SetRaw -> "pattern"
    [] OTHER -> "none"
ObjectOf(b) ==
  CASE b \in {"ZERO", "START_SET"} -> "none"
    [] b = "SET" -> "first_entry"
    [] b = "INDIRECT_ACTION_DESTROY_ID" -> "action_id"
    [] b \in vc_tunnels \cup {"TUNNEL_CREATE_TYPE", "TUNNEL_DESTROY_ID"} -> "tunnel_ops"
    [] b \in vc_attributes \ vc_tunnels -> "attr"
    [] b = "DESTROY_RULE" -> "rule"
    [] b = "LIST_GROUP" -> "group"
    [] OTHER -> "buffer"

\* The buffer of a command without entries.
Bare(command, area) ==
  [command |-> command, data |-> "none", area |-> area,
   items |-> FALSE, item_ends |-> 0, action_ends |-> 0]

\* The lists 1 to m of a word are left, and an argument for each value.
AtCommand(b, m) ==
  /\ next = Stack(0, b, m)
  /\ object = ObjectOf(b) /\ objdata = "none"
  /\ \E c \in CommandsOf(b) : out = Bare(c, AreaOf(b))
  /\ LET token == token_list[b]
         taken == Len(token.next) - m
     IN /\ m \in 1 .. Len(token.next)
        /\ taken < Len(token.args) => Pending(b, Len(token.args) - taken)
  /\ b = "ITEM_POL_POLICY" => m >= 3

\* In the pattern of a rule, or of set raw_encap and raw_decap.
PatternCommands == {"VALIDATE", "CREATE"} \cup SetRaw
InPattern ==
  /\ out.command \in PatternCommands /\ out.area = "pattern"
  /\ out.item_ends = 0 /\ out.action_ends = 0

\* Before an item.
AtItems(b) == InPattern /\ next = Stack(0, b, 1) /\ PatternList(token_list[b].next[1])

\* The data of structure S are those of the last item.
ItemData(S) == InPattern /\ out.items /\ out.data = S /\ objdata = S

\* Before a field, before is, spec, last, mask or prefix, before the value,
\* before the type of a message.
AtFields(b, S) ==
  ItemData(S) /\ next = Stack(0, b, 1) /\ ItemList(token_list[b].next[1], S)
FieldLike(b, S) ==
  FieldOf(token_list[b], S) \/ (b = "ITEM_PPPOE_PROTO_ID" /\ S = "item_pppoe_proto_id")
AtParam(b, S) ==
  /\ ItemData(S) /\ FieldLike(b, S)
  /\ next = Stack(0, b, 3) /\ Pending(b, Len(token_list[b].args))
AtValue(b, S) ==
  /\ ItemData(S) /\ FieldLike(b, S) /\ object = S
  /\ \/ next = Stack(0, b, 2)
     \/ next = <<[by |-> b, n |-> 1], [by |-> b, n |-> 0]>>
  /\ Pending(b, Len(token_list[b].args))
AtType(b, S) ==
  /\ ItemData(S) /\ next = Stack(0, b, 1) /\ Pending(b, 1)
  /\ \/ S = "item_ecpri" /\ b = "ITEM_ECPRI_COMMON_TYPE"
     \/ S = "item_l2tpv2" /\ b = "ITEM_L2TPV2_COMMON_TYPE"

\* Between the pattern of a rule and its actions.
AfterPattern ==
  /\ out.command \in PatternCommands /\ out.area = "pattern"
  /\ out.item_ends = 1 /\ out.action_ends = 0
  /\ next = Stack(0, "ITEM_END", 1)

\* In a list of actions, with q lists of actions to come.
InActions(q) ==
  /\ out.area = "actions"
  /\ \/ /\ out.command \in PatternCommands /\ q = 0
        /\ out.item_ends = 1 /\ out.action_ends = 0
     \/ /\ out.command \in {"INDIRECT_ACTION_CREATE", "INDIRECT_ACTION_UPDATE",
                            "SET_SAMPLE_ACTIONS"}
        /\ q = 0 /\ out.item_ends = 0 /\ out.action_ends = 0
     \/ /\ out.command = "ACTION_POL_G" /\ q \in 0..2
        /\ out.item_ends = 0 /\ out.action_ends = 2 - q

\* Before an action.
AtActions(q, b) == InActions(q) /\ next = Stack(q, b, 1) /\ ActionsList(token_list[b].next[1])

\* The object while the last action has a configuration of testpmd's own, or
\* a color.
ObjectFits(S) == (S \in Own => object = S) /\ (S = "action_meter_color" => object = "action")
ActionData(q, S) == InActions(q) /\ out.data = S /\ objdata = S /\ ObjectFits(S)

\* Before a field of the action, before the value of a field or a setting,
\* before the identifier of an indirect action.
AtConf(q, b, S) ==
  ActionData(q, S) /\ next = Stack(q, b, 1) /\ ActionList(token_list[b].next[1], S)
AtSetting(q, b, S) ==
  /\ ActionData(q, S) /\ (S # "action_meter_color" => object = S)
  /\ SettingOf(token_list[b], S) \/ ConfOf(token_list[b], S)
  /\ next = Stack(q, b, 2) /\ Pending(b, Len(token_list[b].args))
AtIndirect(q) ==
  /\ InActions(q) /\ object = "action"
  /\ next = Stack(q, "ACTION_INDIRECT", 1) /\ Pending("ACTION_INDIRECT", 1)

\* Between the actions of two colors.
AtColor(q) ==
  /\ q \in 1..2 /\ next = Stack(0, "ITEM_POL_POLICY", q)
  /\ out.command = "ACTION_POL_G" /\ out.area = "actions"
  /\ out.item_ends = 0 /\ out.action_ends = 3 - q

\* Nothing more is expected: the line can be dispatched.
Dispatched ==
  /\ out.command \in DOMAIN cmd_flow_parsed \cup {"FLEX_ITEM_INIT"}
  /\ out.command \in DOMAIN cmd_flow_parsed =>
       /\ out.item_ends >= cmd_flow_parsed[out.command][1]
       /\ out.action_ends >= cmd_flow_parsed[out.command][2]
AtEnd == next = <<>> /\ (curr = "END_SET" \/ Dispatched)

Situation ==
  \/ AtEnd
  \/ \E b \in CommandWords, m \in 1..5 : AtCommand(b, m)
  \/ \E b \in Tokens : AtItems(b)
  \/ \E b \in Tokens : \/ AtFields(b, out.data) \/ AtParam(b, out.data)
                       \/ AtValue(b, out.data) \/ AtType(b, out.data)
  \/ AfterPattern
  \/ \E q \in 0..2, b \in Tokens :
       AtActions(q, b) \/ AtConf(q, b, out.data) \/ AtSetting(q, b, out.data)
  \/ \E q \in 0..2 : AtColor(q) \/ AtIndirect(q)

\* The inductive invariant.
IInv ==
  /\ Typed /\ Ends /\ Grammatical
  /\ phase = "reading" => Situation
  /\ phase = "done" => Len(next) <= 1 /\ (curr = "END_SET" \/ Dispatched)

-----------------------------------------------------------------------------
(* Reading a token.                                                        *)

\* A token of the top list is accepted and the line goes on.
Reads(t) == t \in Expected \ (Untyped \cup {"END"}) /\ Parse(t, token_list[t])

(* What the top list of a stack offers.                                    *)
LEMMA StackOffers ==
  ASSUME NEW q \in Nat, NEW m \in Nat, m > 0, NEW b, next = Stack(q, b, m)
  PROVE  /\ next # <<>> /\ Last(next) = [by |-> b, n |-> m]
         /\ Front(next) = Stack(q, b, m - 1)
         /\ phase = "reading" => Expected = token_list[b].next[m]
<1>1. /\ next # <<>> /\ Last(next) = [by |-> b, n |-> m]
      /\ Front(next) = Stack(q, b, m - 1)
  BY StackFacts, ZenonT(60)
<1>2. List([by |-> b, n |-> m]) = token_list[b].next[m]
  BY SMT DEF List
<1> QED
  BY <1>1, <1>2, Zenon DEF Expected

(* The stacks after a token that fits.                                     *)
LEMMA Pushed ==
  ASSUME NEW q \in Nat, NEW m \in Nat, m > 0, NEW b, NEW t \in Tokens,
         NEW lists, lists = Stack(q, b, m), NEW left \in Seq(OnStack),
         Push(t, token_list[t], lists, left), phase' = "reading"
  PROVE  /\ curr' = t
         /\ token_list[t].next = <<>> => next' = Stack(q, b, m - 1)
         /\ m = 1 => next' = Stack(q, t, Len(token_list[t].next))
         /\ token_list[t].args = <<>> => args' = left
         /\ Pending(t, Len(token_list[t].args))'
<1> DEFINE token == token_list[t]
           A == [i \in DOMAIN token.args |-> [by |-> t, n |-> i]]
           Entry == [by : Tokens, n : Nat]
<1>1. WellFormed(token)
  BY WellFormedTable, Zenon
<1>2. curr' = t /\ next' = Front(lists) \o Above(t, token) /\ args' = left \o A
  BY Zenon DEF Push, Above
<1>3. /\ token.next = <<>> => next' = Stack(q, b, m - 1)
      /\ m = 1 => next' = Stack(q, t, Len(token.next))
  <2> HIDE DEF token
  <2>1. next' = Front(Stack(q, b, m)) \o Above(t, token)
    BY <1>2, Zenon
  <2>2. m > 0
    OBVIOUS
  <2>3. TopReplaced(q, m, b, t, token)
    BY <1>1, <2>2, StackPush, ZenonT(60)
  <2> QED
    BY <2>1, <2>3, Zenon DEF TopReplaced
<1> HIDE DEF token
<1>4. Len(token.args) \in Nat /\ DOMAIN token.args = 1 .. Len(token.args)
  BY <1>1, SMT DEF WellFormed
<1>5. /\ A \in Seq(Entry) /\ Len(A) = Len(token.args)
      /\ \A i \in 1 .. Len(token.args) : A[i] = [by |-> t, n |-> i]
  <2>1. Len(A) = Len(token.args)
    BY <1>4, SMT
  <2> QED
    BY <1>4, <2>1, SMT
<1>6. token.args = <<>> => A = <<>>
  BY <1>4, SMT
<1>7. token.args = <<>> => args' = left
  BY <1>2, <1>6, SMT
<1>8. Pending(t, Len(token.args))'
  <2> DEFINE r == Len(token.args)
             ar == left \o A
  <2>1. r \in Nat /\ Len(left) \in Nat /\ Len(A) = r
    BY <1>4, <1>5, SMT
  <2> HIDE DEF A, r, Entry
  <2>2. left \in Seq(Entry)
    <3>1. OnStack \subseteq Entry
      BY StackAssumption, SMT DEF OnStack, Tokens, Entry
    <3> QED
      BY <3>1, SeqMonotonic, Zenon
  <2>3. /\ Len(ar) = Len(left) + Len(A)
        /\ \A i \in 1 .. Len(ar) :
             ar[i] = IF i <= Len(left) THEN left[i] ELSE A[i - Len(left)]
    <3>1. A \in Seq(Entry) /\ left \in Seq(Entry)
      BY <1>5, <2>2, Zenon
    <3> QED
      BY ONLY <3>1, ConcatProperties, Zenon
  <2> HIDE DEF ar
  <2>4. ASSUME NEW i \in 1 .. r
        PROVE  ar[Len(ar) - r + i] = [by |-> t, n |-> i]
    <3>1. /\ Len(left) + i \in 1 .. Len(ar) /\ ~(Len(left) + i <= Len(left))
          /\ Len(left) + i - Len(left) = i /\ Len(ar) - r + i = Len(left) + i
      BY <2>1, <2>3, SMT
    <3>2. ar[Len(left) + i] = A[Len(left) + i - Len(left)]
      BY ONLY <2>3, <3>1, SMT
    <3> QED
      BY <1>5, <3>1, <3>2, Zenon DEF r
  <2>5. Len(ar) >= r
    BY <2>1, <2>3, SMT
  <2>6. args' = ar
    BY <1>2, Zenon DEF ar
  <2> QED
    BY <2>4, <2>5, <2>6, Zenon DEF Pending, r
<1> QED
  BY <1>2, <1>3, <1>7, <1>8, Zenon DEF token

(* The same of a list that is the only one of its token.                   *)
LEMMA Forward ==
  ASSUME Typed, NEW q \in Nat, NEW b, next = Stack(q, b, 1), NEW t \in Tokens,
         Accept(t, token_list[t]), phase' = "reading"
  PROVE  /\ curr' = t
         /\ next' = Stack(q, t, Len(token_list[t].next))
         /\ token_list[t].next = <<>> => next' = Stack(q, b, 0)
         /\ Pending(t, Len(token_list[t].args))'
<1>1. Push(t, token_list[t], next, args) /\ args \in Seq(OnStack)
  BY Zenon DEF Accept, Typed
<1>2. 1 \in Nat /\ 1 > 0 /\ 1 - 1 = 0
  BY SMT
<1>3. /\ curr' = t
      /\ token_list[t].next = <<>> => next' = Stack(q, b, 1 - 1)
      /\ 1 = 1 => next' = Stack(q, t, Len(token_list[t].next))
      /\ Pending(t, Len(token_list[t].args))'
  BY <1>1, <1>2, Pushed, ZenonT(60)
<1> QED
  BY <1>2, <1>3, Zenon

-----------------------------------------------------------------------------
(* Items.                                                                  *)

(* The token read is one of the table, and keeps the types.                *)
LEMMA ReadsTyped ==
  ASSUME Typed, Grammatical, NEW t, Reads(t)
  PROVE  /\ t \in Tokens /\ t \notin Untyped /\ t # "END" /\ t \in Expected
         /\ phase = "reading" /\ WellFormed(token_list[t])
         /\ args \in Seq(OnStack) /\ out \in Buffer
         /\ Typed' /\ Grammatical'
<1>1. t \in Expected /\ t \notin Untyped /\ t # "END" /\ Parse(t, token_list[t])
  BY Zenon DEF Reads
<1>2. t \in Tokens /\ next # <<>> /\ phase = "reading"
  BY <1>1, ExpectedTokens, Zenon DEF Expected
<1> QED
  BY <1>1, <1>2, ParseTyped, WellFormedTable, Zenon DEF Typed

(* Every item but three appends an entry and goes on with its fields.      *)
LEMMA NextItems ==
  ASSUME NEW t \in next_item, t # "ITEM_CONNTRACK"
  PROVE  t \in {"ITEM_END", "END_SET", "ITEM_PPPOE_PROTO_ID"} \/ ItemHead(token_list[t])
  BY ItemHeads, SMT DEF next_item

(* parse_vc takes the items and the actions for such.                      *)
LEMMA Appends ==
  ASSUME NEW t, NEW token, parse_vc(t, token), t \in next_item \/ t \in next_action
  PROVE  Append_entry(t, token) /\ Accept(t, token)
<1>1. t \notin {"VALIDATE", "CREATE", "ITEM_PATTERN", "ACTIONS"} \cup vc_attributes
  BY SMT DEF next_item, next_action, vc_attributes, next_vc_attr
<1> QED
  BY <1>1, Zenon DEF parse_vc, vc, FirstIs

(* What is written for an item.                                            *)
LEMMA AppendItem ==
  ASSUME out \in Buffer, out.area = "pattern", NEW t, NEW token, Append_entry(t, token)
  PROVE  /\ out'.command = out.command /\ out'.area = out.area /\ out'.items
         /\ out'.item_ends = IF t = "ITEM_END" THEN out.item_ends + 1 ELSE out.item_ends
         /\ out'.action_ends = out.action_ends
         /\ object' = "item"
         /\ token.priv # "void" => out'.data = token.priv /\ objdata' = token.priv
<1>1. out.item_ends \in Nat
  BY Zenon DEF Buffer
<1>2. out.item_ends + (IF t = "ITEM_END" THEN 1 ELSE 0)
        = IF t = "ITEM_END" THEN out.item_ends + 1 ELSE out.item_ends
  BY <1>1, SMT
<1>3. /\ object' = "item" /\ (token.priv # "void" => objdata' = token.priv)
      /\ out' = [out EXCEPT !.data = IF token.priv = "void" THEN out.data ELSE token.priv,
                            !.items = TRUE,
                            !.item_ends = out.item_ends + (IF t = "ITEM_END" THEN 1 ELSE 0)]
  BY Zenon DEF Append_entry
<1>4. /\ out'.command = out.command /\ out'.area = out.area /\ out'.items = TRUE
      /\ out'.item_ends = out.item_ends + (IF t = "ITEM_END" THEN 1 ELSE 0)
      /\ out'.action_ends = out.action_ends
      /\ out'.data = IF token.priv = "void" THEN out.data ELSE token.priv
  BY <1>3, Zenon DEF Buffer
<1> QED
  BY <1>2, <1>3, <1>4, Zenon

(* From before an item.                                                    *)
LEMMA ItemsStep ==
  ASSUME Typed, Grammatical, "ITEM_CONNTRACK" \in Untyped,
         NEW b \in Tokens, AtItems(b), NEW t, Reads(t)
  PROVE  /\ out'.item_ends \in 0..1 /\ out'.action_ends = 0
         /\ phase' = "reading" => \/ AtItems(t)' \/ AtFields(t, out.data)' \/ AtParam(t, out.data)'
                                  \/ AfterPattern' \/ AtEnd'
<1> DEFINE token == token_list[t]
<1>1. /\ t \in Tokens /\ t \notin Untyped /\ phase = "reading" /\ t \in Expected
      /\ args \in Seq(OnStack) /\ out \in Buffer /\ Parse(t, token)
  BY ReadsTyped, Zenon DEF Reads
<1>2. next = Stack(0, b, 1) /\ InPattern /\ PatternList(token_list[b].next[1])
  BY Zenon DEF AtItems
<1>3. t \in next_item \cup {"ITEM_NEXT"}
  <2>1. Expected = token_list[b].next[1]
    BY <1>1, <1>2, StackOffers, SMT
  <2> QED
    BY <1>1, <1>2, <2>1, Zenon DEF PatternList
<1>4. /\ out.command \in PatternCommands /\ out.area = "pattern"
      /\ out.item_ends = 0 /\ out.action_ends = 0
  BY <1>2, Zenon DEF InPattern
<1>5. ASSUME Accept(t, token), phase' = "reading"
      PROVE  /\ curr' = t
             /\ token.next = <<>> => next' = <<>>
             /\ next' = Stack(0, t, Len(token.next))
             /\ Pending(t, Len(token.args))'
  <2>1. 0 \in Nat /\ 0 + 0 = 0
    BY SMT
  <2>2. Stack(0, b, 0) = <<>>
    BY <2>1, StackFacts, ZenonT(60)
  <2> QED
    BY <1>1, <1>2, <1>5, <2>1, <2>2, Forward, Zenon
<1>6. ASSUME token.call = "parse_default"
      PROVE  /\ Accept(t, token) /\ out' = out /\ InPattern'
             /\ out'.item_ends \in 0..1 /\ out'.action_ends = 0
  <2>1. Accept(t, token) /\ out' = out
    BY <1>1, <1>6, CallOf, Zenon DEF parse_default
  <2> QED
    BY <1>2, <1>4, <2>1, SMT DEF InPattern
<1>7. CASE t = "ITEM_NEXT"
  <2>1. token = Word(<<next_item>>)
    BY <1>7, LandmarkRows, Zenon
  <2>2. token.call = "parse_default" /\ Len(token.next) = 1 /\ token.next[1] = next_item
    BY <2>1, SMT DEF Word, Token
  <2>3. PatternList(token.next[1])
    BY <2>2, Zenon DEF PatternList
  <2> HIDE DEF token
  <2>4. phase' = "reading" => next' = Stack(0, t, 1)
    BY <1>5, <1>6, <2>2, Zenon
  <2> QED
    BY <1>6, <2>2, <2>3, <2>4, Zenon DEF AtItems, token
<1>8. CASE t = "END_SET"
  <2>1. token = Word(<<>>)
    BY <1>8, LandmarkRows, Zenon
  <2>2. token.call = "parse_default" /\ token.next = <<>>
    BY <2>1, SMT DEF Word, Token
  <2> QED
    BY <1>5, <1>6, <1>8, <2>2, Zenon DEF AtEnd
<1>9. ASSUME t \in next_item, token.call = "parse_vc"
      PROVE  /\ Accept(t, token)
             /\ out'.command \in PatternCommands /\ out'.area = "pattern" /\ out'.items
             /\ out'.item_ends = IF t = "ITEM_END" THEN 1 ELSE 0
             /\ out'.item_ends \in 0..1 /\ out'.action_ends = 0
             /\ token.priv # "void" => out'.data = token.priv /\ objdata' = token.priv
  <2>1. Accept(t, token) /\ Append_entry(t, token)
    BY <1>1, <1>9, Appends, CallOf, Zenon
  <2>2. /\ out'.command = out.command /\ out'.area = out.area /\ out'.items
        /\ out'.item_ends = IF t = "ITEM_END" THEN out.item_ends + 1 ELSE out.item_ends
        /\ out'.action_ends = out.action_ends
        /\ token.priv # "void" => out'.data = token.priv /\ objdata' = token.priv
    BY <1>1, <1>4, <2>1, AppendItem, Zenon
  <2>3. out'.item_ends = IF t = "ITEM_END" THEN 1 ELSE 0
    BY <1>4, <2>2, SMT
  <2> QED
    BY <1>4, <2>1, <2>2, <2>3, SMT
<1>10. CASE t = "ITEM_END"
  <2>1. token = Place(NEXT_ENTRY("ACTIONS"), "void")
    BY <1>10, LandmarkRows, Zenon
  <2>2. token.call = "parse_vc" /\ Len(token.next) = 1
    BY <2>1, SMT DEF Place, Token
  <2>3. t \in next_item
    BY <1>3, <1>10, SMT
  <2> HIDE DEF token
  <2>4. phase' = "reading" => next' = Stack(0, "ITEM_END", 1)
    BY <1>5, <1>9, <1>10, <2>2, <2>3, Zenon
  <2> QED
    BY <1>9, <1>10, <2>2, <2>3, <2>4, Zenon DEF AfterPattern
<1>11. CASE t = "ITEM_PPPOE_PROTO_ID"
  <2>1. token = Token("parse_vc", <<item_pppoe_proto_id, NEXT_ENTRY("COMMON_UNSIGNED"), item_param>>,
                      <<"item_pppoe_proto_id">>, "item_pppoe_proto_id")
    BY <1>11, LandmarkRows, Zenon
  <2>2. /\ token.call = "parse_vc" /\ Len(token.next) = 3 /\ token.priv = "item_pppoe_proto_id"
        /\ token.priv # "void"
    BY <2>1, SMT DEF Token
  <2>3. t \in next_item
    BY <1>3, <1>11, SMT
  <2> HIDE DEF token
  <2>4. t # "ITEM_END"
    BY <1>11, SMT
  <2>5. /\ out'.command \in PatternCommands /\ out'.area = "pattern" /\ out'.items
        /\ out'.item_ends = 0 /\ out'.action_ends = 0 /\ out'.item_ends \in 0..1
        /\ out'.data = "item_pppoe_proto_id" /\ objdata' = "item_pppoe_proto_id"
    BY <1>9, <2>2, <2>3, <2>4, Zenon
  <2>6. phase' = "reading" => next' = Stack(0, t, 3) /\ Pending(t, Len(token.args))'
    BY <1>5, <1>9, <2>2, <2>3, Zenon
  <2> QED
    BY <1>11, <2>5, <2>6, Zenon DEF AtParam, ItemData, InPattern, FieldLike, token
<1>12. CASE ItemHead(token) /\ t \in next_item /\ t # "ITEM_END"
  <2>1. token.call = "parse_vc" /\ Len(token.next) = 1
    BY <1>12, Zenon DEF ItemHead
  <2> HIDE DEF token
  <2>2. /\ out'.command \in PatternCommands /\ out'.area = "pattern" /\ out'.items
        /\ out'.item_ends = 0 /\ out'.action_ends = 0 /\ out'.item_ends \in 0..1
        /\ token.priv # "void" => out'.data = token.priv /\ objdata' = token.priv
    BY <1>9, <1>12, <2>1, Zenon
  <2>3. phase' = "reading" => next' = Stack(0, t, 1)
    BY <1>5, <1>9, <1>12, <2>1, Zenon
  <2>4. CASE PatternList(token.next[1])
    BY <2>2, <2>3, <2>4, Zenon DEF AtItems, InPattern, token
  <2>5. CASE token.priv # "void" /\ ItemList(token.next[1], token.priv)
    BY <2>2, <2>3, <2>5, Zenon DEF AtFields, ItemData, InPattern, token
  <2> QED
    BY <1>12, <2>4, <2>5, SMT DEF ItemHead
<1> HIDE DEF token
<1>13. t # "ITEM_CONNTRACK"
  BY <1>1
<1> QED
  BY <1>3, <1>7, <1>8, <1>10, <1>11, <1>12, <1>13, NextItems, SMT DEF token

(* Another token leaves the entries as they are.                           *)
LEMMA ItemDataKept ==
  ASSUME NEW S, ItemData(S), out' = out, objdata' = objdata
  PROVE  ItemData(S)' /\ out'.item_ends \in 0..1 /\ out'.action_ends = 0
<1>1. /\ out.command \in PatternCommands /\ out.area = "pattern" /\ out.items
      /\ out.item_ends = 0 /\ out.action_ends = 0 /\ out.data = S /\ objdata = S
  BY Zenon DEF ItemData, InPattern
<1>2. 0 \in 0..1
  BY SMT
<1> QED
  BY <1>1, <1>2, Zenon DEF ItemData, InPattern

(* What a word does.                                                       *)
LEMMA Defaults ==
  ASSUME NEW t, NEW token, Parse(t, token), token.call = "parse_default"
  PROVE  Accept(t, token) /\ out' = out /\ object' = object /\ objdata' = objdata
<1>1. parse_default(t, token)
  BY CallOf, Zenon
<1> QED
  BY <1>1, Zenon DEF parse_default

(* What may be said of an item.                                            *)
LEMMA ItemOffered ==
  ASSUME NEW S, NEW t \in ItemOffers(S)
  PROVE  \/ t = "ITEM_NEXT"
         \/ FieldOf(token_list[t], S)
         \/ S = "item_ecpri" /\ t \in {"ITEM_ECPRI_COMMON", "ITEM_ECPRI_COMMON_TYPE"}
         \/ S = "item_l2tpv2" /\ t \in {"ITEM_L2TPV2_COMMON", "ITEM_L2TPV2_COMMON_TYPE"}
<1>1. CASE S = "item_ecpri"
  BY <1>1, Zenon DEF ItemOffers, TypeWords
<1>2. CASE S = "item_l2tpv2"
  <2>1. S # "item_ecpri"
    BY <1>2
  <2> QED
    BY <1>2, <2>1, SMT DEF ItemOffers, TypeWords
<1>3. CASE S \notin {"item_ecpri", "item_l2tpv2"}
  <2>1. TypeWords(S) = {}
    BY <1>3, SMT DEF TypeWords
  <2> QED
    BY <2>1, Zenon DEF ItemOffers
<1> QED
  BY <1>1, <1>2, <1>3, SMT

(* From before a field of an item.                                         *)
LEMMA FieldsStep ==
  ASSUME Typed, Grammatical, NEW S, NEW b \in Tokens, AtFields(b, S), NEW t, Reads(t)
  PROVE  /\ out' = out /\ out'.item_ends \in 0..1 /\ out'.action_ends = 0
         /\ phase' = "reading" =>
              AtItems(t)' \/ AtFields(t, S)' \/ AtParam(t, S)' \/ AtType(t, S)'
<1> DEFINE token == token_list[t]
<1>1. /\ t \in Tokens /\ phase = "reading" /\ t \in Expected /\ Parse(t, token)
  BY ReadsTyped, Zenon DEF Reads
<1>2. next = Stack(0, b, 1) /\ ItemData(S) /\ ItemList(token_list[b].next[1], S)
  BY Zenon DEF AtFields
<1>3. t \in ItemOffers(S)
  <2>1. Expected = token_list[b].next[1]
    <3>1. 0 \in Nat /\ 1 \in Nat /\ 1 > 0
      BY SMT
    <3> QED
      BY <1>1, <1>2, <3>1, StackOffers, Zenon
  <2> QED
    BY <1>1, <1>2, <2>1, Zenon DEF ItemList
<1>4. ASSUME token.call = "parse_default"
      PROVE  /\ out' = out /\ ItemData(S)' /\ out'.item_ends \in 0..1 /\ out'.action_ends = 0
             /\ phase' = "reading" =>
                  next' = Stack(0, t, Len(token.next)) /\ Pending(t, Len(token.args))'
  <2>1. Accept(t, token) /\ out' = out /\ objdata' = objdata
    BY <1>1, <1>4, Defaults, Zenon
  <2>2. ItemData(S)' /\ out'.item_ends \in 0..1 /\ out'.action_ends = 0
    BY <1>2, <2>1, ItemDataKept, Zenon
  <2>3. phase' = "reading" =>
          next' = Stack(0, t, Len(token.next)) /\ Pending(t, Len(token.args))'
    <3>1. 0 \in Nat
      BY SMT
    <3> QED
      BY <1>1, <1>2, <2>1, <3>1, Forward, Zenon
  <2> QED
    BY <2>1, <2>2, <2>3, Zenon
<1>5. CASE t = "ITEM_NEXT"
  <2>1. token = Word(<<next_item>>)
    BY <1>5, LandmarkRows, Zenon
  <2>2. token.call = "parse_default" /\ Len(token.next) = 1 /\ token.next[1] = next_item
    BY <2>1, SMT DEF Word, Token
  <2>3. PatternList(token.next[1])
    BY <2>2, Zenon DEF PatternList
  <2> HIDE DEF token
  <2> QED
    BY <1>4, <2>2, <2>3, Zenon DEF AtItems, ItemData, token
<1>6. CASE FieldOf(token, S)
  <2>1. token.call = "parse_default" /\ Len(token.next) = 3
    BY <1>6, Zenon DEF FieldOf, FieldShape
  <2> HIDE DEF token
  <2> QED
    BY <1>4, <1>6, <2>1, Zenon DEF AtParam, FieldLike, token
<1>7. CASE \/ t = "ITEM_ECPRI_COMMON" /\ S = "item_ecpri"
           \/ t = "ITEM_L2TPV2_COMMON" /\ S = "item_l2tpv2"
  <2>1. \/ token = Word(<<item_ecpri_common>>) /\ S = "item_ecpri"
        \/ token = Word(<<item_l2tpv2_common>>) /\ S = "item_l2tpv2"
    BY <1>7, LandmarkRows, Zenon
  <2>2. /\ token.call = "parse_default" /\ Len(token.next) = 1
        /\ \/ token.next[1] = item_ecpri_common /\ S = "item_ecpri"
           \/ token.next[1] = item_l2tpv2_common /\ S = "item_l2tpv2"
    BY <2>1, SMT DEF Word, Token
  <2>3. ItemList(token.next[1], S)
    BY <2>2, ItemLists, Zenon
  <2> HIDE DEF token
  <2> QED
    BY <1>4, <2>2, <2>3, Zenon DEF AtFields, token
<1>8. CASE \/ t = "ITEM_ECPRI_COMMON_TYPE" /\ S = "item_ecpri"
           \/ t = "ITEM_L2TPV2_COMMON_TYPE" /\ S = "item_l2tpv2"
  <2>1. \/ token = Token("parse_default", <<item_ecpri_common_type>>, <<"item_ecpri">>, "none")
        \/ token = Token("parse_default", <<item_l2tpv2_common_type>>, <<"item_l2tpv2">>, "none")
    BY <1>8, LandmarkRows, Zenon
  <2>2. token.call = "parse_default" /\ Len(token.next) = 1 /\ Len(token.args) = 1
    BY <2>1, SMT DEF Token
  <2> HIDE DEF token
  <2> QED
    BY <1>4, <1>8, <2>2, Zenon DEF AtType, token
<1> HIDE DEF token
<1> QED
  BY <1>3, <1>4, <1>5, <1>6, <1>7, <1>8, ItemOffered, SMT DEF token

(* The arguments of the keyword stay below the word read after it.         *)
LEMMA PendingKept ==
  ASSUME NEW b, NEW r, Pending(b, r), args' = args
  PROVE  Pending(b, r)'
  BY Zenon DEF Pending

(* What a value does: its arguments are taken off the stack.               *)
LEMMA ValueRead ==
  ASSUME NEW t, NEW token, Parse(t, token), ValueOf(token, OneCalls) \/ ValueOf(token, ThreeCalls)
  PROVE  /\ token.next = <<>> /\ token.args = <<>>
         /\ out' = out /\ object' = object /\ objdata' = objdata
         /\ \E n \in {1, 3} : Len(args) >= n /\ Push(t, token, next, SubSeq(args, 1, Len(args) - n))
<1>1. CASE ValueOf(token, OneCalls)
  <2>1. Store(t, token, 1)
    <3>1. \/ parse_prefix(t, token) \/ parse_int(t, token) \/ parse_boolean(t, token)
          \/ parse_string0(t, token) \/ parse_mac_addr(t, token) \/ parse_ipv4_addr(t, token)
          \/ parse_ipv6_addr(t, token) \/ parse_port(t, token) \/ parse_flex_handle(t, token)
      <4>1. token.call \in OneCalls
        BY <1>1, Zenon DEF ValueOf
      <4> QED
        BY <4>1, CallOf, Zenon DEF OneCalls
    <3> QED
      BY <3>1, Zenon DEF parse_prefix, parse_int, parse_boolean, parse_string0, parse_mac_addr,
        parse_ipv4_addr, parse_ipv6_addr, parse_port, parse_flex_handle
  <2> QED
    BY <1>1, <2>1, Zenon DEF Store, ValueOf
<1>2. CASE ValueOf(token, ThreeCalls)
  <2>1. Store(t, token, 3)
    <3>1. parse_string(t, token) \/ parse_hex(t, token)
      <4>1. token.call \in ThreeCalls
        BY <1>2, Zenon DEF ValueOf
      <4> QED
        BY <4>1, CallOf, Zenon DEF ThreeCalls
    <3> QED
      BY <3>1, Zenon DEF parse_string, parse_hex
  <2> QED
    BY <1>2, <2>1, Zenon DEF Store, ValueOf
<1> QED
  BY <1>1, <1>2, Zenon

(* After a value the list below its own is the last.                       *)
LEMMA ValueStacks ==
  ASSUME Typed, NEW q \in Nat, NEW m \in Nat, m > 0, NEW b, next = Stack(q, b, m),
         NEW t \in Tokens, Parse(t, token_list[t]), phase' = "reading",
         ValueOf(token_list[t], OneCalls) \/ ValueOf(token_list[t], ThreeCalls)
  PROVE  next' = Stack(q, b, m - 1) /\ curr' = t
<1>1. PICK n \in {1, 3} :
        Len(args) >= n /\ Push(t, token_list[t], next, SubSeq(args, 1, Len(args) - n))
  BY ValueRead, Zenon
<1>2. SubSeq(args, 1, Len(args) - n) \in Seq(OnStack)
  BY <1>1, SMT DEF Typed
<1>3. token_list[t].next = <<>>
  BY ValueRead, Zenon
<1> QED
  BY <1>1, <1>2, <1>3, Pushed, ZenonT(60)

(* The values of a field are one of the common ones.                       *)
LEMMA ListedValues ==
  ASSUME NEW t, NEW L, NEW n, ValueList(L, n), t \in L
  PROVE  ValueOf(token_list[t], OneCalls) \/ ValueOf(token_list[t], ThreeCalls)
<1>1. t \in OneValues \/ t \in ThreeValues
  BY Zenon DEF ValueList
<1>2. t \in OneValues => ValueOf(token_list[t], OneCalls)
  BY ValueTokens, Zenon DEF OneValues
<1>3. t \in ThreeValues => ValueOf(token_list[t], ThreeCalls)
  BY ValueTokens, Zenon DEF ThreeValues
<1> QED
  BY <1>1, <1>2, <1>3, Zenon

(* What a field and proto_id have.                                         *)
LEMMA FieldLists ==
  ASSUME NEW b \in Tokens, NEW S, FieldLike(b, S)
  PROVE  /\ token_list[b].next[3] \subseteq item_param
         /\ ValueList(token_list[b].next[2], Len(token_list[b].args))
         /\ ItemList(token_list[b].next[1], S)
         /\ \A i \in DOMAIN token_list[b].args : token_list[b].args[i] \in {S, "none"}
         /\ Len(token_list[b].args) \in {1, 3}
<1>1. CASE FieldOf(token_list[b], S)
  BY <1>1, SoundTable, Zenon DEF Sound, FieldSound, FieldOf, ValueList
<1>2. CASE b = "ITEM_PPPOE_PROTO_ID" /\ S = "item_pppoe_proto_id"
  <2>1. token_list[b] = Token("parse_vc", <<item_pppoe_proto_id, NEXT_ENTRY("COMMON_UNSIGNED"),
          item_param>>, <<"item_pppoe_proto_id">>, "item_pppoe_proto_id")
    BY <1>2, LandmarkRows, Zenon
  <2>2. /\ token_list[b].next[3] = item_param
        /\ token_list[b].next[2] = NEXT_ENTRY("COMMON_UNSIGNED")
        /\ token_list[b].next[1] = item_pppoe_proto_id
        /\ Len(token_list[b].args) = 1
        /\ \A i \in DOMAIN token_list[b].args : token_list[b].args[i] = "item_pppoe_proto_id"
    BY <2>1, SMT DEF Token
  <2>3. ItemList(item_pppoe_proto_id, "item_pppoe_proto_id")
    BY ItemLists, Zenon
  <2> QED
    BY <1>2, <2>2, <2>3, ListsOfValues, Zenon
<1> QED
  BY <1>1, <1>2, Zenon DEF FieldLike

(* The front of three entries.                                             *)
LEMMA FrontOfThree ==
  ASSUME NEW x, NEW y, NEW z
  PROVE  Front(<<x, y, z>>) = <<x, y>>
<1> DEFINE s == <<x, y, z>>
          S == {x, y, z}
<1>1. Len(s) = 3 /\ s \in Seq(S) /\ s[1] = x /\ s[2] = y
  BY SMT
<1>2. SubSeq(s, 1, 2) \in Seq(S) /\ Len(SubSeq(s, 1, 2)) = 2
  BY <1>1, SMT
<1>3. SubSeq(s, 1, 2)[1] = x /\ SubSeq(s, 1, 2)[2] = y
  BY <1>1, SMT
<1>4. <<x, y>> \in Seq(S) /\ Len(<<x, y>>) = 2
  BY SMT
<1>5. \A i \in 1 .. 2 : SubSeq(s, 1, 2)[i] = <<x, y>>[i]
  BY <1>3, SMT
<1> HIDE DEF s, S
<1>6. SubSeq(s, 1, 2) = <<x, y>>
  <2> DEFINE u == SubSeq(s, 1, 2)
             v == <<x, y>>
  <2>1. u \in Seq(S) /\ v \in Seq(S) /\ Len(u) = Len(v) /\ \A i \in 1 .. Len(u) : u[i] = v[i]
    BY <1>2, <1>4, <1>5, Zenon
  <2> HIDE DEF u, v
  <2>2. u = v
    BY <2>1, SeqEqual, Zenon
  <2> QED
    BY <2>2, Zenon DEF u, v
<1>7. Front(s) = SubSeq(s, 1, 2)
  BY <1>1, SMT DEF Front
<1> QED
  BY <1>6, <1>7, Zenon DEF s

(* From before is, spec, last, mask or prefix.                             *)
LEMMA ParamStep ==
  ASSUME Typed, Grammatical, NEW S, NEW b \in Tokens, AtParam(b, S), NEW t, Reads(t)
  PROVE  /\ out' = out /\ out'.item_ends \in 0..1 /\ out'.action_ends = 0
         /\ phase' = "reading" => AtValue(b, S)'
<1> DEFINE token == token_list[t]
<1>1. /\ t \in Tokens /\ phase = "reading" /\ t \in Expected /\ Parse(t, token)
      /\ args \in Seq(OnStack)
  BY ReadsTyped, Zenon DEF Reads
<1>2. /\ next = Stack(0, b, 3) /\ ItemData(S) /\ FieldLike(b, S)
      /\ Pending(b, Len(token_list[b].args))
  BY Zenon DEF AtParam
<1>3. t \in item_param
  <2>1. token_list[b].next[3] \subseteq item_param
    BY <1>2, FieldLists, Zenon
  <2>2. Expected = token_list[b].next[3]
    <3>1. 0 \in Nat /\ 3 \in Nat /\ 3 > 0
      BY SMT
    <3> QED
      BY <1>1, <1>2, <3>1, StackOffers, Zenon
  <2> QED
    BY <1>1, <2>1, <2>2, Zenon
<1>4. token.call = "parse_vc_spec" /\ token.next = <<>> /\ token.args = <<>>
  <2>1. ValueOf(token, {"parse_vc_spec"})
    BY <1>3, ValueTokens, SMT DEF item_param
  <2> QED
    BY <2>1, Zenon DEF ValueOf
<1>5. /\ out' = out /\ objdata' = objdata /\ object' = out.data
      /\ IF t = "ITEM_PARAM_PREFIX"
         THEN Push(t, token, [next EXCEPT ![Len(next) - 1].n = 0], args)
         ELSE Push(t, token, next, args)
  BY <1>1, <1>4, CallOf, Zenon DEF parse_vc_spec, Accept
<1>6. ItemData(S)' /\ out'.item_ends \in 0..1 /\ out'.action_ends = 0 /\ object' = S
  <2>1. out.data = S
    BY <1>2, Zenon DEF ItemData
  <2> QED
    BY <1>2, <1>5, <2>1, ItemDataKept, Zenon
<1> HIDE DEF token
<1>7. CASE t # "ITEM_PARAM_PREFIX" /\ phase' = "reading"
  <2>1. 0 \in Nat /\ 3 \in Nat /\ 3 > 0 /\ 3 - 1 = 2
    BY SMT
  <2>2. Push(t, token_list[t], next, args) /\ token_list[t].next = <<>> /\ token_list[t].args = <<>>
    BY <1>4, <1>5, <1>7, Zenon DEF token
  <2>3. next = Stack(0, b, 3) /\ t \in Tokens /\ args \in Seq(OnStack) /\ phase' = "reading"
    BY <1>1, <1>2, <1>7, Zenon
  <2>4. next' = Stack(0, b, 3 - 1) /\ args' = args
    BY <2>1, <2>2, <2>3, Pushed, ZenonT(60)
  <2> QED
    BY <1>2, <1>5, <1>6, <2>1, <2>4, PendingKept, Zenon DEF AtValue
<1>8. CASE t = "ITEM_PARAM_PREFIX" /\ phase' = "reading"
  <2>1. Push(t, token, [next EXCEPT ![Len(next) - 1].n = 0], args)
    BY <1>5, <1>8, Zenon
  <2>2. /\ Len(next) = 3
        /\ next = <<[by |-> b, n |-> 1], [by |-> b, n |-> 2], [by |-> b, n |-> 3]>>
    BY <1>2, SMT DEF Stack
  <2>3. [next EXCEPT ![Len(next) - 1].n = 0]
          = <<[by |-> b, n |-> 1], [by |-> b, n |-> 0], [by |-> b, n |-> 3]>>
    BY <2>2, SMT
  <2>4. Front(<<[by |-> b, n |-> 1], [by |-> b, n |-> 0], [by |-> b, n |-> 3]>>)
          = <<[by |-> b, n |-> 1], [by |-> b, n |-> 0]>>
    BY FrontOfThree, Zenon
  <2>5. /\ next' = <<[by |-> b, n |-> 1], [by |-> b, n |-> 0]>> \o [i \in DOMAIN token.next |-> [by |-> t, n |-> i]]
        /\ args' = args \o [i \in DOMAIN token.args |-> [by |-> t, n |-> i]]
    BY <1>8, <2>1, <2>3, <2>4, Zenon DEF Push
  <2>6. /\ [i \in DOMAIN token.next |-> [by |-> t, n |-> i]] = <<>>
        /\ [i \in DOMAIN token.args |-> [by |-> t, n |-> i]] = <<>>
    BY <1>4, SMT
  <2>7. next' = <<[by |-> b, n |-> 1], [by |-> b, n |-> 0]>> /\ args' = args
    <3>1. /\ next' = <<[by |-> b, n |-> 1], [by |-> b, n |-> 0]>> \o <<>>
          /\ args' = args \o <<>>
      BY <2>5, <2>6, Zenon
    <3> QED
      BY <1>1, <3>1, SMT
  <2> QED
    BY <1>2, <1>5, <1>6, <2>7, PendingKept, Zenon DEF AtValue
<1> QED
  BY <1>5, <1>6, <1>7, <1>8, Zenon

(* The stack while a prefix length is expected.                            *)
LEMMA PrefixStack ==
  ASSUME NEW b, next = <<[by |-> b, n |-> 1], [by |-> b, n |-> 0]>>
  PROVE  /\ Front(next) = Stack(0, b, 1)
         /\ phase = "reading" => Expected = {"COMMON_PREFIX"}
<1>1. Last(next) = [by |-> b, n |-> 0] /\ next # <<>> /\ Len(next) = 2
  BY SMT DEF Last
<1>2. Front(next) = Stack(0, b, 1)
  <2> DEFINE u == Front(next)
             v == Stack(0, b, 1)
             S == [by : {b}, n : {0, 1}]
  <2>1. next \in Seq(S) /\ next[1] = [by |-> b, n |-> 1]
    BY SMT
  <2>2. u \in Seq(S) /\ Len(u) = 1 /\ u[1] = [by |-> b, n |-> 1]
    BY <1>1, <2>1, SMT DEF Front
  <2>3. Len(v) = 1 /\ v[1] = [by |-> b, n |-> 1] /\ v \in Seq(S)
    BY SMT DEF Stack
  <2>4. \A i \in 1 .. Len(u) : u[i] = v[i]
    BY <2>2, <2>3, SMT
  <2> HIDE DEF u, v, S
  <2>5. u = v
    BY <2>2, <2>3, <2>4, SeqEqual, Zenon
  <2> QED
    BY <2>5, Zenon DEF u, v
<1>3. List([by |-> b, n |-> 0]) = {"COMMON_PREFIX"}
  BY SMT DEF List
<1> QED
  BY <1>1, <1>2, <1>3, Zenon DEF Expected

(* From before the value of a field.                                       *)
LEMMA ValueStep ==
  ASSUME Typed, Grammatical, NEW S, NEW b \in Tokens, AtValue(b, S), NEW t, Reads(t)
  PROVE  /\ out' = out /\ out'.item_ends \in 0..1 /\ out'.action_ends = 0
         /\ phase' = "reading" => AtFields(b, S)'
<1> DEFINE token == token_list[t]
<1>1. /\ t \in Tokens /\ phase = "reading" /\ t \in Expected /\ Parse(t, token)
      /\ args \in Seq(OnStack)
  BY ReadsTyped, Zenon DEF Reads
<1>2. /\ \/ next = Stack(0, b, 2)
         \/ next = <<[by |-> b, n |-> 1], [by |-> b, n |-> 0]>>
      /\ ItemData(S) /\ FieldLike(b, S)
  BY Zenon DEF AtValue
<1>3. /\ ValueList(token_list[b].next[2], Len(token_list[b].args))
      /\ ItemList(token_list[b].next[1], S)
  BY <1>2, FieldLists, Zenon
<1>4. 0 \in Nat /\ 2 \in Nat /\ 2 > 0 /\ 2 - 1 = 1
  BY SMT
<1>5. ValueOf(token, OneCalls) \/ ValueOf(token, ThreeCalls)
  <2>1. CASE next = Stack(0, b, 2)
    <3>1. Expected = token_list[b].next[2]
      BY <1>1, <1>4, <2>1, StackOffers, Zenon
    <3> QED
      BY <1>1, <1>3, <3>1, ListedValues, Zenon
  <2>2. CASE next = <<[by |-> b, n |-> 1], [by |-> b, n |-> 0]>>
    <3>1. t = "COMMON_PREFIX"
      BY <1>1, <2>2, PrefixStack, Zenon
    <3> QED
      BY <3>1, ValueTokens, Zenon
  <2> QED
    BY <1>2, <2>1, <2>2, Zenon
<1>6. out' = out /\ objdata' = objdata
  BY <1>1, <1>5, ValueRead, Zenon
<1>7. ItemData(S)' /\ out'.item_ends \in 0..1 /\ out'.action_ends = 0
  BY <1>2, <1>6, ItemDataKept, Zenon
<1> HIDE DEF token
<1>8. ASSUME phase' = "reading"
      PROVE  next' = Stack(0, b, 1)
  <2>1. CASE next = Stack(0, b, 2)
    <3>1. next' = Stack(0, b, 2 - 1)
      BY <1>1, <1>4, <1>5, <1>8, <2>1, ValueStacks, Zenon DEF token
    <3> QED
      BY <1>4, <3>1, Zenon
  <2>2. CASE next = <<[by |-> b, n |-> 1], [by |-> b, n |-> 0]>>
    <3>1. PICK n \in {1, 3} :
            Len(args) >= n /\ Push(t, token, next, SubSeq(args, 1, Len(args) - n))
      BY <1>1, <1>5, ValueRead, Zenon
    <3>2. next' = Front(next) \o [i \in DOMAIN token.next |-> [by |-> t, n |-> i]]
      BY <1>8, <3>1, Zenon DEF Push
    <3>3. [i \in DOMAIN token.next |-> [by |-> t, n |-> i]] = <<>>
      <4>1. token.next = <<>>
        BY <1>1, <1>5, ValueRead, Zenon
      <4> QED
        BY <4>1, SMT
    <3>4. next' = Stack(0, b, 1) \o <<>>
      BY <2>2, <3>2, <3>3, PrefixStack, Zenon
    <3> QED
      BY <3>4, SMT DEF Stack
  <2> QED
    BY <1>2, <2>1, <2>2, Zenon
<1> QED
  BY <1>3, <1>6, <1>7, <1>8, Zenon DEF AtFields

(* From before the type of a message.                                      *)
LEMMA TypeStep ==
  ASSUME Typed, Grammatical, NEW S, NEW b \in Tokens, AtType(b, S), NEW t, Reads(t)
  PROVE  /\ out' = out /\ out'.item_ends \in 0..1 /\ out'.action_ends = 0
         /\ phase' = "reading" => AtFields(t, S)'
<1> DEFINE token == token_list[t]
<1>1. /\ t \in Tokens /\ phase = "reading" /\ t \in Expected /\ Parse(t, token)
      /\ args \in Seq(OnStack)
  BY ReadsTyped, Zenon DEF Reads
<1>2. /\ next = Stack(0, b, 1) /\ ItemData(S)
      /\ \/ S = "item_ecpri" /\ b = "ITEM_ECPRI_COMMON_TYPE"
         \/ S = "item_l2tpv2" /\ b = "ITEM_L2TPV2_COMMON_TYPE"
  BY Zenon DEF AtType
<1>3. 0 \in Nat /\ 1 \in Nat /\ 1 > 0
  BY SMT
<1>4. Expected = token_list[b].next[1]
  BY <1>1, <1>2, <1>3, StackOffers, Zenon
<1>5. TypeOf(token, "parse_vc_item_ecpri_type", S) \/ TypeOf(token, "parse_vc_item_l2tpv2_type", S)
  <2>1. CASE S = "item_ecpri" /\ b = "ITEM_ECPRI_COMMON_TYPE"
    <3>1. t \in item_ecpri_common_type
      <4>1. token_list[b] = Token("parse_default", <<item_ecpri_common_type>>, <<"item_ecpri">>, "none")
        BY <2>1, LandmarkRows, Zenon
      <4> QED
        BY <1>1, <1>4, <4>1, SMT DEF Token
    <3> QED
      BY <2>1, <3>1, WordsAndTypes, Zenon DEF item_ecpri_common_type
  <2>2. CASE S = "item_l2tpv2" /\ b = "ITEM_L2TPV2_COMMON_TYPE"
    <3>1. t \in item_l2tpv2_common_type
      <4>1. token_list[b] = Token("parse_default", <<item_l2tpv2_common_type>>, <<"item_l2tpv2">>, "none")
        BY <2>2, LandmarkRows, Zenon
      <4> QED
        BY <1>1, <1>4, <4>1, SMT DEF Token
    <3> QED
      BY <2>2, <3>1, WordsAndTypes, Zenon DEF item_l2tpv2_common_type
  <2> QED
    BY <1>2, <2>1, <2>2, Zenon
<1>6. /\ args # <<>> /\ Push(t, token, next, Front(args))
      /\ out' = out /\ objdata' = objdata
  <2>1. token.call \in {"parse_vc_item_ecpri_type", "parse_vc_item_l2tpv2_type"}
    BY <1>5, Zenon DEF TypeOf
  <2> QED
    BY <1>1, <2>1, CallOf, Zenon DEF MessageType, parse_vc_item_ecpri_type, parse_vc_item_l2tpv2_type
<1>7. ItemData(S)' /\ out'.item_ends \in 0..1 /\ out'.action_ends = 0
  BY <1>2, <1>6, ItemDataKept, Zenon
<1>8. Front(args) \in Seq(OnStack)
  BY <1>1, <1>6, SMT DEF Front
<1> HIDE DEF token
<1>9. Len(token.next) = 1 /\ ItemList(token.next[1], S)
  BY <1>5, Zenon DEF TypeOf
<1>10. phase' = "reading" => next' = Stack(0, t, 1)
  <2>1. ASSUME phase' = "reading"
        PROVE  1 = 1 => next' = Stack(0, t, Len(token.next))
    BY <1>1, <1>2, <1>3, <1>6, <1>8, <2>1, Pushed, ZenonT(60) DEF token
  <2> QED
    BY <1>9, <2>1, Zenon
<1> QED
  BY <1>6, <1>7, <1>9, <1>10, Zenon DEF AtFields, token

-----------------------------------------------------------------------------
(* Actions.                                                                *)

(* Every action but two appends an entry and goes on with its fields.      *)
LEMMA NextActions ==
  ASSUME NEW t \in next_action
  PROVE  t \in {"ACTION_END", "ACTION_INDIRECT"} \/ ActionHead(token_list[t])
  BY ActionHeads, SMT DEF next_action

(* The counts of the lists while actions are read.                         *)
LEMMA InActionsEnds ==
  ASSUME NEW q \in 0..2, InActions(q)
  PROVE  /\ out.area = "actions" /\ out.command # "ZERO"
         /\ out.item_ends \in 0..1 /\ out.action_ends \in 0..2
  BY SMT DEF InActions, PatternCommands, SetRaw

(* They stay what they are when the counts and the command do.             *)
LEMMA InActionsKept ==
  ASSUME NEW q \in 0..2, InActions(q), out'.command = out.command, out'.area = out.area,
         out'.item_ends = out.item_ends, out'.action_ends = out.action_ends
  PROVE  InActions(q)' /\ out'.item_ends \in 0..1 /\ out'.action_ends \in 0..3
<1>1. InActions(q)'
  BY Zenon DEF InActions
<1>2. 0..2 \subseteq 0..3
  BY SMT
<1> QED
  BY <1>1, <1>2, InActionsEnds, Zenon

(* What is written for an action.                                          *)
LEMMA AppendAction ==
  ASSUME out \in Buffer, out.area = "actions", NEW t, NEW token, Append_entry(t, token)
  PROVE  /\ out'.command = out.command /\ out'.area = out.area /\ out'.item_ends = out.item_ends
         /\ out'.action_ends = IF t = "ACTION_END" THEN out.action_ends + 1 ELSE out.action_ends
         /\ object' = "action"
         /\ token.priv # "void" => out'.data = token.priv /\ objdata' = token.priv
<1>1. out.action_ends \in Nat
  BY Zenon DEF Buffer
<1>2. out.action_ends + (IF t = "ACTION_END" THEN 1 ELSE 0)
        = IF t = "ACTION_END" THEN out.action_ends + 1 ELSE out.action_ends
  BY <1>1, SMT
<1>3. out.area # "pattern"
  BY SMT
<1>4. /\ object' = "action" /\ (token.priv # "void" => objdata' = token.priv)
      /\ out' = [out EXCEPT !.data = IF token.priv = "void" THEN out.data ELSE token.priv,
                            !.action_ends = out.action_ends + (IF t = "ACTION_END" THEN 1 ELSE 0)]
  BY <1>3, Zenon DEF Append_entry
<1>5. /\ out'.command = out.command /\ out'.area = out.area /\ out'.item_ends = out.item_ends
      /\ out'.action_ends = out.action_ends + (IF t = "ACTION_END" THEN 1 ELSE 0)
      /\ out'.data = IF token.priv = "void" THEN out.data ELSE token.priv
  BY <1>4, Zenon DEF Buffer
<1> QED
  BY <1>2, <1>4, <1>5, Zenon

(* Where the actions of a rule begin.                                      *)
LEMMA PatternEndStep ==
  ASSUME Typed, Grammatical, AfterPattern, NEW t, Reads(t)
  PROVE  /\ out'.item_ends \in 0..1 /\ out'.action_ends = 0
         /\ phase' = "reading" => t \in Tokens /\ AtActions(0, t)'
<1> DEFINE token == token_list[t]
<1>1. /\ t \in Tokens /\ phase = "reading" /\ t \in Expected /\ Parse(t, token)
      /\ out \in Buffer
  BY ReadsTyped, Zenon DEF Reads
<1>2. /\ next = Stack(0, "ITEM_END", 1)
      /\ out.command \in PatternCommands /\ out.area = "pattern"
      /\ out.item_ends = 1 /\ out.action_ends = 0
  BY Zenon DEF AfterPattern
<1>3. 0 \in Nat /\ 1 \in Nat /\ 1 > 0 /\ 1 \in 0..1
  BY SMT
<1>4. t = "ACTIONS"
  <2>1. Expected = token_list["ITEM_END"].next[1]
    BY <1>1, <1>2, <1>3, StackOffers, Zenon
  <2>2. token_list["ITEM_END"].next[1] = NEXT_ENTRY("ACTIONS")
    <3>1. token_list["ITEM_END"] = Place(NEXT_ENTRY("ACTIONS"), "void")
      BY LandmarkRows, Zenon
    <3> QED
      BY <3>1, SMT DEF Place, Token
  <2> QED
    BY <1>1, <2>1, <2>2, SMT DEF NEXT_ENTRY
<1>5. token.call = "parse_vc" /\ Len(token.next) = 1 /\ token.next[1] = next_action
  <2>1. token = Call("parse_vc", <<next_action>>)
    BY <1>4, LandmarkRows, Zenon
  <2> QED
    BY <2>1, SMT DEF Call, Token
<1>6. Accept(t, token) /\ out' = [out EXCEPT !.area = "actions"]
  <2>1. t \notin {"VALIDATE", "CREATE", "ITEM_PATTERN"} \cup vc_attributes
    BY <1>4, SMT DEF vc_attributes, next_vc_attr
  <2> QED
    BY <1>1, <1>4, <1>5, <2>1, CallOf, Zenon DEF parse_vc, vc, FirstIs
<1> HIDE DEF token
<1>7. /\ out'.command \in PatternCommands /\ out'.area = "actions"
      /\ out'.item_ends = 1 /\ out'.action_ends = 0
  BY <1>1, <1>2, <1>6, Zenon DEF Buffer
<1>8. InActions(0)' /\ out'.item_ends \in 0..1
  BY <1>3, <1>7, Zenon DEF InActions
<1>9. phase' = "reading" => next' = Stack(0, t, 1)
  BY <1>1, <1>2, <1>3, <1>5, <1>6, Forward, Zenon DEF token
<1>10. ActionsList(token.next[1])
  BY <1>5, Zenon DEF ActionsList
<1> QED
  BY <1>1, <1>7, <1>8, <1>9, <1>10, Zenon DEF AtActions, token

(* The words that append an action.                                        *)
LEMMA HeadRead ==
  ASSUME Typed, NEW q \in 0..2, InActions(q), NEW t \in next_action, t # "ACTION_END",
         ActionHead(token_list[t]), Parse(t, token_list[t])
  PROVE  /\ Accept(t, token_list[t]) /\ Len(token_list[t].next) = 1
         /\ InActions(q)' /\ out'.item_ends \in 0..1 /\ out'.action_ends \in 0..3
         /\ \/ ActionsList(token_list[t].next[1])
            \/ /\ ActionList(token_list[t].next[1], out'.data)
               /\ objdata' = out'.data /\ ObjectFits(out.data)'
<1> DEFINE token == token_list[t]
<1>1. out \in Buffer /\ out.area = "actions" /\ out.command # "ZERO"
  BY InActionsEnds, Zenon DEF Typed
<1>2. token.args = <<>> /\ Len(token.next) = 1
  BY Zenon DEF ActionHead
<1>3. ASSUME Append_entry(t, token)
      PROVE  /\ InActions(q)' /\ out'.item_ends \in 0..1 /\ out'.action_ends \in 0..3
             /\ object' = "action"
             /\ token.priv # "void" => out'.data = token.priv /\ objdata' = token.priv
  <2>1. /\ out'.command = out.command /\ out'.area = out.area /\ out'.item_ends = out.item_ends
        /\ out'.action_ends = out.action_ends
        /\ object' = "action"
        /\ token.priv # "void" => out'.data = token.priv /\ objdata' = token.priv
    BY <1>1, <1>3, AppendAction, Zenon
  <2> QED
    BY <2>1, InActionsKept, Zenon
<1>4. CASE token.call = "parse_vc" /\ token.priv = "void" /\ ActionsList(token.next[1])
  <2>1. Append_entry(t, token) /\ Accept(t, token)
    BY <1>4, Appends, CallOf, Zenon
  <2> QED
    BY <1>2, <1>3, <1>4, <2>1, Zenon
<1>5. CASE /\ token.call \in {"parse_vc", "parse_vc_action_set_meta"}
           /\ token.priv \notin {"none", "void"} \cup Own
           /\ ActionList(token.next[1], token.priv)
  <2>1. Append_entry(t, token) /\ Accept(t, token)
    <3>1. CASE token.call = "parse_vc"
      BY <3>1, Appends, CallOf, Zenon
    <3>2. CASE token.call = "parse_vc_action_set_meta"
      BY <3>2, CallOf, Zenon DEF parse_vc_action_set_meta
    <3> QED
      BY <1>5, <3>1, <3>2, Zenon
  <2>2. out'.data = token.priv /\ objdata' = token.priv /\ object' = "action"
    BY <1>3, <1>5, <2>1, Zenon
  <2>3. ObjectFits(out.data)'
    BY <1>5, <2>2, Zenon DEF ObjectFits
  <2> QED
    BY <1>2, <1>3, <1>5, <2>1, <2>2, <2>3, Zenon
<1>6. CASE /\ token.call \in ConfiguredCalls
           /\ token.priv \notin {"none", "void", "action_meter_color"}
           /\ ActionList(token.next[1], token.priv)
  <2>1. Configured(t, token)
    BY <1>6, CallOf, Zenon DEF ConfiguredCalls, parse_vc_action_rss, parse_vc_action_vxlan_encap,
      parse_vc_action_nvgre_encap, parse_vc_action_l2_encap, parse_vc_action_l2_decap,
      parse_vc_action_mplsogre_encap, parse_vc_action_mplsogre_decap,
      parse_vc_action_mplsoudp_encap, parse_vc_action_mplsoudp_decap,
      parse_vc_action_raw_encap, parse_vc_action_raw_decap, parse_vc_action_sample
  <2>2. /\ Accept(t, token) /\ out' = [out EXCEPT !.data = token.priv]
        /\ object' = token.priv /\ objdata' = token.priv
    BY <2>1, Zenon DEF Configured
  <2>3. /\ out'.command = out.command /\ out'.area = out.area /\ out'.item_ends = out.item_ends
        /\ out'.action_ends = out.action_ends /\ out'.data = token.priv
    BY <1>1, <2>2, Zenon DEF Buffer
  <2>4. InActions(q)' /\ out'.item_ends \in 0..1 /\ out'.action_ends \in 0..3
    BY <2>3, InActionsKept, Zenon
  <2>5. ObjectFits(out.data)'
    BY <1>6, <2>2, <2>3, Zenon DEF ObjectFits
  <2> QED
    BY <1>2, <1>6, <2>2, <2>3, <2>4, <2>5, Zenon
<1> QED
  BY <1>4, <1>5, <1>6, Zenon DEF ActionHead

(* The lists each case of the dispatch reads.                              *)
LEMMA CasesOfDispatch ==
  /\ \A c \in {"VALIDATE", "CREATE"} : c \in DOMAIN cmd_flow_parsed /\ cmd_flow_parsed[c] = <<1, 1>>
  /\ \A c \in {"INDIRECT_ACTION_CREATE", "INDIRECT_ACTION_UPDATE", "SET_SAMPLE_ACTIONS"} :
       c \in DOMAIN cmd_flow_parsed /\ cmd_flow_parsed[c] = <<0, 1>>
  /\ \A c \in {"ACTION_POL_G"} : c \in DOMAIN cmd_flow_parsed /\ cmd_flow_parsed[c] = <<0, 3>>
  /\ \A c \in {"INDIRECT_ACTION_DESTROY", "INDIRECT_ACTION_QUERY", "DESTROY", "FLUSH", "DUMP_ONE",
               "DUMP_ALL", "QUERY", "LIST", "ISOLATE", "AGED", "TUNNEL_CREATE", "TUNNEL_DESTROY",
               "TUNNEL_LIST", "FLEX_ITEM_CREATE", "FLEX_ITEM_DESTROY", "SET_RAW_ENCAP",
               "SET_RAW_DECAP"} :
       c \in DOMAIN cmd_flow_parsed /\ cmd_flow_parsed[c] = <<0, 0>>
<1> DEFINE D == DOMAIN cmd_flow_parsed
<1>1. D = {"VALIDATE", "CREATE", "INDIRECT_ACTION_CREATE", "INDIRECT_ACTION_UPDATE",
           "INDIRECT_ACTION_DESTROY", "INDIRECT_ACTION_QUERY", "ACTION_POL_G", "DESTROY",
           "FLUSH", "DUMP_ONE", "DUMP_ALL", "QUERY", "LIST", "ISOLATE", "AGED",
           "TUNNEL_CREATE", "TUNNEL_DESTROY", "TUNNEL_LIST", "FLEX_ITEM_CREATE",
           "FLEX_ITEM_DESTROY"} \cup cmd_set_raw_parsed
  BY Zenon DEF cmd_flow_parsed
<1>2. \A c \in D :
        cmd_flow_parsed[c] =
          CASE c \in {"VALIDATE", "CREATE"} -> <<1, 1>>
            [] c \in {"INDIRECT_ACTION_CREATE", "INDIRECT_ACTION_UPDATE",
                      "SET_SAMPLE_ACTIONS"} -> <<0, 1>>
            [] c = "ACTION_POL_G" -> <<0, 3>>
            [] OTHER -> <<0, 0>>
  BY <1>1, Zenon DEF cmd_flow_parsed
<1> HIDE DEF D
<1>3. \A c \in {"VALIDATE", "CREATE"} : c \in D /\ cmd_flow_parsed[c] = <<1, 1>>
  BY <1>1, <1>2, SMT
<1>4. \A c \in {"INDIRECT_ACTION_CREATE", "INDIRECT_ACTION_UPDATE", "SET_SAMPLE_ACTIONS"} :
        c \in D /\ cmd_flow_parsed[c] = <<0, 1>>
  BY <1>1, <1>2, SMT DEF cmd_set_raw_parsed
<1>5. \A c \in {"ACTION_POL_G"} : c \in D /\ cmd_flow_parsed[c] = <<0, 3>>
  BY <1>1, <1>2, SMT
<1>6. \A c \in {"INDIRECT_ACTION_DESTROY", "INDIRECT_ACTION_QUERY", "DESTROY", "FLUSH", "DUMP_ONE",
                "DUMP_ALL", "QUERY", "LIST", "ISOLATE", "AGED", "TUNNEL_CREATE", "TUNNEL_DESTROY",
                "TUNNEL_LIST", "FLEX_ITEM_CREATE", "FLEX_ITEM_DESTROY", "SET_RAW_ENCAP",
                "SET_RAW_DECAP"} :
        c \in D /\ cmd_flow_parsed[c] = <<0, 0>>
  BY <1>1, <1>2, SMT DEF cmd_set_raw_parsed
<1> QED
  BY <1>3, <1>4, <1>5, <1>6, Zenon DEF D

(* The end of the only, or the last, list of actions ends the line.        *)
LEMMA LastEnd ==
  ASSUME InActions(0), out' \in Buffer,
         out'.command = out.command, out'.item_ends = out.item_ends,
         out'.action_ends = out.action_ends + 1
  PROVE  Dispatched'
<1>1. CASE /\ out.command \in PatternCommands /\ out.item_ends = 1 /\ out.action_ends = 0
  <2>1. out'.item_ends = 1 /\ out'.action_ends = 1
    BY <1>1, SMT
  <2>2. CASE out.command \in {"VALIDATE", "CREATE"}
    BY <2>1, <2>2, CasesOfDispatch, SMT DEF Dispatched
  <2>3. CASE out.command \in SetRaw
    BY <2>1, <2>3, CasesOfDispatch, SMT DEF Dispatched, SetRaw
  <2> QED
    BY <1>1, <2>2, <2>3, Zenon DEF PatternCommands
<1>2. CASE /\ out.command \in {"INDIRECT_ACTION_CREATE", "INDIRECT_ACTION_UPDATE",
                               "SET_SAMPLE_ACTIONS"}
           /\ out.item_ends = 0 /\ out.action_ends = 0
  <2>1. out'.item_ends = 0 /\ out'.action_ends = 1
    BY <1>2, SMT
  <2> QED
    BY <1>2, <2>1, CasesOfDispatch, SMT DEF Dispatched
<1>3. CASE out.command = "ACTION_POL_G" /\ out.item_ends = 0 /\ out.action_ends = 2 - 0
  <2>1. out'.item_ends = 0 /\ out'.action_ends = 3
    BY <1>3, SMT
  <2> QED
    BY <1>3, <2>1, CasesOfDispatch, SMT DEF Dispatched
<1> QED
  BY <1>1, <1>2, <1>3, Zenon DEF InActions

(* From before an action.                                                  *)
LEMMA ActionsStep ==
  ASSUME Typed, Grammatical, NEW q \in 0..2, NEW b \in Tokens, AtActions(q, b),
         NEW t, Reads(t)
  PROVE  /\ out'.item_ends \in 0..1 /\ out'.action_ends \in 0..3
         /\ phase' = "reading" => \/ AtActions(q, t)' \/ AtConf(q, t, out.data)'
                                  \/ AtIndirect(q)' \/ AtColor(q)' \/ AtEnd'
<1> DEFINE token == token_list[t]
<1>1. /\ t \in Tokens /\ phase = "reading" /\ t \in Expected /\ Parse(t, token)
      /\ out \in Buffer /\ out' \in Buffer
  BY ReadsTyped, Zenon DEF Reads, Typed
<1>2. next = Stack(q, b, 1) /\ InActions(q) /\ ActionsList(token_list[b].next[1])
  BY Zenon DEF AtActions
<1>3. q \in Nat /\ 1 \in Nat /\ 1 > 0 /\ 0 \in 0..1
  BY SMT
<1>4. t \in next_action \cup {"ACTION_NEXT"}
  <2>1. Expected = token_list[b].next[1]
    BY <1>1, <1>2, <1>3, StackOffers, Zenon
  <2> QED
    BY <1>1, <1>2, <2>1, Zenon DEF ActionsList
<1>5. ASSUME Accept(t, token), phase' = "reading"
      PROVE  /\ next' = Stack(q, t, Len(token.next))
             /\ token.next = <<>> => next' = Stack(q, b, 0)
             /\ Pending(t, Len(token.args))'
  BY <1>1, <1>2, <1>3, <1>5, Forward, Zenon
<1>6. CASE t = "ACTION_NEXT"
  <2>1. token = Word(<<next_action>>)
    BY <1>6, LandmarkRows, Zenon
  <2>2. token.call = "parse_default" /\ Len(token.next) = 1 /\ token.next[1] = next_action
    BY <2>1, SMT DEF Word, Token
  <2>3. ActionsList(token.next[1])
    BY <2>2, Zenon DEF ActionsList
  <2>4. Accept(t, token) /\ out' = out
    BY <1>1, <2>2, Defaults, Zenon
  <2>5. InActions(q)' /\ out'.item_ends \in 0..1 /\ out'.action_ends \in 0..3
    BY <1>2, <2>4, InActionsKept, Zenon
  <2> HIDE DEF token
  <2> QED
    BY <1>5, <2>2, <2>3, <2>4, <2>5, Zenon DEF AtActions, token
<1>7. CASE t \in next_action /\ t # "ACTION_END" /\ ActionHead(token)
  <2>1. /\ Accept(t, token) /\ Len(token.next) = 1
        /\ InActions(q)' /\ out'.item_ends \in 0..1 /\ out'.action_ends \in 0..3
        /\ \/ ActionsList(token.next[1])
           \/ /\ ActionList(token.next[1], out'.data)
              /\ objdata' = out'.data /\ ObjectFits(out.data)'
    BY <1>1, <1>2, <1>7, HeadRead, Zenon
  <2> HIDE DEF token
  <2>2. phase' = "reading" => next' = Stack(q, t, 1)
    BY <1>5, <2>1, Zenon
  <2> QED
    BY <2>1, <2>2, Zenon DEF AtActions, AtConf, ActionData, token
<1>8. ASSUME t \in next_action, token.call = "parse_vc"
      PROVE  /\ Accept(t, token) /\ object' = "action"
             /\ out'.command = out.command /\ out'.area = out.area /\ out'.item_ends = out.item_ends
             /\ out'.action_ends = IF t = "ACTION_END" THEN out.action_ends + 1 ELSE out.action_ends
  <2>1. Append_entry(t, token) /\ Accept(t, token)
    BY <1>1, <1>8, Appends, CallOf, Zenon
  <2>2. out.area = "actions"
    BY <1>2, InActionsEnds, Zenon
  <2> QED
    BY <1>1, <2>1, <2>2, AppendAction, Zenon
<1>9. CASE t = "ACTION_INDIRECT"
  <2>1. token = Token("parse_vc", <<NEXT_ENTRY("INDIRECT_ACTION_ID2PTR")>>, <<"id">>, "void")
    BY <1>9, LandmarkRows, Zenon
  <2>2. token.call = "parse_vc" /\ Len(token.next) = 1 /\ Len(token.args) = 1
    BY <2>1, SMT DEF Token
  <2>3. t \in next_action /\ t # "ACTION_END"
    BY <1>4, <1>9, SMT
  <2> HIDE DEF token
  <2>4. InActions(q)' /\ out'.item_ends \in 0..1 /\ out'.action_ends \in 0..3
    BY <1>2, <1>8, <2>2, <2>3, InActionsKept, Zenon
  <2>5. phase' = "reading" => next' = Stack(q, t, 1) /\ Pending(t, 1)'
    BY <1>5, <1>8, <2>2, <2>3, Zenon
  <2> QED
    BY <1>8, <1>9, <2>2, <2>3, <2>4, <2>5, Zenon DEF AtIndirect
<1>10. CASE t = "ACTION_END"
  <2>1. token = Token("parse_vc", <<>>, <<>>, "void")
    BY <1>10, LandmarkRows, Zenon
  <2>2. token.call = "parse_vc" /\ token.next = <<>>
    BY <2>1, SMT DEF Token
  <2>3. t \in next_action
    BY <1>4, <1>10, SMT
  <2> HIDE DEF token
  <2>4. /\ out'.command = out.command /\ out'.area = out.area /\ out'.item_ends = out.item_ends
        /\ out'.action_ends = out.action_ends + 1 /\ Accept(t, token)
    BY <1>8, <1>10, <2>2, <2>3, Zenon
  <2>5. /\ out'.item_ends \in 0..1 /\ out'.action_ends \in 0..3
        /\ out.action_ends \in 0..2
    BY <1>2, <2>4, InActionsEnds, SMT
  <2>6. phase' = "reading" => next' = Stack(q, b, 0)
    BY <1>5, <2>2, <2>4, Zenon
  <2>7. CASE q = 0
    <3>1. Stack(q, b, 0) = <<>>
      BY <2>7, StackFacts, SMT
    <3>2. Dispatched'
      BY <1>1, <1>2, <2>4, <2>7, LastEnd, Zenon
    <3> QED
      BY <2>5, <2>6, <3>1, <3>2, Zenon DEF AtEnd
  <2>8. CASE q \in 1..2
    <3>1. Stack(q, b, 0) = Stack(0, "ITEM_POL_POLICY", q)
      BY <2>8, SMT DEF Stack
    <3>2. out.command = "ACTION_POL_G" /\ out.item_ends = 0 /\ out.action_ends = 2 - q /\ out.area = "actions"
      <4>1. q # 0
        BY <2>8, SMT
      <4> QED
        BY <1>2, <4>1, Zenon DEF InActions
    <3>3. out'.command = "ACTION_POL_G" /\ out'.area = "actions" /\ out'.item_ends = 0
      BY <2>4, <3>2, Zenon
    <3>4. out'.action_ends = 3 - q
      BY <2>4, <2>8, <3>2, SMT
    <3> QED
      BY <2>5, <2>6, <2>8, <3>1, <3>3, <3>4, Zenon DEF AtColor
  <2> QED
    BY <2>7, <2>8, SMT
<1> HIDE DEF token
<1>11. t = "ACTION_NEXT" \/ t = "ACTION_END" \/ t = "ACTION_INDIRECT"
       \/ (t \in next_action /\ t # "ACTION_END" /\ ActionHead(token))
  BY <1>4, NextActions, SMT DEF token
<1> QED
  BY <1>6, <1>7, <1>9, <1>10, <1>11, Zenon

(* What may be said of an action.                                          *)
LEMMA ActionOffered ==
  ASSUME NEW S, NEW t \in ActionOffers(S)
  PROVE  \/ t \in {"ACTION_NEXT", "ACTION_SAMPLE", "ACTION_AGE"}
         \/ SettingOf(token_list[t], S) \/ ConfOf(token_list[t], S)
         \/ WordOf(token_list[t], S)
<1>1. CASE t \in Settings(S)
  <2>1. \/ S = "action_rss_data" /\
             t \in {"ACTION_RSS_FUNC", "ACTION_RSS_TYPES", "ACTION_RSS_QUEUES"}
        \/ S = "action_modify_field" /\
             t \in {"ACTION_MODIFY_FIELD_OP", "ACTION_MODIFY_FIELD_DST_TYPE",
                    "ACTION_MODIFY_FIELD_SRC_TYPE"}
        \/ S = "action_meter_color" /\ t \in {"ACTION_METER_COLOR_TYPE"}
    BY <1>1, SMT DEF Settings
  <2> QED
    BY <2>1, WordsAndTypes, Zenon
<1>2. CASE t \in Words(S)
  <2>1. \/ S = "action_raw_encap_data" /\
             t \in {"ACTION_RAW_ENCAP_INDEX", "ACTION_RAW_ENCAP_INDEX_VALUE"}
        \/ S = "action_raw_decap_data" /\
             t \in {"ACTION_RAW_DECAP_INDEX", "ACTION_RAW_DECAP_INDEX_VALUE"}
        \/ S = "action_sample_data" /\
             t \in {"ACTION_SAMPLE_INDEX", "ACTION_SAMPLE_INDEX_VALUE"}
        \/ S = "modify_conntrack" /\
             t \in {"ACTION_CONNTRACK_UPDATE_DIR", "ACTION_CONNTRACK_UPDATE_CTX"}
        \/ t \in {"ACTION_SAMPLE", "ACTION_AGE"}
    BY <1>2, SMT DEF Words
  <2>2. t \in {"ACTION_SAMPLE", "ACTION_AGE"} => t \in {"ACTION_NEXT", "ACTION_SAMPLE", "ACTION_AGE"}
    BY SMT
  <2> QED
    BY <2>1, <2>2, WordsAndTypes, Zenon
<1>3. CASE t = "ACTION_NEXT" \/ ConfOf(token_list[t], S)
  <2>1. t = "ACTION_NEXT" => t \in {"ACTION_NEXT", "ACTION_SAMPLE", "ACTION_AGE"}
    BY SMT
  <2> QED
    BY <1>3, <2>1, Zenon
<1> QED
  BY <1>1, <1>2, <1>3, Zenon DEF ActionOffers

(* What a word that leaves the entries and the object alone keeps.         *)
LEMMA ActionDataKept ==
  ASSUME NEW q \in 0..2, NEW S, ActionData(q, S), out' = out, objdata' = objdata, ObjectFits(S)'
  PROVE  ActionData(q, S)' /\ out'.item_ends \in 0..1 /\ out'.action_ends \in 0..3
<1>1. InActions(q) /\ out.data = S /\ objdata = S
  BY Zenon DEF ActionData
<1>2. InActions(q)' /\ out'.item_ends \in 0..1 /\ out'.action_ends \in 0..3
  BY <1>1, InActionsKept, Zenon
<1> QED
  BY <1>1, <1>2, Zenon DEF ActionData

(* A keyword that expects a value leaves the object at the configuration.  *)
LEMMA KeywordRead ==
  ASSUME NEW q \in 0..2, NEW S, ActionData(q, S), NEW t \in Tokens, Parse(t, token_list[t]),
         SettingOf(token_list[t], S) \/ ConfOf(token_list[t], S)
  PROVE  /\ Accept(t, token_list[t]) /\ Len(token_list[t].next) = 2
         /\ ActionData(q, S)' /\ (S # "action_meter_color" => object' = S)
         /\ out'.item_ends \in 0..1 /\ out'.action_ends \in 0..3
<1> DEFINE token == token_list[t]
<1>1. /\ Len(token.next) = 2
      /\ \/ token.call = "parse_default" /\ S \in Own \cup {"action_meter_color"}
         \/ token.call = "parse_vc_conf" /\ S # "action_meter_color"
  <2>1. CASE SettingOf(token, S)
    BY <2>1, Zenon DEF SettingOf
  <2>2. CASE ConfOf(token, S)
    <3>1. ConfSound(token)
      BY SoundTable, Zenon DEF Sound
    <3>2. /\ token.call \in {"parse_default", "parse_vc_conf"} /\ Len(token.next) = 2
          /\ Owner(token) = S /\ S # "action_meter_color"
          /\ ConfShape(token)
      BY <2>2, SMT DEF ConfOf, ConfShape
    <3>3. token.call = "parse_default" => S \in Own
      BY <3>1, <3>2, Zenon DEF ConfSound
    <3> QED
      BY <3>2, <3>3, Zenon
  <2> QED
    BY <2>1, <2>2, Zenon
<1> HIDE DEF token
<1>2. CASE token.call = "parse_default" /\ S \in Own \cup {"action_meter_color"}
  <2>1. Accept(t, token) /\ out' = out /\ object' = object /\ objdata' = objdata
    BY <1>2, Defaults, Zenon DEF token
  <2>2. ObjectFits(S)
    BY Zenon DEF ActionData
  <2>3. ObjectFits(S)' /\ (S # "action_meter_color" => object' = S)
    BY <1>2, <2>1, <2>2, Zenon DEF ObjectFits
  <2> QED
    BY <1>1, <2>1, <2>3, ActionDataKept, Zenon DEF token
<1>3. CASE token.call = "parse_vc_conf" /\ S # "action_meter_color"
  <2>1. Accept(t, token) /\ out' = out /\ object' = out.data /\ objdata' = objdata
    <3>1. parse_vc_conf(t, token)
      BY <1>3, CallOf, Zenon DEF token
    <3> QED
      BY <3>1, Zenon DEF parse_vc_conf
  <2>2. out.data = S
    BY Zenon DEF ActionData
  <2>3. ObjectFits(S)' /\ object' = S
    BY <1>3, <2>1, <2>2, Zenon DEF ObjectFits
  <2> QED
    BY <1>1, <2>1, <2>3, ActionDataKept, Zenon DEF token
<1> QED
  BY <1>1, <1>2, <1>3, Zenon

(* What the other words of an action do.                                   *)
LEMMA WordRead ==
  ASSUME NEW t \in Tokens, NEW S, Parse(t, token_list[t]), WordOf(token_list[t], S)
  PROVE  Accept(t, token_list[t]) /\ out' = out /\ object' = object /\ objdata' = objdata
<1> DEFINE token == token_list[t]
<1>1. token.call \in WordCalls(S)
  BY Zenon DEF WordOf
<1> HIDE DEF token
<1>2. token.call \in {"parse_default", "parse_vc_action_raw_encap_index",
        "parse_vc_action_raw_decap_index", "parse_vc_action_sample_index",
        "parse_vc_action_conntrack_update"}
  BY <1>1, SMT DEF WordCalls
<1>3. CASE token.call = "parse_default"
  BY <1>3, Defaults, Zenon DEF token
<1>4. CASE token.call # "parse_default"
  <2>1. \/ parse_vc_action_raw_encap_index(t, token) \/ parse_vc_action_raw_decap_index(t, token)
        \/ parse_vc_action_sample_index(t, token) \/ parse_vc_action_conntrack_update(t, token)
    BY <1>2, <1>4, CallOf, Zenon DEF token
  <2> QED
    BY <2>1, Zenon DEF parse_vc_action_raw_encap_index, parse_vc_action_raw_decap_index,
      parse_vc_action_sample_index, parse_vc_action_conntrack_update, Setting, token
<1> QED
  BY <1>3, <1>4, Zenon DEF token

(* From before a field of an action.                                       *)
LEMMA ConfStep ==
  ASSUME Typed, Grammatical, NEW q \in 0..2, NEW S, NEW b \in Tokens, AtConf(q, b, S),
         NEW t, Reads(t)
  PROVE  /\ out'.item_ends \in 0..1 /\ out'.action_ends \in 0..3
         /\ phase' = "reading" => \/ AtActions(q, t)' \/ AtConf(q, t, out.data)'
                                  \/ AtSetting(q, t, out.data)'
<1> DEFINE token == token_list[t]
<1>1. t \in Tokens /\ phase = "reading" /\ t \in Expected /\ Parse(t, token)
  BY ReadsTyped, Zenon DEF Reads
<1>2. /\ next = Stack(q, b, 1) /\ ActionData(q, S) /\ InActions(q)
      /\ ActionList(token_list[b].next[1], S)
  BY Zenon DEF AtConf, ActionData
<1>3. q \in Nat /\ 1 \in Nat /\ 1 > 0
  BY SMT
<1>4. t \in ActionOffers(S)
  <2>1. Expected = token_list[b].next[1]
    BY <1>1, <1>2, <1>3, StackOffers, Zenon
  <2> QED
    BY <1>1, <1>2, <2>1, Zenon DEF ActionList
<1>5. ASSUME Accept(t, token), phase' = "reading"
      PROVE  next' = Stack(q, t, Len(token.next)) /\ Pending(t, Len(token.args))'
  BY <1>1, <1>2, <1>3, <1>5, Forward, Zenon
<1>6. CASE t = "ACTION_NEXT"
  <2>1. token = Word(<<next_action>>)
    BY <1>6, LandmarkRows, Zenon
  <2>2. token.call = "parse_default" /\ Len(token.next) = 1 /\ token.next[1] = next_action
    BY <2>1, SMT DEF Word, Token
  <2>3. ActionsList(token.next[1])
    BY <2>2, Zenon DEF ActionsList
  <2>4. Accept(t, token) /\ out' = out
    BY <1>1, <2>2, Defaults, Zenon
  <2>5. InActions(q)' /\ out'.item_ends \in 0..1 /\ out'.action_ends \in 0..3
    BY <1>2, <2>4, InActionsKept, Zenon
  <2> HIDE DEF token
  <2> QED
    BY <1>5, <2>2, <2>3, <2>4, <2>5, Zenon DEF AtActions, token
<1>7. CASE t \in {"ACTION_SAMPLE", "ACTION_AGE"}
  <2>1. t \in next_action /\ t # "ACTION_END" /\ ActionHead(token)
    BY <1>7, ActionHeads, SMT DEF next_action
  <2>2. /\ Accept(t, token) /\ Len(token.next) = 1
        /\ InActions(q)' /\ out'.item_ends \in 0..1 /\ out'.action_ends \in 0..3
        /\ \/ ActionsList(token.next[1])
           \/ /\ ActionList(token.next[1], out'.data)
              /\ objdata' = out'.data /\ ObjectFits(out.data)'
    BY <1>1, <1>2, <2>1, HeadRead, Zenon
  <2> HIDE DEF token
  <2>3. phase' = "reading" => next' = Stack(q, t, 1)
    BY <1>5, <2>2, Zenon
  <2> QED
    BY <2>2, <2>3, Zenon DEF AtActions, AtConf, ActionData, token
<1>8. CASE SettingOf(token, S) \/ ConfOf(token, S)
  <2>1. /\ Accept(t, token) /\ Len(token.next) = 2
        /\ ActionData(q, S)' /\ (S # "action_meter_color" => object' = S)
        /\ out'.item_ends \in 0..1 /\ out'.action_ends \in 0..3
    BY <1>1, <1>2, <1>8, KeywordRead, Zenon
  <2>2. out'.data = S
    BY <2>1, Zenon DEF ActionData
  <2> HIDE DEF token
  <2>3. phase' = "reading" => next' = Stack(q, t, 2) /\ Pending(t, Len(token.args))'
    BY <1>5, <2>1, Zenon
  <2> QED
    BY <1>8, <2>1, <2>2, <2>3, Zenon DEF AtSetting, token
<1>9. CASE WordOf(token, S)
  <2>1. Accept(t, token) /\ out' = out /\ object' = object /\ objdata' = objdata
    BY <1>1, <1>9, WordRead, Zenon
  <2>2. Len(token.next) = 1 /\ ActionList(token.next[1], S)
    BY <1>9, Zenon DEF WordOf
  <2>3. ObjectFits(S)'
    BY <1>2, <2>1, Zenon DEF ObjectFits, ActionData
  <2>4. ActionData(q, S)' /\ out'.item_ends \in 0..1 /\ out'.action_ends \in 0..3
    BY <1>2, <2>1, <2>3, ActionDataKept, Zenon
  <2>5. out'.data = S
    BY <2>4, Zenon DEF ActionData
  <2> HIDE DEF token
  <2>6. phase' = "reading" => next' = Stack(q, t, 1)
    BY <1>5, <2>1, <2>2, Zenon
  <2> QED
    BY <2>2, <2>4, <2>5, <2>6, Zenon DEF AtConf, token
<1> HIDE DEF token
<1>10. t = "ACTION_NEXT" \/ t \in {"ACTION_SAMPLE", "ACTION_AGE"}
       \/ SettingOf(token, S) \/ ConfOf(token, S) \/ WordOf(token, S)
  BY <1>4, ActionOffered, SMT DEF token
<1> QED
  BY <1>6, <1>7, <1>8, <1>9, <1>10, Zenon

(* What is in front of an element that was appended.                       *)
LEMMA FrontOfAppend ==
  ASSUME NEW S, NEW s \in Seq(S), NEW x \in S
  PROVE  Front(Append(s, x)) = s
<1> DEFINE u == SubSeq(Append(s, x), 1, Len(Append(s, x)) - 1)
<1>1. Append(s, x) \in Seq(S) /\ Len(Append(s, x)) = Len(s) + 1
  BY SMT
<1>2. \A i \in 1 .. Len(s) : Append(s, x)[i] = s[i]
  BY SMT
<1>3. u \in Seq(S) /\ Len(u) = Len(s)
  BY <1>1, SMT
<1>4. \A i \in 1 .. Len(u) : u[i] = s[i]
  BY <1>1, <1>2, <1>3, SMT
<1>5. Front(Append(s, x)) = u
  BY Zenon DEF Front
<1> HIDE DEF u
<1>6. u = s
  BY <1>3, <1>4, SeqEqual, Zenon
<1> QED
  BY <1>5, <1>6, Zenon

(* After a setting its list is popped, or is expected again.               *)
LEMMA SettingRead ==
  ASSUME NEW t \in Tokens, NEW S, Parse(t, token_list[t]),
         ValueOf(token_list[t], SettingCalls(S))
  PROVE  /\ out' = out /\ object' = object /\ objdata' = objdata
         /\ Accept(t, token_list[t]) \/ Again(t, token_list[t])
<1> DEFINE token == token_list[t]
<1>1. token.call \in SettingCalls(S)
  BY Zenon DEF ValueOf
<1> HIDE DEF token
<1>2. token.call \in {"parse_vc_action_rss_func", "parse_vc_action_rss_type",
        "parse_vc_action_rss_queue", "parse_vc_modify_field_op", "parse_vc_modify_field_id",
        "parse_vc_action_meter_color_type"}
  BY <1>1, SMT DEF SettingCalls
<1>3. \/ parse_vc_action_rss_func(t, token) \/ parse_vc_action_rss_type(t, token)
      \/ parse_vc_action_rss_queue(t, token) \/ parse_vc_modify_field_op(t, token)
      \/ parse_vc_modify_field_id(t, token) \/ parse_vc_action_meter_color_type(t, token)
  BY <1>2, CallOf, Zenon DEF token
<1> QED
  BY <1>3, Zenon DEF parse_vc_action_rss_func, parse_vc_action_rss_type,
    parse_vc_action_rss_queue, parse_vc_modify_field_op, parse_vc_modify_field_id,
    parse_vc_action_meter_color_type, Setting, token

(* The stacks when the list is expected again.                             *)
LEMMA AgainStacks ==
  ASSUME Typed, next # <<>>, NEW t, NEW token, token.next = <<>>, token.args = <<>>,
         Again(t, token), phase' = "reading"
  PROVE  next' = next /\ args' = args
<1>1. next \in Seq(OnStack) /\ args \in Seq(OnStack) /\ Last(next) \in OnStack
  BY SMT DEF Typed, Last
<1>2. /\ next' = Front(Append(next, Last(next))) \o [i \in DOMAIN token.next |-> [by |-> t, n |-> i]]
      /\ args' = args \o [i \in DOMAIN token.args |-> [by |-> t, n |-> i]]
  BY Zenon DEF Again, Push
<1>3. /\ [i \in DOMAIN token.next |-> [by |-> t, n |-> i]] = <<>>
      /\ [i \in DOMAIN token.args |-> [by |-> t, n |-> i]] = <<>>
  BY SMT
<1>4. Front(Append(next, Last(next))) = next
  BY <1>1, FrontOfAppend, Zenon
<1>5. next' = next \o <<>> /\ args' = args \o <<>>
  BY <1>2, <1>3, <1>4, Zenon
<1> QED
  BY <1>1, <1>5, SMT

(* From before the value of a field or a setting of an action.             *)
LEMMA SettingStep ==
  ASSUME Typed, Grammatical, NEW q \in 0..2, NEW S, NEW b \in Tokens, AtSetting(q, b, S),
         NEW t, Reads(t)
  PROVE  /\ out' = out /\ out'.item_ends \in 0..1 /\ out'.action_ends \in 0..3
         /\ phase' = "reading" => AtConf(q, b, S)' \/ AtSetting(q, b, S)'
<1> DEFINE token == token_list[t]
<1>1. t \in Tokens /\ phase = "reading" /\ t \in Expected /\ Parse(t, token)
  BY ReadsTyped, Zenon DEF Reads
<1>2. /\ next = Stack(q, b, 2) /\ ActionData(q, S) /\ (S # "action_meter_color" => object = S)
      /\ Pending(b, Len(token_list[b].args))
      /\ SettingOf(token_list[b], S) \/ ConfOf(token_list[b], S)
  BY Zenon DEF AtSetting
<1>3. q \in Nat /\ 2 \in Nat /\ 2 > 0 /\ 2 - 1 = 1
  BY SMT
<1>4. t \in token_list[b].next[2] /\ next # <<>>
  BY <1>1, <1>2, <1>3, StackOffers, Zenon
<1>5. ASSUME out' = out, object' = object, objdata' = objdata
      PROVE  /\ ActionData(q, S)' /\ (S # "action_meter_color" => object' = S)
             /\ out'.item_ends \in 0..1 /\ out'.action_ends \in 0..3
  <2>1. ObjectFits(S)'
    BY <1>2, <1>5, Zenon DEF ObjectFits, ActionData
  <2> QED
    BY <1>2, <1>5, <2>1, ActionDataKept, Zenon
<1>6. CASE SettingOf(token_list[b], S)
  <2>1. ValueOf(token, SettingCalls(S)) /\ ActionList(token_list[b].next[1], S)
    BY <1>4, <1>6, Zenon DEF SettingOf, SettingList
  <2>2. /\ out' = out /\ object' = object /\ objdata' = objdata
        /\ Accept(t, token) \/ Again(t, token)
    BY <1>1, <2>1, SettingRead, Zenon
  <2>3. token.next = <<>> /\ token.args = <<>>
    BY <2>1, Zenon DEF ValueOf
  <2> HIDE DEF token
  <2>4. CASE Accept(t, token) /\ phase' = "reading"
    <3>1. Push(t, token, next, args) /\ args \in Seq(OnStack)
      BY <2>4, Zenon DEF Accept, Typed
    <3>2. next' = Stack(q, b, 1)
      BY <1>1, <1>2, <1>3, <2>3, <2>4, <3>1, Pushed, ZenonT(60) DEF token
    <3> QED
      BY <1>5, <2>1, <2>2, <3>2, Zenon DEF AtConf
  <2>5. CASE Again(t, token) /\ phase' = "reading"
    <3>1. next' = next /\ args' = args
      BY <1>4, <2>3, <2>5, AgainStacks, Zenon
    <3>2. Pending(b, Len(token_list[b].args))'
      BY <1>2, <3>1, PendingKept, Zenon
    <3> QED
      BY <1>2, <1>5, <2>2, <3>1, <3>2, Zenon DEF AtSetting
  <2> QED
    BY <1>5, <2>2, <2>4, <2>5, Zenon
<1>7. CASE ConfOf(token_list[b], S)
  <2>1. /\ ValueList(token_list[b].next[2], Len(token_list[b].args))
        /\ ActionList(token_list[b].next[1], S)
    <3>1. ConfSound(token_list[b])
      BY SoundTable, Zenon DEF Sound
    <3> QED
      BY <1>7, <3>1, Zenon DEF ConfSound, ConfOf
  <2>2. ValueOf(token, OneCalls) \/ ValueOf(token, ThreeCalls)
    BY <1>4, <2>1, ListedValues, Zenon
  <2>3. out' = out /\ object' = object /\ objdata' = objdata
    BY <1>1, <2>2, ValueRead, Zenon
  <2>4. phase' = "reading" => next' = Stack(q, b, 1)
    BY <1>1, <1>2, <1>3, <2>2, ValueStacks, Zenon
  <2> QED
    BY <1>5, <2>1, <2>3, <2>4, Zenon DEF AtConf
<1> QED
  BY <1>2, <1>6, <1>7, Zenon

(* From before the identifier of an indirect action.                       *)
LEMMA IndirectStep ==
  ASSUME Typed, Grammatical, NEW q \in 0..2, AtIndirect(q), NEW t, Reads(t)
  PROVE  /\ out'.item_ends \in 0..1 /\ out'.action_ends \in 0..3
         /\ phase' = "reading" => AtActions(q, t)'
<1> DEFINE token == token_list[t]
<1>1. t \in Tokens /\ phase = "reading" /\ t \in Expected /\ Parse(t, token)
  BY ReadsTyped, Zenon DEF Reads
<1>2. InActions(q) /\ next = Stack(q, "ACTION_INDIRECT", 1)
  BY Zenon DEF AtIndirect
<1>3. q \in Nat /\ 1 \in Nat /\ 1 > 0
  BY SMT
<1>4. token_list["ACTION_INDIRECT"]
        = Token("parse_vc", <<NEXT_ENTRY("INDIRECT_ACTION_ID2PTR")>>, <<"id">>, "void")
  BY LandmarkRows, Zenon
<1>5. token_list["ACTION_INDIRECT"].next[1] = {"INDIRECT_ACTION_ID2PTR"}
  BY <1>4, SMT DEF Token, NEXT_ENTRY
<1>6. t = "INDIRECT_ACTION_ID2PTR"
  <2>1. Expected = token_list["ACTION_INDIRECT"].next[1]
    BY <1>1, <1>2, <1>3, StackOffers, Zenon
  <2> QED
    BY <1>1, <1>5, <2>1, Zenon
<1>7. token = Call("parse_ia_id2ptr", <<NEXT_ENTRY("ACTION_NEXT")>>)
  BY <1>6, LandmarkRows, Zenon
<1>8. /\ token.call = "parse_ia_id2ptr" /\ Len(token.next) = 1
      /\ token.next[1] = {"ACTION_NEXT"}
  BY <1>7, SMT DEF Call, Token, NEXT_ENTRY
<1>9. Len(args) >= 1 /\ Push(t, token, next, Front(args)) /\ out' = out
  BY <1>1, <1>8, CallOf, Zenon DEF parse_ia_id2ptr
<1>10. Front(args) \in Seq(OnStack)
  BY <1>9, SMT DEF Front, Typed
<1>11. phase' = "reading" => next' = Stack(q, t, Len(token.next))
  BY <1>1, <1>2, <1>3, <1>9, <1>10, Pushed, ZenonT(60)
<1>12. InActions(q)' /\ out'.item_ends \in 0..1 /\ out'.action_ends \in 0..3
  BY <1>2, <1>9, InActionsKept, Zenon
<1>13. ActionsList(token.next[1])
  BY <1>8, Zenon DEF ActionsList
<1> HIDE DEF token
<1> QED
  BY <1>8, <1>11, <1>12, <1>13, Zenon DEF AtActions, token

(* From between the actions of two colors.                                 *)
LEMMA ColorStep ==
  ASSUME Typed, Grammatical, NEW q \in 1..2, AtColor(q), NEW t, Reads(t)
  PROVE  /\ out'.item_ends \in 0..1 /\ out'.action_ends \in 0..3
         /\ phase' = "reading" => AtActions(q - 1, t)'
<1> DEFINE token == token_list[t]
           policy == token_list["ITEM_POL_POLICY"]
<1>1. /\ t \in Tokens /\ phase = "reading" /\ t \in Expected /\ Parse(t, token)
      /\ args \in Seq(OnStack)
  BY ReadsTyped, Zenon DEF Reads
<1>2. /\ next = Stack(0, "ITEM_POL_POLICY", q)
      /\ out.command = "ACTION_POL_G" /\ out.area = "actions"
      /\ out.item_ends = 0 /\ out.action_ends = 3 - q
  BY Zenon DEF AtColor
<1>3. /\ 0 \in Nat /\ 1 \in Nat /\ 1 > 0 /\ q \in Nat /\ q > 0
      /\ q - 1 \in Nat /\ q - 1 \in 0..2 /\ 1 - 1 = 0
  BY SMT
<1>0. /\ Front(next) = Stack(0, "ITEM_POL_POLICY", q - 1)
      /\ phase = "reading" => Expected = token_list["ITEM_POL_POLICY"].next[q]
  <2>1. 0 \in Nat /\ q \in Nat /\ q > 0
    BY SMT
  <2>2. next = Stack(0, "ITEM_POL_POLICY", q)
    BY <1>2, Zenon
  <2> HIDE DEF token, policy
  <2> QED
    BY <2>1, <2>2, StackOffers, Zenon
<1>4. policy = Token("parse_mp", <<NEXT_ENTRY("ACTION_POL_R"), NEXT_ENTRY("ACTION_POL_Y"),
        NEXT_ENTRY("ACTION_POL_G"), NEXT_ENTRY("COMMON_POLICY_ID"),
        NEXT_ENTRY("COMMON_PORT_ID")>>, <<"buffer", "buffer">>, "none")
  BY CommandRows, Zenon
<1>5. policy.next[1] = {"ACTION_POL_R"} /\ policy.next[2] = {"ACTION_POL_Y"}
  BY <1>4, SMT DEF Token, NEXT_ENTRY
<1> HIDE DEF policy
<1>6. t \in {"ACTION_POL_Y", "ACTION_POL_R"}
  <2>1. Expected = policy.next[q]
    BY <1>1, <1>0, Zenon DEF policy
  <2> QED
    BY <1>1, <1>5, <2>1, SMT
<1>7. token = Word(<<next_action>>)
  BY <1>6, LandmarkRows, Zenon
<1>8. token.call = "parse_default" /\ Len(token.next) = 1 /\ token.next[1] = next_action
  BY <1>7, SMT DEF Word, Token
<1>9. Push(t, token, next, args) /\ out' = out
  BY <1>1, <1>8, Defaults, Zenon DEF Accept
<1>10. Front(next) = Front(Stack(q - 1, "ITEM_POL_POLICY", 1))
  <2>1. Front(next) = Stack(0, "ITEM_POL_POLICY", q - 1)
    BY <1>0, Zenon
  <2>2. Front(Stack(q - 1, "ITEM_POL_POLICY", 1)) = Stack(q - 1, "ITEM_POL_POLICY", 0)
    <3>1. Front(Stack(q - 1, "ITEM_POL_POLICY", 1)) = Stack(q - 1, "ITEM_POL_POLICY", 1 - 1)
      BY <1>3, StackFacts, ZenonT(60)
    <3> QED
      BY <1>3, <3>1, Zenon
  <2>3. Stack(q - 1, "ITEM_POL_POLICY", 0) = Stack(0, "ITEM_POL_POLICY", q - 1)
    BY <1>3, SMT DEF Stack
  <2> QED
    BY <2>1, <2>2, <2>3, Zenon
<1>11. Push(t, token, Stack(q - 1, "ITEM_POL_POLICY", 1), args)
  BY <1>9, <1>10, Zenon DEF Push
<1>12. phase' = "reading" => next' = Stack(q - 1, t, Len(token.next))
  BY <1>1, <1>3, <1>11, Pushed, ZenonT(60)
<1>13. InActions(q - 1)' /\ out'.item_ends \in 0..1 /\ out'.action_ends \in 0..3
  <2>1. InActions(q - 1)
    <3>1. q - 1 \in 0..2 /\ 3 - q = 2 - (q - 1)
      BY SMT
    <3> QED
      BY <1>2, <3>1, Zenon DEF InActions
  <2> QED
    BY <1>3, <1>9, <2>1, InActionsKept, Zenon
<1>14. ActionsList(token.next[1])
  BY <1>8, Zenon DEF ActionsList
<1> HIDE DEF token
<1> QED
  BY <1>8, <1>12, <1>13, <1>14, Zenon DEF AtActions, token

-----------------------------------------------------------------------------
(* Commands.                                                               *)

\* The words after which a line may end, or whose last value ends it.
EndWords ==
  {"INDIRECT_ACTION_QUERY", "INDIRECT_ACTION_DESTROY_ID", "DESTROY_RULE", "FLUSH", "DUMP_ALL",
   "DUMP_ONE", "QUERY", "LIST", "LIST_GROUP", "AGED", "ISOLATE", "FLEX_ITEM_INIT",
   "FLEX_ITEM_CREATE", "FLEX_ITEM_DESTROY", "TUNNEL_CREATE_TYPE", "TUNNEL_DESTROY_ID",
   "TUNNEL_LIST"}

\* The words that follow a word of a command, and those that end the command
\* proper: what follows are items and actions.
Precedes(b, t) ==
  \/ b = "ZERO" /\ t \in {"FLOW", "ADD"}
  \/ b = "START_SET" /\ t = "SET"
  \/ b = "ADD" /\ t = "ITEM_POL_PORT"
  \/ b = "ITEM_POL_PORT" /\ t = "ITEM_POL_METER"
  \/ b = "ITEM_POL_METER" /\ t = "ITEM_POL_POLICY"
  \/ b = "FLOW" /\ t \in flow_keywords
  \/ b = "SET" /\ t \in {"SET_RAW_ENCAP", "SET_RAW_DECAP", "SET_SAMPLE_ACTIONS"}
  \/ b = "INDIRECT_ACTION" /\ t \in next_ia_subcmd
  \/ b \in {"INDIRECT_ACTION_CREATE"} \cup IndirectAttrs /\ t \in IndirectAttrs
  \/ b \in {"INDIRECT_ACTION_DESTROY", "INDIRECT_ACTION_DESTROY_ID"} /\
       t = "INDIRECT_ACTION_DESTROY_ID"
  \/ b \in {"VALIDATE", "CREATE"} \cup vc_attributes /\ t \in vc_attributes
  \/ b \in {"DESTROY", "DESTROY_RULE"} /\ t = "DESTROY_RULE"
  \/ b = "DUMP" /\ t \in next_dump_subcmd
  \/ b \in {"LIST", "LIST_GROUP"} /\ t = "LIST_GROUP"
  \/ b = "FLEX" /\ t \in next_flex_item
  \/ b = "TUNNEL" /\ t \in {"TUNNEL_CREATE", "TUNNEL_DESTROY", "TUNNEL_LIST"}
  \/ b = "TUNNEL_CREATE" /\ t = "TUNNEL_CREATE_TYPE"
  \/ b = "TUNNEL_DESTROY" /\ t = "TUNNEL_DESTROY_ID"
Leaves(b, t) ==
  \/ b \in {"INDIRECT_ACTION_CREATE", "INDIRECT_ACTION_UPDATE"} \cup IndirectAttrs /\
       t = "INDIRECT_ACTION_SPEC"
  \/ b \in {"VALIDATE", "CREATE"} \cup vc_attributes /\ t = "ITEM_PATTERN"
  \/ b \in SetRaw /\ t \in {"SET_RAW_INDEX", "ITEM_ETH"}
  \/ b = "SET_SAMPLE_ACTIONS" /\ t = "SET_SAMPLE_INDEX"
  \/ b = "AGED" /\ t = "AGED_DESTROY"

\* What the m-th list of a word offers.
OfferedBy(b, m, t) ==
  \/ t = "END" /\ m = 1 /\ b \in EndWords
  \/ /\ t \in OneValues \cup {"QUERY_ACTION"}
     /\ Len(token_list[b].next) - m < Len(token_list[b].args)
     /\ m = 1 => b \in EndWords
     /\ b = "ITEM_POL_POLICY" => m > 3
  \/ m = 1 /\ b # "ITEM_POL_POLICY" /\ (Precedes(b, t) \/ Leaves(b, t))
  \/ b = "ITEM_POL_POLICY" /\ m = 3 /\ t = "ACTION_POL_G"


(* The lists of each word, and the structure of its arguments.             *)
LEMMA CommandOffers ==
  ASSUME NEW b \in CommandWords
  PROVE  /\ Len(token_list[b].next) \in 1..5
         /\ \A i \in DOMAIN token_list[b].args : token_list[b].args[i] = ObjectOf(b)
         /\ \A m \in 1 .. Len(token_list[b].next) : \A t \in token_list[b].next[m] :
              (b = "ITEM_POL_POLICY" => m >= 3) => OfferedBy(b, m, t)
<1> DEFINE P == /\ Len(token_list[b].next) \in 1..5
                /\ \A i \in DOMAIN token_list[b].args : token_list[b].args[i] = ObjectOf(b)
                /\ \A m \in 1 .. Len(token_list[b].next) : \A t \in token_list[b].next[m] :
                     (b = "ITEM_POL_POLICY" => m >= 3) => OfferedBy(b, m, t)
           token == token_list[b]
<1>1. CASE b \in {"ZERO"}
  <2>1. token = Word(<<NEXT_ENTRY_2("FLOW", "ADD")>>)
    BY <1>1, CommandRows, Zenon
  <2>2. ObjectOf(b) = "none"
    BY <1>1, SMT DEF ObjectOf, vc_tunnels, vc_attributes, next_vc_attr
  <2> QED
    BY <1>1, <2>1, <2>2, SMT DEF OfferedBy, Precedes, Leaves, EndWords, Token, Word,
      NEXT_ENTRY_2
<1>2. CASE b \in {"START_SET"}
  <2>1. token = Word(<<NEXT_ENTRY("SET")>>)
    BY <1>2, CommandRows, Zenon
  <2>2. ObjectOf(b) = "none"
    BY <1>2, SMT DEF ObjectOf, vc_tunnels, vc_attributes, next_vc_attr
  <2> QED
    BY <1>2, <2>1, <2>2, SMT DEF OfferedBy, Precedes, Leaves, EndWords, Token, Word, NEXT_ENTRY
<1>3. CASE b \in {"FLOW"}
  <2>1. token = Call("parse_init", <<flow_keywords>>)
    BY <1>3, CommandRows, Zenon
  <2>2. ObjectOf(b) = "buffer"
    BY <1>3, SMT DEF ObjectOf, vc_tunnels, vc_attributes, next_vc_attr
  <2> QED
    BY <1>3, <2>1, <2>2, SMT DEF OfferedBy, Precedes, Leaves, EndWords, Token, Call,
      flow_keywords
<1>4. CASE b \in {"INDIRECT_ACTION"}
  <2>1. token = Token("parse_ia", <<next_ia_subcmd, NEXT_ENTRY("COMMON_PORT_ID")>>, <<"buffer">>,
            "none")
    BY <1>4, CommandRows, Zenon
  <2>2. ObjectOf(b) = "buffer"
    BY <1>4, SMT DEF ObjectOf, vc_tunnels, vc_attributes, next_vc_attr
  <2> QED
    BY <1>4, <2>1, <2>2, SMT DEF OfferedBy, Precedes, Leaves, EndWords, Token, OneValues,
      next_ia_subcmd, NEXT_ENTRY
<1>5. CASE b \in {"INDIRECT_ACTION_CREATE"}
  <2>1. token = Call("parse_ia", <<next_ia_create_attr>>)
    BY <1>5, CommandRows, Zenon
  <2>2. ObjectOf(b) = "buffer"
    BY <1>5, SMT DEF ObjectOf, vc_tunnels, vc_attributes, next_vc_attr
  <2> QED
    BY <1>5, <2>1, <2>2, SMT DEF OfferedBy, Precedes, Leaves, EndWords, Token, Call,
      IndirectAttrs, next_ia_create_attr
<1>6. CASE b \in {"INDIRECT_ACTION_UPDATE"}
  <2>1. token = Token("parse_ia", <<NEXT_ENTRY("INDIRECT_ACTION_SPEC"),
            NEXT_ENTRY("COMMON_INDIRECT_ACTION_ID")>>, <<"buffer">>, "none")
    BY <1>6, CommandRows, Zenon
  <2>2. ObjectOf(b) = "buffer"
    BY <1>6, SMT DEF ObjectOf, vc_tunnels, vc_attributes, next_vc_attr
  <2> QED
    BY <1>6, <2>1, <2>2, SMT DEF OfferedBy, Precedes, Leaves, EndWords, Token, OneValues,
      IndirectAttrs, NEXT_ENTRY
<1>7. CASE b \in {"INDIRECT_ACTION_DESTROY"}
  <2>1. token = Token("parse_ia_destroy", <<NEXT_ENTRY("INDIRECT_ACTION_DESTROY_ID")>>, <<"buffer">>,
            "none")
    BY <1>7, CommandRows, Zenon
  <2>2. ObjectOf(b) = "buffer"
    BY <1>7, SMT DEF ObjectOf, vc_tunnels, vc_attributes, next_vc_attr
  <2> QED
    BY <1>7, <2>1, <2>2, SMT DEF OfferedBy, Precedes, Leaves, EndWords, Token, NEXT_ENTRY
<1>8. CASE b \in {"INDIRECT_ACTION_QUERY"}
  <2>1. token = Token("parse_ia", <<NEXT_ENTRY("END"), NEXT_ENTRY("COMMON_INDIRECT_ACTION_ID")>>,
            <<"buffer">>, "none")
    BY <1>8, CommandRows, Zenon
  <2>2. ObjectOf(b) = "buffer"
    BY <1>8, SMT DEF ObjectOf, vc_tunnels, vc_attributes, next_vc_attr
  <2> QED
    BY <1>8, <2>1, <2>2, SMT DEF OfferedBy, Precedes, Leaves, EndWords, Token, OneValues,
      NEXT_ENTRY
<1>9. CASE b \in {"VALIDATE", "CREATE"}
  <2>1. token = Token("parse_vc", <<next_vc_attr, NEXT_ENTRY("COMMON_PORT_ID")>>, <<"buffer">>,
            "none")
    BY <1>9, CommandRows, Zenon
  <2>2. ObjectOf(b) = "buffer"
    BY <1>9, SMT DEF ObjectOf, vc_tunnels, vc_attributes, next_vc_attr
  <2> QED
    BY <1>9, <2>1, <2>2, SMT DEF OfferedBy, Precedes, Leaves, EndWords, Token, OneValues,
      vc_attributes, next_vc_attr, NEXT_ENTRY
<1>10. CASE b \in {"DESTROY"}
  <2>1. token = Token("parse_destroy", <<NEXT_ENTRY("DESTROY_RULE"), NEXT_ENTRY("COMMON_PORT_ID")>>,
            <<"buffer">>, "none")
    BY <1>10, CommandRows, Zenon
  <2>2. ObjectOf(b) = "buffer"
    BY <1>10, SMT DEF ObjectOf, vc_tunnels, vc_attributes, next_vc_attr
  <2> QED
    BY <1>10, <2>1, <2>2, SMT DEF OfferedBy, Precedes, Leaves, EndWords, Token, OneValues,
      NEXT_ENTRY
<1>11. CASE b \in {"FLUSH"}
  <2>1. token = Token("parse_flush", <<NEXT_ENTRY("COMMON_PORT_ID")>>, <<"buffer">>, "none")
    BY <1>11, CommandRows, Zenon
  <2>2. ObjectOf(b) = "buffer"
    BY <1>11, SMT DEF ObjectOf, vc_tunnels, vc_attributes, next_vc_attr
  <2> QED
    BY <1>11, <2>1, <2>2, SMT DEF OfferedBy, Precedes, Leaves, EndWords, Token, OneValues,
      NEXT_ENTRY
<1>12. CASE b \in {"DUMP"}
  <2>1. token = Token("parse_dump", <<next_dump_subcmd, NEXT_ENTRY("COMMON_PORT_ID")>>, <<"buffer">>,
            "none")
    BY <1>12, CommandRows, Zenon
  <2>2. ObjectOf(b) = "buffer"
    BY <1>12, SMT DEF ObjectOf, vc_tunnels, vc_attributes, next_vc_attr
  <2> QED
    BY <1>12, <2>1, <2>2, SMT DEF OfferedBy, Precedes, Leaves, EndWords, Token, OneValues,
      next_dump_subcmd, NEXT_ENTRY
<1>13. CASE b \in {"QUERY"}
  <2>1. token = Token("parse_query", <<NEXT_ENTRY("QUERY_ACTION"), NEXT_ENTRY("COMMON_RULE_ID"),
            NEXT_ENTRY("COMMON_PORT_ID")>>, <<"buffer", "buffer", "buffer">>, "none")
    BY <1>13, CommandRows, Zenon
  <2>2. ObjectOf(b) = "buffer"
    BY <1>13, SMT DEF ObjectOf, vc_tunnels, vc_attributes, next_vc_attr
  <2> QED
    BY <1>13, <2>1, <2>2, SMT DEF OfferedBy, Precedes, Leaves, EndWords, Token, OneValues,
      NEXT_ENTRY
<1>14. CASE b \in {"LIST"}
  <2>1. token = Token("parse_list", <<next_list_attr, NEXT_ENTRY("COMMON_PORT_ID")>>, <<"buffer">>,
            "none")
    BY <1>14, CommandRows, Zenon
  <2>2. ObjectOf(b) = "buffer"
    BY <1>14, SMT DEF ObjectOf, vc_tunnels, vc_attributes, next_vc_attr
  <2> QED
    BY <1>14, <2>1, <2>2, SMT DEF OfferedBy, Precedes, Leaves, EndWords, Token, OneValues,
      next_list_attr, NEXT_ENTRY
<1>15. CASE b \in {"AGED"}
  <2>1. token = Token("parse_aged", <<next_aged_attr, NEXT_ENTRY("COMMON_PORT_ID")>>, <<"buffer">>,
            "none")
    BY <1>15, CommandRows, Zenon
  <2>2. ObjectOf(b) = "buffer"
    BY <1>15, SMT DEF ObjectOf, vc_tunnels, vc_attributes, next_vc_attr
  <2> QED
    BY <1>15, <2>1, <2>2, SMT DEF OfferedBy, Precedes, Leaves, EndWords, Token, OneValues,
      next_aged_attr, NEXT_ENTRY
<1>16. CASE b \in {"ISOLATE"}
  <2>1. token = Token("parse_isolate", <<NEXT_ENTRY("COMMON_BOOLEAN"), NEXT_ENTRY("COMMON_PORT_ID")>>,
            <<"buffer", "buffer">>, "none")
    BY <1>16, CommandRows, Zenon
  <2>2. ObjectOf(b) = "buffer"
    BY <1>16, SMT DEF ObjectOf, vc_tunnels, vc_attributes, next_vc_attr
  <2> QED
    BY <1>16, <2>1, <2>2, SMT DEF OfferedBy, Precedes, Leaves, EndWords, Token, OneValues,
      NEXT_ENTRY
<1>17. CASE b \in {"FLEX"}
  <2>1. token = Call("parse_flex", <<next_flex_item>>)
    BY <1>17, CommandRows, Zenon
  <2>2. ObjectOf(b) = "buffer"
    BY <1>17, SMT DEF ObjectOf, vc_tunnels, vc_attributes, next_vc_attr
  <2> QED
    BY <1>17, <2>1, <2>2, SMT DEF OfferedBy, Precedes, Leaves, EndWords, Token, Call,
      next_flex_item
<1>18. CASE b \in {"FLEX_ITEM_INIT", "FLEX_ITEM_DESTROY"}
  <2>1. token = Token("parse_flex", <<NEXT_ENTRY("COMMON_FLEX_TOKEN"), NEXT_ENTRY("COMMON_PORT_ID")>>,
            <<"buffer", "buffer">>, "none")
    BY <1>18, CommandRows, Zenon
  <2>2. ObjectOf(b) = "buffer"
    BY <1>18, SMT DEF ObjectOf, vc_tunnels, vc_attributes, next_vc_attr
  <2> QED
    BY <1>18, <2>1, <2>2, SMT DEF OfferedBy, Precedes, Leaves, EndWords, Token, OneValues,
      NEXT_ENTRY
<1>19. CASE b \in {"FLEX_ITEM_CREATE"}
  <2>1. token = Token("parse_flex", <<NEXT_ENTRY("COMMON_FILE_PATH"), NEXT_ENTRY("COMMON_FLEX_TOKEN"),
            NEXT_ENTRY("COMMON_PORT_ID")>>, <<"buffer", "buffer", "buffer">>, "none")
    BY <1>19, CommandRows, Zenon
  <2>2. ObjectOf(b) = "buffer"
    BY <1>19, SMT DEF ObjectOf, vc_tunnels, vc_attributes, next_vc_attr
  <2> QED
    BY <1>19, <2>1, <2>2, SMT DEF OfferedBy, Precedes, Leaves, EndWords, Token, OneValues,
      NEXT_ENTRY
<1>20. CASE b \in {"TUNNEL"}
  <2>1. token = Call("parse_tunnel", <<NEXT_ENTRY_3("TUNNEL_CREATE", "TUNNEL_LIST",
            "TUNNEL_DESTROY")>>)
    BY <1>20, CommandRows, Zenon
  <2>2. ObjectOf(b) = "buffer"
    BY <1>20, SMT DEF ObjectOf, vc_tunnels, vc_attributes, next_vc_attr
  <2> QED
    BY <1>20, <2>1, <2>2, SMT DEF OfferedBy, Precedes, Leaves, EndWords, Token, Call,
      NEXT_ENTRY_3
<1>21. CASE b \in {"TUNNEL_CREATE"}
  <2>1. token = Token("parse_tunnel", <<NEXT_ENTRY("TUNNEL_CREATE_TYPE"),
            NEXT_ENTRY("COMMON_PORT_ID")>>, <<"buffer">>, "none")
    BY <1>21, CommandRows, Zenon
  <2>2. ObjectOf(b) = "buffer"
    BY <1>21, SMT DEF ObjectOf, vc_tunnels, vc_attributes, next_vc_attr
  <2> QED
    BY <1>21, <2>1, <2>2, SMT DEF OfferedBy, Precedes, Leaves, EndWords, Token, OneValues,
      NEXT_ENTRY
<1>22. CASE b \in {"TUNNEL_CREATE_TYPE"}
  <2>1. token = Token("parse_tunnel", <<NEXT_ENTRY("COMMON_FILE_PATH")>>, <<"tunnel_ops">>, "none")
    BY <1>22, CommandRows, Zenon
  <2>2. ObjectOf(b) = "tunnel_ops"
    BY <1>22, SMT DEF ObjectOf, vc_tunnels, vc_attributes, next_vc_attr
  <2> QED
    BY <1>22, <2>1, <2>2, SMT DEF OfferedBy, Precedes, Leaves, EndWords, Token, OneValues,
      NEXT_ENTRY
<1>23. CASE b \in {"TUNNEL_DESTROY"}
  <2>1. token = Token("parse_tunnel", <<NEXT_ENTRY("TUNNEL_DESTROY_ID"),
            NEXT_ENTRY("COMMON_PORT_ID")>>, <<"buffer">>, "none")
    BY <1>23, CommandRows, Zenon
  <2>2. ObjectOf(b) = "buffer"
    BY <1>23, SMT DEF ObjectOf, vc_tunnels, vc_attributes, next_vc_attr
  <2> QED
    BY <1>23, <2>1, <2>2, SMT DEF OfferedBy, Precedes, Leaves, EndWords, Token, OneValues,
      NEXT_ENTRY
<1>24. CASE b \in {"TUNNEL_DESTROY_ID"}
  <2>1. token = Token("parse_tunnel", <<NEXT_ENTRY("COMMON_UNSIGNED")>>, <<"tunnel_ops">>, "none")
    BY <1>24, CommandRows, Zenon
  <2>2. ObjectOf(b) = "tunnel_ops"
    BY <1>24, SMT DEF ObjectOf, vc_tunnels, vc_attributes, next_vc_attr
  <2> QED
    BY <1>24, <2>1, <2>2, SMT DEF OfferedBy, Precedes, Leaves, EndWords, Token, OneValues,
      NEXT_ENTRY
<1>25. CASE b \in {"TUNNEL_LIST"}
  <2>1. token = Token("parse_tunnel", <<NEXT_ENTRY("COMMON_PORT_ID")>>, <<"buffer">>, "none")
    BY <1>25, CommandRows, Zenon
  <2>2. ObjectOf(b) = "buffer"
    BY <1>25, SMT DEF ObjectOf, vc_tunnels, vc_attributes, next_vc_attr
  <2> QED
    BY <1>25, <2>1, <2>2, SMT DEF OfferedBy, Precedes, Leaves, EndWords, Token, OneValues,
      NEXT_ENTRY
<1>26. CASE b \in {"DESTROY_RULE"}
  <2>1. token = Token("parse_destroy", <<next_destroy_attr, NEXT_ENTRY("COMMON_RULE_ID")>>,
            <<"rule">>, "none")
    BY <1>26, CommandRows, Zenon
  <2>2. ObjectOf(b) = "rule"
    BY <1>26, SMT DEF ObjectOf, vc_tunnels, vc_attributes, next_vc_attr
  <2> QED
    BY <1>26, <2>1, <2>2, SMT DEF OfferedBy, Precedes, Leaves, EndWords, Token, OneValues,
      next_destroy_attr, NEXT_ENTRY
<1>27. CASE b \in {"DUMP_ALL"}
  <2>1. token = Token("parse_dump", <<next_dump_attr>>, <<"buffer">>, "none")
    BY <1>27, CommandRows, Zenon
  <2>2. ObjectOf(b) = "buffer"
    BY <1>27, SMT DEF ObjectOf, vc_tunnels, vc_attributes, next_vc_attr
  <2> QED
    BY <1>27, <2>1, <2>2, SMT DEF OfferedBy, Precedes, Leaves, EndWords, Token, OneValues,
      next_dump_attr
<1>28. CASE b \in {"DUMP_ONE"}
  <2>1. token = Token("parse_dump", <<next_dump_attr, NEXT_ENTRY("COMMON_RULE_ID")>>, <<"buffer",
            "buffer">>, "none")
    BY <1>28, CommandRows, Zenon
  <2>2. ObjectOf(b) = "buffer"
    BY <1>28, SMT DEF ObjectOf, vc_tunnels, vc_attributes, next_vc_attr
  <2> QED
    BY <1>28, <2>1, <2>2, SMT DEF OfferedBy, Precedes, Leaves, EndWords, Token, OneValues,
      next_dump_attr, NEXT_ENTRY
<1>29. CASE b \in {"LIST_GROUP"}
  <2>1. token = Token("parse_list", <<next_list_attr, NEXT_ENTRY("COMMON_GROUP_ID")>>, <<"group">>,
            "none")
    BY <1>29, CommandRows, Zenon
  <2>2. ObjectOf(b) = "group"
    BY <1>29, SMT DEF ObjectOf, vc_tunnels, vc_attributes, next_vc_attr
  <2> QED
    BY <1>29, <2>1, <2>2, SMT DEF OfferedBy, Precedes, Leaves, EndWords, Token, OneValues,
      next_list_attr, NEXT_ENTRY
<1>30. CASE b \in {"VC_GROUP"}
  <2>1. token = Token("parse_vc", <<next_vc_attr, NEXT_ENTRY("COMMON_GROUP_ID")>>, <<"attr">>, "none")
    BY <1>30, CommandRows, Zenon
  <2>2. ObjectOf(b) = "attr"
    BY <1>30, SMT DEF ObjectOf, vc_tunnels, vc_attributes, next_vc_attr
  <2> QED
    BY <1>30, <2>1, <2>2, SMT DEF OfferedBy, Precedes, Leaves, EndWords, Token, OneValues,
      vc_attributes, next_vc_attr, NEXT_ENTRY
<1>31. CASE b \in {"VC_PRIORITY"}
  <2>1. token = Token("parse_vc", <<next_vc_attr, NEXT_ENTRY("COMMON_PRIORITY_LEVEL")>>, <<"attr">>,
            "none")
    BY <1>31, CommandRows, Zenon
  <2>2. ObjectOf(b) = "attr"
    BY <1>31, SMT DEF ObjectOf, vc_tunnels, vc_attributes, next_vc_attr
  <2> QED
    BY <1>31, <2>1, <2>2, SMT DEF OfferedBy, Precedes, Leaves, EndWords, Token, OneValues,
      vc_attributes, next_vc_attr, NEXT_ENTRY
<1>32. CASE b \in {"VC_INGRESS", "VC_EGRESS", "VC_TRANSFER"}
  <2>1. token = Call("parse_vc", <<next_vc_attr>>)
    BY <1>32, CommandRows, Zenon
  <2>2. ObjectOf(b) = "attr"
    BY <1>32, SMT DEF ObjectOf, vc_tunnels, vc_attributes, next_vc_attr
  <2> QED
    BY <1>32, <2>1, <2>2, SMT DEF OfferedBy, Precedes, Leaves, EndWords, Token, Call,
      vc_attributes, next_vc_attr
<1>33. CASE b \in {"VC_TUNNEL_SET", "VC_TUNNEL_MATCH"}
  <2>1. token = Token("parse_vc", <<next_vc_attr, NEXT_ENTRY("COMMON_UNSIGNED")>>, <<"tunnel_ops">>,
            "none")
    BY <1>33, CommandRows, Zenon
  <2>2. ObjectOf(b) = "tunnel_ops"
    BY <1>33, SMT DEF ObjectOf, vc_tunnels, vc_attributes, next_vc_attr
  <2>3. /\ Len(token.next) = 2 /\ Len(token.args) = 1
        /\ token.next[1] = next_vc_attr
        /\ token.next[2] = {"COMMON_UNSIGNED"}
        /\ token.args[1] = "tunnel_ops" /\ DOMAIN token.args = 1 .. 1
    BY <2>1, SMT DEF Token, Call, NEXT_ENTRY, NEXT_ENTRY_3
  <2> HIDE DEF token
  <2>4. \A m \in 1 .. Len(token.next) : \A u \in token.next[m] : OfferedBy(b, m, u)
    BY <1>33, <2>3, SMT DEF OfferedBy, Precedes, Leaves, EndWords, OneValues, vc_attributes,
      next_vc_attr, token
  <2>5. Len(token.next) \in 1..5
    BY <2>3, SMT
  <2>6. \A i \in DOMAIN token.args : token.args[i] = ObjectOf(b)
    BY <2>2, <2>3, SMT
  <2> QED
    BY <2>4, <2>5, <2>6, Zenon DEF token
<1>34. CASE b \in {"SET"}
  <2>1. token = Call("parse_set_init", <<NEXT_ENTRY_3("SET_RAW_ENCAP", "SET_RAW_DECAP",
            "SET_SAMPLE_ACTIONS")>>)
    BY <1>34, CommandRows, Zenon
  <2>2. ObjectOf(b) = "first_entry"
    BY <1>34, SMT DEF ObjectOf, vc_tunnels, vc_attributes, next_vc_attr
  <2>3. /\ Len(token.next) = 1 /\ Len(token.args) = 0
        /\ token.next[1] = {"SET_RAW_ENCAP", "SET_RAW_DECAP", "SET_SAMPLE_ACTIONS"}
        /\ DOMAIN token.args = {}
    BY <2>1, SMT DEF Token, Call, NEXT_ENTRY, NEXT_ENTRY_3
  <2> HIDE DEF token
  <2>4. \A m \in 1 .. Len(token.next) : \A u \in token.next[m] : OfferedBy(b, m, u)
    BY <1>34, <2>3, SMT DEF OfferedBy, Precedes, Leaves, EndWords, token
  <2>5. Len(token.next) \in 1..5
    BY <2>3, SMT
  <2>6. \A i \in DOMAIN token.args : token.args[i] = ObjectOf(b)
    BY <2>2, <2>3, Zenon
  <2> QED
    BY <2>4, <2>5, <2>6, Zenon DEF token
<1>35. CASE b \in {"SET_RAW_ENCAP", "SET_RAW_DECAP"}
  <2>1. token = Token("parse_set_raw_encap_decap", <<next_set_raw>>, <<"buffer">>, "none")
    BY <1>35, CommandRows, Zenon
  <2>2. ObjectOf(b) = "buffer"
    BY <1>35, SMT DEF ObjectOf, vc_tunnels, vc_attributes, next_vc_attr
  <2> QED
    BY <1>35, <2>1, <2>2, SMT DEF OfferedBy, Precedes, Leaves, EndWords, Token, SetRaw,
      next_set_raw
<1>36. CASE b \in {"SET_SAMPLE_ACTIONS"}
  <2>1. token = Token("parse_set_sample_action", <<NEXT_ENTRY("SET_SAMPLE_INDEX")>>, <<"buffer">>,
            "none")
    BY <1>36, CommandRows, Zenon
  <2>2. ObjectOf(b) = "buffer"
    BY <1>36, SMT DEF ObjectOf, vc_tunnels, vc_attributes, next_vc_attr
  <2> QED
    BY <1>36, <2>1, <2>2, SMT DEF OfferedBy, Precedes, Leaves, EndWords, Token, NEXT_ENTRY
<1>37. CASE b \in {"INDIRECT_ACTION_DESTROY_ID"}
  <2>1. token = Token("parse_ia_destroy", <<next_ia_destroy_attr,
            NEXT_ENTRY("COMMON_INDIRECT_ACTION_ID")>>, <<"action_id">>, "none")
    BY <1>37, CommandRows, Zenon
  <2>2. ObjectOf(b) = "action_id"
    BY <1>37, SMT DEF ObjectOf, vc_tunnels, vc_attributes, next_vc_attr
  <2> QED
    BY <1>37, <2>1, <2>2, SMT DEF OfferedBy, Precedes, Leaves, EndWords, Token, OneValues,
      next_ia_destroy_attr, NEXT_ENTRY
<1>38. CASE b \in {"INDIRECT_ACTION_CREATE_ID"}
  <2>1. token = Token("parse_default", <<next_ia_create_attr,
            NEXT_ENTRY("COMMON_INDIRECT_ACTION_ID")>>, <<"buffer">>, "none")
    BY <1>38, CommandRows, Zenon
  <2>2. ObjectOf(b) = "buffer"
    BY <1>38, SMT DEF ObjectOf, vc_tunnels, vc_attributes, next_vc_attr
  <2> QED
    BY <1>38, <2>1, <2>2, SMT DEF OfferedBy, Precedes, Leaves, EndWords, Token, OneValues,
      IndirectAttrs, next_ia_create_attr, NEXT_ENTRY
<1>39. CASE b \in {"INDIRECT_ACTION_INGRESS", "INDIRECT_ACTION_EGRESS",
  "INDIRECT_ACTION_TRANSFER"}
  <2>1. token = Call("parse_ia", <<next_ia_create_attr>>)
    BY <1>39, CommandRows, Zenon
  <2>2. ObjectOf(b) = "buffer"
    BY <1>39, SMT DEF ObjectOf, vc_tunnels, vc_attributes, next_vc_attr
  <2> QED
    BY <1>39, <2>1, <2>2, SMT DEF OfferedBy, Precedes, Leaves, EndWords, Token, Call,
      IndirectAttrs, next_ia_create_attr
<1>40. CASE b \in {"ADD"}
  <2>1. token = Call("parse_init", <<NEXT_ENTRY("ITEM_POL_PORT")>>)
    BY <1>40, CommandRows, Zenon
  <2>2. ObjectOf(b) = "buffer"
    BY <1>40, SMT DEF ObjectOf, vc_tunnels, vc_attributes, next_vc_attr
  <2> QED
    BY <1>40, <2>1, <2>2, SMT DEF OfferedBy, Precedes, Leaves, EndWords, Token, Call, NEXT_ENTRY
<1>41. CASE b \in {"ITEM_POL_PORT"}
  <2>1. token = Word(<<NEXT_ENTRY("ITEM_POL_METER")>>)
    BY <1>41, CommandRows, Zenon
  <2>2. ObjectOf(b) = "buffer"
    BY <1>41, SMT DEF ObjectOf, vc_tunnels, vc_attributes, next_vc_attr
  <2> QED
    BY <1>41, <2>1, <2>2, SMT DEF OfferedBy, Precedes, Leaves, EndWords, Token, Word, NEXT_ENTRY
<1>42. CASE b \in {"ITEM_POL_METER"}
  <2>1. token = Word(<<NEXT_ENTRY("ITEM_POL_POLICY")>>)
    BY <1>42, CommandRows, Zenon
  <2>2. ObjectOf(b) = "buffer"
    BY <1>42, SMT DEF ObjectOf, vc_tunnels, vc_attributes, next_vc_attr
  <2> QED
    BY <1>42, <2>1, <2>2, SMT DEF OfferedBy, Precedes, Leaves, EndWords, Token, Word, NEXT_ENTRY
<1>43. CASE b \in {"ITEM_POL_POLICY"}
  <2>1. token = Token("parse_mp", <<NEXT_ENTRY("ACTION_POL_R"), NEXT_ENTRY("ACTION_POL_Y"),
            NEXT_ENTRY("ACTION_POL_G"), NEXT_ENTRY("COMMON_POLICY_ID"),
            NEXT_ENTRY("COMMON_PORT_ID")>>, <<"buffer", "buffer">>, "none")
    BY <1>43, CommandRows, Zenon
  <2>2. ObjectOf(b) = "buffer"
    BY <1>43, SMT DEF ObjectOf, vc_tunnels, vc_attributes, next_vc_attr
  <2> QED
    BY <1>43, <2>1, <2>2, SMT DEF OfferedBy, Precedes, Leaves, EndWords, Token, OneValues,
      NEXT_ENTRY
<1> HIDE DEF P
<1> QED
  BY <1>1, <1>2, <1>3, <1>4, <1>5, <1>6, <1>7, <1>8, <1>9, <1>10, <1>11, <1>12, <1>13, <1>14, <1>15, <1>16, <1>17, <1>18, <1>19, <1>20, <1>21, <1>22, <1>23, <1>24, <1>25, <1>26, <1>27, <1>28, <1>29, <1>30, <1>31, <1>32, <1>33, <1>34, <1>35, <1>36, <1>37, <1>38, <1>39, <1>40, <1>41, <1>42, <1>43, SMT DEF CommandWords, PolicyWords, IndirectAttrs, SetRaw, P

(* The callbacks of the words of the commands.                             *)
LEMMA CommandCalls ==
  /\ \A t \in {"ITEM_POL_PORT", "ITEM_POL_METER", "INDIRECT_ACTION_CREATE_ID"} :
       token_list[t].call = "parse_default"
  /\ \A t \in {"FLOW", "ADD"} : token_list[t].call = "parse_init"
  /\ \A t \in {"INDIRECT_ACTION", "INDIRECT_ACTION_CREATE", "INDIRECT_ACTION_UPDATE",
       "INDIRECT_ACTION_QUERY", "INDIRECT_ACTION_INGRESS", "INDIRECT_ACTION_EGRESS",
       "INDIRECT_ACTION_TRANSFER"} : token_list[t].call = "parse_ia"
  /\ \A t \in {"INDIRECT_ACTION_DESTROY", "INDIRECT_ACTION_DESTROY_ID"} : token_list[t].call
       = "parse_ia_destroy"
  /\ \A t \in {"ITEM_POL_POLICY"} : token_list[t].call = "parse_mp"
  /\ \A t \in {"DESTROY", "DESTROY_RULE"} : token_list[t].call = "parse_destroy"
  /\ \A t \in {"LIST", "LIST_GROUP"} : token_list[t].call = "parse_list"
  /\ \A t \in {"FLUSH"} : token_list[t].call = "parse_flush"
  /\ \A t \in {"QUERY"} : token_list[t].call = "parse_query"
  /\ \A t \in {"AGED"} : token_list[t].call = "parse_aged"
  /\ \A t \in {"ISOLATE"} : token_list[t].call = "parse_isolate"
  /\ \A t \in {"DUMP", "DUMP_ALL", "DUMP_ONE"} : token_list[t].call = "parse_dump"
  /\ \A t \in {"FLEX", "FLEX_ITEM_INIT", "FLEX_ITEM_CREATE", "FLEX_ITEM_DESTROY"} :
       token_list[t].call = "parse_flex"
  /\ \A t \in {"TUNNEL", "TUNNEL_CREATE", "TUNNEL_CREATE_TYPE", "TUNNEL_DESTROY",
       "TUNNEL_DESTROY_ID", "TUNNEL_LIST"} : token_list[t].call = "parse_tunnel"
  /\ \A t \in {"SET"} : token_list[t].call = "parse_set_init"
  /\ \A t \in {"SET_RAW_ENCAP", "SET_RAW_DECAP"} : token_list[t].call =
       "parse_set_raw_encap_decap"
  /\ \A t \in {"SET_SAMPLE_ACTIONS"} : token_list[t].call = "parse_set_sample_action"
  /\ \A t \in {"VALIDATE", "CREATE", "VC_GROUP", "VC_PRIORITY", "VC_INGRESS", "VC_EGRESS",
       "VC_TRANSFER", "VC_TUNNEL_SET", "VC_TUNNEL_MATCH"} : token_list[t].call = "parse_vc"
<1>1. /\ \A c, L, A, p : Token(c, L, A, p).call = c
      /\ \A c, L : Call(c, L).call = c
      /\ \A L : Word(L).call = "parse_default"
  BY SMT DEF Token, Call, Word
<1>2. \A t \in {"ITEM_POL_PORT", "ITEM_POL_METER", "INDIRECT_ACTION_CREATE_ID"} :
       token_list[t].call = "parse_default"
  BY <1>1, CommandRows, SMT
<1>3. \A t \in {"FLOW", "ADD"} : token_list[t].call = "parse_init"
  BY <1>1, CommandRows, SMT
<1>4. \A t \in {"INDIRECT_ACTION", "INDIRECT_ACTION_CREATE", "INDIRECT_ACTION_UPDATE",
       "INDIRECT_ACTION_QUERY", "INDIRECT_ACTION_INGRESS", "INDIRECT_ACTION_EGRESS",
       "INDIRECT_ACTION_TRANSFER"} : token_list[t].call = "parse_ia"
  BY <1>1, CommandRows, SMT
<1>5. \A t \in {"INDIRECT_ACTION_DESTROY", "INDIRECT_ACTION_DESTROY_ID"} : token_list[t].call
       = "parse_ia_destroy"
  BY <1>1, CommandRows, SMT
<1>6. \A t \in {"ITEM_POL_POLICY"} : token_list[t].call = "parse_mp"
  BY <1>1, CommandRows, SMT
<1>7. \A t \in {"DESTROY", "DESTROY_RULE"} : token_list[t].call = "parse_destroy"
  BY <1>1, CommandRows, SMT
<1>8. \A t \in {"LIST", "LIST_GROUP"} : token_list[t].call = "parse_list"
  BY <1>1, CommandRows, SMT
<1>9. \A t \in {"FLUSH"} : token_list[t].call = "parse_flush"
  BY <1>1, CommandRows, SMT
<1>10. \A t \in {"QUERY"} : token_list[t].call = "parse_query"
  BY <1>1, CommandRows, SMT
<1>11. \A t \in {"AGED"} : token_list[t].call = "parse_aged"
  BY <1>1, CommandRows, SMT
<1>12. \A t \in {"ISOLATE"} : token_list[t].call = "parse_isolate"
  BY <1>1, CommandRows, SMT
<1>13. \A t \in {"DUMP", "DUMP_ALL", "DUMP_ONE"} : token_list[t].call = "parse_dump"
  BY <1>1, CommandRows, SMT
<1>14. \A t \in {"FLEX", "FLEX_ITEM_INIT", "FLEX_ITEM_CREATE", "FLEX_ITEM_DESTROY"} :
       token_list[t].call = "parse_flex"
  BY <1>1, CommandRows, SMT
<1>15. \A t \in {"TUNNEL", "TUNNEL_CREATE", "TUNNEL_CREATE_TYPE", "TUNNEL_DESTROY",
       "TUNNEL_DESTROY_ID", "TUNNEL_LIST"} : token_list[t].call = "parse_tunnel"
  BY <1>1, CommandRows, SMT
<1>16. \A t \in {"SET"} : token_list[t].call = "parse_set_init"
  BY <1>1, CommandRows, SMT
<1>17. \A t \in {"SET_RAW_ENCAP", "SET_RAW_DECAP"} : token_list[t].call =
       "parse_set_raw_encap_decap"
  BY <1>1, CommandRows, SMT
<1>18. \A t \in {"SET_SAMPLE_ACTIONS"} : token_list[t].call = "parse_set_sample_action"
  BY <1>1, CommandRows, SMT
<1>19. \A t \in {"VALIDATE", "CREATE", "VC_GROUP", "VC_PRIORITY", "VC_INGRESS", "VC_EGRESS",
       "VC_TRANSFER", "VC_TUNNEL_SET", "VC_TUNNEL_MATCH"} : token_list[t].call = "parse_vc"
  BY <1>1, CommandRows, SMT
<1> QED
  BY <1>2, <1>3, <1>4, <1>5, <1>6, <1>7, <1>8, <1>9, <1>10, <1>11, <1>12, <1>13, <1>14, <1>15, <1>16, <1>17, <1>18, <1>19, Zenon

(* The keyword of a command, which is the first token that sets one.       *)
LEMMA FirstWord ==
  ASSUME out = Bare("ZERO", "none"), NEW t \in flow_keywords \cup {"ITEM_POL_POLICY"},
         Parse(t, token_list[t])
  PROVE  /\ Accept(t, token_list[t])
         /\ out' = Bare(t, "none") /\ object' = "buffer" /\ objdata' = "none"
<1> DEFINE token == token_list[t]
<1>1. out.command = "ZERO" /\ [out EXCEPT !.command = t] = Bare(t, "none")
  <2> DEFINE i == FALSE
             With(x, y) == [command |-> x, data |-> "none", area |-> y,
                            items |-> i, item_ends |-> 0, action_ends |-> 0]
  <2>1. out = With("ZERO", "none") /\ Bare(t, "none") = With(t, "none")
    BY Zenon DEF Bare
  <2> HIDE DEF i
  <2>2. out.command = "ZERO" /\ [out EXCEPT !.command = t] = With(t, "none")
    BY <2>1, SMT
  <2> QED
    BY <2>1, <2>2, Zenon
<1>2. ASSUME Command(t)
      PROVE  out' = Bare(t, "none") /\ object' = "buffer" /\ objdata' = "none"
  BY <1>1, <1>2, Zenon DEF Command, PointAt
<1>3. CASE t = "FLUSH"
  <2>1. token.call = "parse_flush"
    BY <1>3, CommandCalls, SMT
  <2>2. parse_flush(t, token)
    BY <2>1, CallOf, Zenon
  <2> HIDE DEF token
  <2>3. Accept(t, token) /\ Command(t)
    BY <1>1, <2>2, Zenon DEF parse_flush, CommandOnly
  <2> QED
    BY <1>2, <2>3, Zenon DEF token
<1>4. CASE t = "QUERY"
  <2>1. token.call = "parse_query"
    BY <1>4, CommandCalls, SMT
  <2>2. parse_query(t, token)
    BY <2>1, CallOf, Zenon
  <2> HIDE DEF token
  <2>3. Accept(t, token) /\ Command(t)
    BY <1>1, <2>2, Zenon DEF parse_query, CommandOnly
  <2> QED
    BY <1>2, <2>3, Zenon DEF token
<1>5. CASE t = "AGED"
  <2>1. token.call = "parse_aged"
    BY <1>5, CommandCalls, SMT
  <2>2. parse_aged(t, token)
    BY <2>1, CallOf, Zenon
  <2> HIDE DEF token
  <2>3. Accept(t, token) /\ Command(t)
    BY <1>1, <2>2, Zenon DEF parse_aged, CommandOnly
  <2> QED
    BY <1>2, <2>3, Zenon DEF token
<1>6. CASE t = "ISOLATE"
  <2>1. token.call = "parse_isolate"
    BY <1>6, CommandCalls, SMT
  <2>2. parse_isolate(t, token)
    BY <2>1, CallOf, Zenon
  <2> HIDE DEF token
  <2>3. Accept(t, token) /\ Command(t)
    BY <1>1, <2>2, Zenon DEF parse_isolate, CommandOnly
  <2> QED
    BY <1>2, <2>3, Zenon DEF token
<1>7. CASE t = "DESTROY"
  <2>1. token.call = "parse_destroy"
    BY <1>7, CommandCalls, SMT
  <2>2. parse_destroy(t, token)
    BY <2>1, CallOf, Zenon
  <2> HIDE DEF token
  <2>3. Accept(t, token) /\ Command(t)
    BY <1>1, <2>2, Zenon DEF parse_destroy
  <2> QED
    BY <1>2, <2>3, Zenon DEF token
<1>8. CASE t = "LIST"
  <2>1. token.call = "parse_list"
    BY <1>8, CommandCalls, SMT
  <2>2. parse_list(t, token)
    BY <2>1, CallOf, Zenon
  <2> HIDE DEF token
  <2>3. Accept(t, token) /\ Command(t)
    BY <1>1, <2>2, Zenon DEF parse_list
  <2> QED
    BY <1>2, <2>3, Zenon DEF token
<1>9. CASE t = "DUMP"
  <2>1. token.call = "parse_dump"
    BY <1>9, CommandCalls, SMT
  <2>2. parse_dump(t, token)
    BY <2>1, CallOf, Zenon
  <2> HIDE DEF token
  <2>3. Accept(t, token) /\ Command(t)
    BY <1>1, <2>2, Zenon DEF parse_dump, FirstIs
  <2> QED
    BY <1>2, <2>3, Zenon DEF token
<1>10. CASE t = "TUNNEL"
  <2>1. token.call = "parse_tunnel"
    BY <1>10, CommandCalls, SMT
  <2>2. parse_tunnel(t, token)
    BY <2>1, CallOf, Zenon
  <2> HIDE DEF token
  <2>3. Accept(t, token) /\ Command(t)
    BY <1>1, <2>2, Zenon DEF parse_tunnel
  <2> QED
    BY <1>2, <2>3, Zenon DEF token
<1>11. CASE t = "FLEX"
  <2>1. token.call = "parse_flex"
    BY <1>11, CommandCalls, SMT
  <2>2. parse_flex(t, token)
    BY <2>1, CallOf, Zenon
  <2> HIDE DEF token
  <2>3. Accept(t, token) /\ Command(t)
    BY <1>1, <2>2, Zenon DEF parse_flex
  <2> QED
    BY <1>2, <2>3, Zenon DEF token
<1>12. CASE t = "INDIRECT_ACTION"
  <2>1. token.call = "parse_ia"
    BY <1>12, CommandCalls, SMT
  <2>2. parse_ia(t, token)
    BY <2>1, CallOf, Zenon
  <2> HIDE DEF token
  <2>3. Accept(t, token) /\ Command(t)
    BY <1>1, <2>2, Zenon DEF parse_ia
  <2> QED
    BY <1>2, <2>3, Zenon DEF token
<1>13. CASE t = "ITEM_POL_POLICY"
  <2>1. token.call = "parse_mp"
    BY <1>13, CommandCalls, SMT
  <2>2. parse_mp(t, token)
    BY <2>1, CallOf, Zenon
  <2> HIDE DEF token
  <2>3. Accept(t, token) /\ Command(t)
    BY <1>1, <2>2, Zenon DEF parse_mp
  <2> QED
    BY <1>2, <2>3, Zenon DEF token
<1>14. CASE t \in {"VALIDATE", "CREATE"}
  <2>1. token.call = "parse_vc"
    BY <1>14, CommandCalls, SMT
  <2>2. parse_vc(t, token)
    BY <2>1, CallOf, Zenon
  <2> HIDE DEF token
  <2>3. Accept(t, token) /\ Command(t)
    BY <1>1, <2>2, Zenon DEF parse_vc, vc, FirstIs
  <2> QED
    BY <1>2, <2>3, Zenon DEF token
<1> HIDE DEF token
<1> QED
  BY <1>3, <1>4, <1>5, <1>6, <1>7, <1>8, <1>9, <1>10, <1>11, <1>12, <1>13, <1>14, SMT DEF
    flow_keywords

(* The other words of a command: t after b, the callback, what it leaves.  *)
LEMMA LaterWord ==
  ASSUME out = Bare(out.command, out.area), out.command # "ZERO",
         NEW t, NEW token, Parse(t, token)
  PROVE
    /\ token.call = "parse_ia" /\ t \in {"INDIRECT_ACTION_CREATE", "INDIRECT_ACTION_UPDATE"}
        =>
        Accept(t, token) /\ out' = Bare(t, "actions") /\ object' = "buffer" /\ objdata' = "none"
    /\ token.call = "parse_ia" /\ t = "INDIRECT_ACTION_QUERY" =>
        Accept(t, token) /\ out' = Bare(t, out.area) /\ object' = "buffer" /\ objdata' = "none"
    /\ token.call = "parse_ia" /\ t \in {"INDIRECT_ACTION_INGRESS",
        "INDIRECT_ACTION_EGRESS", "INDIRECT_ACTION_TRANSFER"} =>
        Accept(t, token) /\ out' = out /\ object' = object /\ objdata' = objdata
    /\ token.call = "parse_ia_destroy" /\ t = "INDIRECT_ACTION_DESTROY" /\ out.command =
        "INDIRECT_ACTION" =>
        Accept(t, token) /\ out' = Bare(t, out.area) /\ object' = "buffer" /\ objdata' = "none"
    /\ token.call = "parse_ia_destroy" /\ t = "INDIRECT_ACTION_DESTROY_ID" /\ out.command =
        "INDIRECT_ACTION_DESTROY" =>
        Accept(t, token) /\ out' = out /\ object' = "action_id" /\ objdata' = "none"
    /\ token.call = "parse_destroy" /\ t = "DESTROY_RULE" =>
        Accept(t, token) /\ out' = out /\ object' = "rule" /\ objdata' = "none"
    /\ token.call = "parse_list" /\ t = "LIST_GROUP" =>
        Accept(t, token) /\ out' = out /\ object' = "group" /\ objdata' = "none"
    /\ token.call = "parse_dump" /\ t \in {"DUMP_ALL", "DUMP_ONE"} =>
        Accept(t, token) /\ out' = Bare(t, out.area) /\ object' = "buffer" /\ objdata' = "none"
    /\ token.call = "parse_flex" /\ t \in {"FLEX_ITEM_INIT", "FLEX_ITEM_CREATE",
        "FLEX_ITEM_DESTROY"} =>
        Accept(t, token) /\ out' = Bare(t, out.area) /\ object' = object /\ objdata' = objdata
    /\ token.call = "parse_tunnel" /\ t \in {"TUNNEL_CREATE", "TUNNEL_DESTROY",
        "TUNNEL_LIST"} =>
        Accept(t, token) /\ out' = Bare(t, out.area) /\ object' = object /\ objdata' = objdata
    /\ token.call = "parse_tunnel" /\ t \in {"TUNNEL_CREATE_TYPE", "TUNNEL_DESTROY_ID"} =>
        Accept(t, token) /\ out' = out /\ object' = "tunnel_ops" /\ objdata' = objdata
    /\ token.call = "parse_set_raw_encap_decap" /\ t \in {"SET_RAW_ENCAP", "SET_RAW_DECAP"}
        =>
        Accept(t, token) /\ out' = Bare(t, "pattern") /\ object' = "buffer" /\ objdata' = "none"
    /\ token.call = "parse_set_sample_action" /\ t = "SET_SAMPLE_ACTIONS" =>
        Accept(t, token) /\ out' = Bare(t, "actions") /\ object' = "buffer" /\ objdata' = "none"
    /\ token.call = "parse_mp" /\ t = "ACTION_POL_G" =>
        Accept(t, token) /\ out' = Bare(t, "actions") /\ object' = "buffer" /\ objdata' = "none"
    /\ token.call = "parse_vc" /\ t \in {"VC_TUNNEL_SET", "VC_TUNNEL_MATCH"} =>
        Accept(t, token) /\ out' = out /\ object' = "tunnel_ops" /\ objdata' = "none"
    /\ token.call = "parse_vc" /\ t \in {"VC_GROUP", "VC_PRIORITY", "VC_INGRESS",
        "VC_EGRESS", "VC_TRANSFER"} =>
        Accept(t, token) /\ out' = out /\ object' = "attr" /\ objdata' = "none"
    /\ token.call = "parse_vc" /\ t = "ITEM_PATTERN" =>
        Accept(t, token) /\ out' = Bare(out.command, "pattern") /\ object' = "first_entry" /\ objdata' = "none"
<1> DEFINE c == out.command
           a == out.area
<1>1. out.command = c /\ out.command # "ZERO"
  OBVIOUS
<1>2. /\ [out EXCEPT !.command = t] = Bare(t, a)
      /\ [out EXCEPT !.area = "pattern"] = Bare(c, "pattern")
      /\ [out EXCEPT !.command = t, !.area = "pattern"] = Bare(t, "pattern")
      /\ [out EXCEPT !.command = t, !.area = "actions"] = Bare(t, "actions")
  <2> DEFINE i == FALSE
             With(x, y) == [command |-> x, data |-> "none", area |-> y,
                            items |-> i, item_ends |-> 0, action_ends |-> 0]
             g == [out EXCEPT !.command = t]
  <2>1. out = With(c, a) /\ \A x, y : Bare(x, y) = With(x, y)
    BY Zenon DEF Bare
  <2> HIDE DEF i, c, a
  <2>2. g = With(t, a) /\ [out EXCEPT !.area = "pattern"] = With(c, "pattern")
    BY <2>1, SMT
  <2>3. /\ [out EXCEPT !.command = t, !.area = "pattern"] = [g EXCEPT !.area = "pattern"]
        /\ [out EXCEPT !.command = t, !.area = "actions"] = [g EXCEPT !.area = "actions"]
    BY <2>1, SMT
  <2> HIDE DEF g
  <2>4. /\ [g EXCEPT !.area = "pattern"] = With(t, "pattern")
        /\ [g EXCEPT !.area = "actions"] = With(t, "actions")
    BY <2>2, SMT
  <2> HIDE DEF With
  <2> QED
    BY <2>1, <2>2, <2>3, <2>4, Zenon DEF g
<1>20. ASSUME Command(t)
       PROVE  out' = Bare(t, a) /\ object' = "buffer" /\ objdata' = "none"
  BY <1>2, <1>20, Zenon DEF Command, PointAt
<1> HIDE DEF c, a
<1>3. token.call = "parse_ia" /\ t \in {"INDIRECT_ACTION_CREATE", "INDIRECT_ACTION_UPDATE"}
        =>
        Accept(t, token) /\ out' = Bare(t, "actions") /\ object' = "buffer" /\ objdata' = "none"
  <2> HAVE token.call = "parse_ia" /\ t \in {"INDIRECT_ACTION_CREATE", "INDIRECT_ACTION_UPDATE"}
  <2>1. parse_ia(t, token)
    BY CallOf, Zenon
  <2>2. /\ out.command # "ZERO"
        /\ t \in {"INDIRECT_ACTION_CREATE", "INDIRECT_ACTION_UPDATE"}
        /\ t # "INDIRECT_ACTION_QUERY"
        /\ t \notin {"INDIRECT_ACTION_INGRESS", "INDIRECT_ACTION_EGRESS", "INDIRECT_ACTION_TRANSFER"}
    BY <1>1, SMT
  <2> QED
    BY <1>1, <1>2, <1>20, <2>1, <2>2, Zenon DEF parse_ia, FirstIs, PointAt
<1>4. token.call = "parse_ia" /\ t = "INDIRECT_ACTION_QUERY" =>
        Accept(t, token) /\ out' = Bare(t, a) /\ object' = "buffer" /\ objdata' = "none"
  <2> HAVE token.call = "parse_ia" /\ t = "INDIRECT_ACTION_QUERY"
  <2>1. parse_ia(t, token)
    BY CallOf, Zenon
  <2>2. /\ out.command # "ZERO"
        /\ t \notin {"INDIRECT_ACTION_CREATE", "INDIRECT_ACTION_UPDATE"}
        /\ t = "INDIRECT_ACTION_QUERY"
        /\ t \notin {"INDIRECT_ACTION_INGRESS", "INDIRECT_ACTION_EGRESS", "INDIRECT_ACTION_TRANSFER"}
    BY <1>1, SMT
  <2> QED
    BY <1>1, <1>2, <1>20, <2>1, <2>2, Zenon DEF parse_ia, FirstIs, PointAt
<1>5. token.call = "parse_ia" /\ t \in {"INDIRECT_ACTION_INGRESS", "INDIRECT_ACTION_EGRESS",
        "INDIRECT_ACTION_TRANSFER"} =>
        Accept(t, token) /\ out' = out /\ object' = object /\ objdata' = objdata
  <2> HAVE token.call = "parse_ia" /\ t \in {"INDIRECT_ACTION_INGRESS", "INDIRECT_ACTION_EGRESS", "INDIRECT_ACTION_TRANSFER"}
  <2>1. parse_ia(t, token)
    BY CallOf, Zenon
  <2>2. /\ out.command # "ZERO"
        /\ t \notin {"INDIRECT_ACTION_CREATE", "INDIRECT_ACTION_UPDATE"}
        /\ t # "INDIRECT_ACTION_QUERY"
        /\ t \in {"INDIRECT_ACTION_INGRESS", "INDIRECT_ACTION_EGRESS", "INDIRECT_ACTION_TRANSFER"}
    BY <1>1, SMT
  <2> QED
    BY <1>1, <1>2, <1>20, <2>1, <2>2, Zenon DEF parse_ia, FirstIs, PointAt
<1>6. token.call = "parse_ia_destroy" /\ t = "INDIRECT_ACTION_DESTROY" /\ c =
        "INDIRECT_ACTION" =>
        Accept(t, token) /\ out' = Bare(t, a) /\ object' = "buffer" /\ objdata' = "none"
  <2> HAVE token.call = "parse_ia_destroy" /\ t = "INDIRECT_ACTION_DESTROY" /\ c = "INDIRECT_ACTION"
  <2>1. parse_ia_destroy(t, token)
    BY CallOf, Zenon
  <2>2. /\ out.command \in {"ZERO", "INDIRECT_ACTION"}
    BY <1>1, SMT
  <2> QED
    BY <1>1, <1>2, <1>20, <2>1, <2>2, Zenon DEF parse_ia_destroy, PointAt
<1>7. token.call = "parse_ia_destroy" /\ t = "INDIRECT_ACTION_DESTROY_ID" /\ c =
        "INDIRECT_ACTION_DESTROY" =>
        Accept(t, token) /\ out' = out /\ object' = "action_id" /\ objdata' = "none"
  <2> HAVE token.call = "parse_ia_destroy" /\ t = "INDIRECT_ACTION_DESTROY_ID" /\ c = "INDIRECT_ACTION_DESTROY"
  <2>1. parse_ia_destroy(t, token)
    BY CallOf, Zenon
  <2>2. /\ out.command \notin {"ZERO", "INDIRECT_ACTION"}
    BY <1>1, SMT
  <2> QED
    BY <1>1, <1>2, <1>20, <2>1, <2>2, Zenon DEF parse_ia_destroy, PointAt
<1>8. token.call = "parse_destroy" /\ t = "DESTROY_RULE" =>
        Accept(t, token) /\ out' = out /\ object' = "rule" /\ objdata' = "none"
  <2> HAVE token.call = "parse_destroy" /\ t = "DESTROY_RULE"
  <2>1. parse_destroy(t, token)
    BY CallOf, Zenon
  <2>2. /\ out.command # "ZERO"
    BY <1>1, SMT
  <2> QED
    BY <1>1, <1>2, <1>20, <2>1, <2>2, Zenon DEF parse_destroy, FirstIs, PointAt
<1>9. token.call = "parse_list" /\ t = "LIST_GROUP" =>
        Accept(t, token) /\ out' = out /\ object' = "group" /\ objdata' = "none"
  <2> HAVE token.call = "parse_list" /\ t = "LIST_GROUP"
  <2>1. parse_list(t, token)
    BY CallOf, Zenon
  <2>2. /\ out.command # "ZERO"
    BY <1>1, SMT
  <2> QED
    BY <1>1, <1>2, <1>20, <2>1, <2>2, Zenon DEF parse_list, FirstIs, PointAt
<1>10. token.call = "parse_dump" /\ t \in {"DUMP_ALL", "DUMP_ONE"} =>
        Accept(t, token) /\ out' = Bare(t, a) /\ object' = "buffer" /\ objdata' = "none"
  <2> HAVE token.call = "parse_dump" /\ t \in {"DUMP_ALL", "DUMP_ONE"}
  <2>1. parse_dump(t, token)
    BY CallOf, Zenon
  <2>2. /\ out.command # "ZERO"
        /\ t \in {"DUMP_ALL", "DUMP_ONE"}
    BY <1>1, SMT
  <2> QED
    BY <1>1, <1>2, <1>20, <2>1, <2>2, Zenon DEF parse_dump, FirstIs, PointAt
<1>11. token.call = "parse_flex" /\ t \in {"FLEX_ITEM_INIT", "FLEX_ITEM_CREATE",
        "FLEX_ITEM_DESTROY"} =>
        Accept(t, token) /\ out' = Bare(t, a) /\ object' = object /\ objdata' = objdata
  <2> HAVE token.call = "parse_flex" /\ t \in {"FLEX_ITEM_INIT", "FLEX_ITEM_CREATE", "FLEX_ITEM_DESTROY"}
  <2>1. parse_flex(t, token)
    BY CallOf, Zenon
  <2>2. /\ out.command # "ZERO"
        /\ t \in next_flex_item
    BY <1>1, SMT DEF next_flex_item
  <2> QED
    BY <1>1, <1>2, <1>20, <2>1, <2>2, Zenon DEF parse_flex, FirstIs, PointAt
<1>12. token.call = "parse_tunnel" /\ t \in {"TUNNEL_CREATE", "TUNNEL_DESTROY",
        "TUNNEL_LIST"} =>
        Accept(t, token) /\ out' = Bare(t, a) /\ object' = object /\ objdata' = objdata
  <2> HAVE token.call = "parse_tunnel" /\ t \in {"TUNNEL_CREATE", "TUNNEL_DESTROY", "TUNNEL_LIST"}
  <2>1. parse_tunnel(t, token)
    BY CallOf, Zenon
  <2>2. /\ out.command # "ZERO"
        /\ t \in {"TUNNEL_CREATE", "TUNNEL_DESTROY", "TUNNEL_LIST"}
        /\ t \notin {"TUNNEL_CREATE_TYPE", "TUNNEL_DESTROY_ID"}
    BY <1>1, SMT
  <2> QED
    BY <1>1, <1>2, <1>20, <2>1, <2>2, Zenon DEF parse_tunnel, FirstIs, PointAt
<1>13. token.call = "parse_tunnel" /\ t \in {"TUNNEL_CREATE_TYPE", "TUNNEL_DESTROY_ID"} =>
        Accept(t, token) /\ out' = out /\ object' = "tunnel_ops" /\ objdata' = objdata
  <2> HAVE token.call = "parse_tunnel" /\ t \in {"TUNNEL_CREATE_TYPE", "TUNNEL_DESTROY_ID"}
  <2>1. parse_tunnel(t, token)
    BY CallOf, Zenon
  <2>2. /\ out.command # "ZERO"
        /\ t \notin {"TUNNEL_CREATE", "TUNNEL_DESTROY", "TUNNEL_LIST"}
        /\ t \in {"TUNNEL_CREATE_TYPE", "TUNNEL_DESTROY_ID"}
    BY <1>1, SMT
  <2> QED
    BY <1>1, <1>2, <1>20, <2>1, <2>2, Zenon DEF parse_tunnel, FirstIs, PointAt
<1>14. token.call = "parse_set_raw_encap_decap" /\ t \in {"SET_RAW_ENCAP", "SET_RAW_DECAP"}
        =>
        Accept(t, token) /\ out' = Bare(t, "pattern") /\ object' = "buffer" /\ objdata' = "none"
  <2> HAVE token.call = "parse_set_raw_encap_decap" /\ t \in {"SET_RAW_ENCAP", "SET_RAW_DECAP"}
  <2>1. parse_set_raw_encap_decap(t, token)
    BY CallOf, Zenon
  <2>2. /\ out.command # "ZERO"
    BY <1>1, SMT
  <2> QED
    BY <1>1, <1>2, <1>20, <2>1, <2>2, Zenon DEF parse_set_raw_encap_decap, PointAt
<1>15. token.call = "parse_set_sample_action" /\ t = "SET_SAMPLE_ACTIONS" =>
        Accept(t, token) /\ out' = Bare(t, "actions") /\ object' = "buffer" /\ objdata' = "none"
  <2> HAVE token.call = "parse_set_sample_action" /\ t = "SET_SAMPLE_ACTIONS"
  <2>1. parse_set_sample_action(t, token)
    BY CallOf, Zenon
  <2>2. /\ out.command # "ZERO"
    BY <1>1, SMT
  <2> QED
    BY <1>1, <1>2, <1>20, <2>1, <2>2, Zenon DEF parse_set_sample_action, PointAt
<1>16. token.call = "parse_mp" /\ t = "ACTION_POL_G" =>
        Accept(t, token) /\ out' = Bare(t, "actions") /\ object' = "buffer" /\ objdata' = "none"
  <2> HAVE token.call = "parse_mp" /\ t = "ACTION_POL_G"
  <2>1. parse_mp(t, token)
    BY CallOf, Zenon
  <2>2. /\ out.command # "ZERO"
    BY <1>1, SMT
  <2> QED
    BY <1>1, <1>2, <1>20, <2>1, <2>2, Zenon DEF parse_mp, FirstIs, PointAt
<1>17. token.call = "parse_vc" /\ t \in {"VC_TUNNEL_SET", "VC_TUNNEL_MATCH"} =>
        Accept(t, token) /\ out' = out /\ object' = "tunnel_ops" /\ objdata' = "none"
  <2> HAVE token.call = "parse_vc" /\ t \in {"VC_TUNNEL_SET", "VC_TUNNEL_MATCH"}
  <2>1. parse_vc(t, token)
    BY CallOf, Zenon
  <2>2. out.command # "ZERO" /\ t \notin {"VALIDATE", "CREATE"}
    BY <1>1, SMT
  <2>3. t \in vc_attributes /\ t \notin {"ITEM_PATTERN", "ACTIONS"} /\ (t \in vc_tunnels <=> TRUE)
    BY SMT DEF vc_attributes, next_vc_attr, vc_tunnels
  <2> QED
    BY <1>1, <1>2, <2>1, <2>2, <2>3, Zenon DEF parse_vc, vc, FirstIs, PointAt
<1>18. token.call = "parse_vc" /\ t \in {"VC_GROUP", "VC_PRIORITY", "VC_INGRESS",
        "VC_EGRESS", "VC_TRANSFER"} =>
        Accept(t, token) /\ out' = out /\ object' = "attr" /\ objdata' = "none"
  <2> HAVE token.call = "parse_vc" /\ t \in {"VC_GROUP", "VC_PRIORITY", "VC_INGRESS", "VC_EGRESS", "VC_TRANSFER"}
  <2>1. parse_vc(t, token)
    BY CallOf, Zenon
  <2>2. out.command # "ZERO" /\ t \notin {"VALIDATE", "CREATE"}
    BY <1>1, SMT
  <2>3. t \in vc_attributes /\ t \notin {"ITEM_PATTERN", "ACTIONS"} /\ (t \in vc_tunnels <=> FALSE)
    BY SMT DEF vc_attributes, next_vc_attr, vc_tunnels
  <2> QED
    BY <1>1, <1>2, <2>1, <2>2, <2>3, Zenon DEF parse_vc, vc, FirstIs, PointAt
<1>19. token.call = "parse_vc" /\ t = "ITEM_PATTERN" =>
        Accept(t, token) /\ out' = Bare(c, "pattern") /\ object' = "first_entry" /\ objdata' = "none"
  <2> HAVE token.call = "parse_vc" /\ t = "ITEM_PATTERN"
  <2>1. parse_vc(t, token)
    BY CallOf, Zenon
  <2>2. out.command # "ZERO" /\ t \notin {"VALIDATE", "CREATE"}
    BY <1>1, SMT
  <2>3. t \notin vc_attributes
    BY SMT DEF vc_attributes
  <2> QED
    BY <1>1, <1>2, <2>1, <2>2, <2>3, Zenon DEF parse_vc, vc, FirstIs, PointAt
<1> QED
  BY <1>3, <1>4, <1>5, <1>6, <1>7, <1>8, <1>9, <1>10, <1>11, <1>12, <1>13, <1>14, <1>15,
    <1>16, <1>17, <1>18, <1>19, Zenon DEF c, a

(* The fields of a buffer without entries.                                 *)
LEMMA BareFields == \A c, a : Bare(c, a).command = c /\ Bare(c, a).area = a
  BY Zenon DEF Bare

(* A word of a command leaves in the context what belongs to it.           *)
LEMMA WordEffect ==
  ASSUME NEW b \in CommandWords, NEW c \in CommandsOf(b), out = Bare(c, AreaOf(b)),
         object = ObjectOf(b), objdata = "none",
         NEW t, Precedes(b, t), Parse(t, token_list[t])
  PROVE  /\ t \in CommandWords /\ Accept(t, token_list[t])
         /\ object' = ObjectOf(t) /\ objdata' = "none"
         /\ \E d \in CommandsOf(t) : out' = Bare(d, AreaOf(t))
<1> DEFINE token == token_list[t]
<1>1. CASE b = "ZERO" /\ t \in {"FLOW", "ADD"}
  <2>1. token.call = "parse_init"
    BY <1>1, CommandCalls, SMT
  <2>2. parse_init(t, token)
    BY <2>1, CallOf, Zenon
  <2> HIDE DEF token
  <2>3. /\ t \in CommandWords /\ CommandsOf(t) = {"ZERO"}
        /\ AreaOf(t) = "none" /\ ObjectOf(t) = "buffer"
    BY <1>1, SMT DEF CommandWords, CommandsOf, AreaOf, ObjectOf, PolicyWords, IndirectAttrs,
      SetRaw, vc_attributes, next_vc_attr, vc_tunnels
  <2>4. EmptyBuffer = Bare("ZERO", "none")
    BY Zenon DEF EmptyBuffer, Bare
  <2> QED
    BY <2>2, <2>3, <2>4, Zenon DEF parse_init, PointAt, token
<1>2. CASE b = "START_SET" /\ t = "SET"
  <2>1. token.call = "parse_set_init"
    BY <1>2, CommandCalls, SMT
  <2>2. parse_set_init(t, token)
    BY <2>1, CallOf, Zenon
  <2> HIDE DEF token
  <2>3. /\ t \in CommandWords /\ CommandsOf(t) = {"SET"}
        /\ AreaOf(t) = "none" /\ ObjectOf(t) = "first_entry"
    BY <1>2, SMT DEF CommandWords, CommandsOf, AreaOf, ObjectOf, PolicyWords, IndirectAttrs,
      SetRaw, vc_attributes, next_vc_attr, vc_tunnels
  <2>4. [EmptyBuffer EXCEPT !.command = t] = Bare(t, "none")
    <3> DEFINE i == FALSE
               With(x) == [command |-> x, data |-> "none", area |-> "none",
                           items |-> i, item_ends |-> 0, action_ends |-> 0]
    <3>1. EmptyBuffer = With("ZERO") /\ Bare(t, "none") = With(t)
      BY Zenon DEF EmptyBuffer, Bare
    <3> HIDE DEF i
    <3>2. [EmptyBuffer EXCEPT !.command = t] = With(t)
      BY <3>1, SMT
    <3> QED
      BY <3>1, <3>2, Zenon
  <2> QED
    BY <1>2, <2>2, <2>3, <2>4, Zenon DEF parse_set_init, PointAt, token
<1>3. CASE (b = "FLOW" /\ t \in flow_keywords) \/ (b = "ITEM_POL_METER" /\ t = "ITEM_POL_POLICY")
  <2> DEFINE Keywords == flow_keywords \cup {"ITEM_POL_POLICY"}
  <2>1. c = "ZERO" /\ AreaOf(b) = "none"
    BY <1>3, SMT DEF CommandsOf, AreaOf, ObjectOf, PolicyWords, IndirectAttrs, SetRaw,
      vc_attributes, next_vc_attr, vc_tunnels
  <2>2. Accept(t, token) /\ out' = Bare(t, "none") /\ object' = "buffer" /\ objdata' = "none"
    <3>1. t \in Keywords /\ out = Bare("ZERO", "none")
      BY <1>3, <2>1, Zenon
    <3> QED
      BY <3>1, FirstWord, Zenon
  <2>3. /\ t \in CommandWords /\ CommandsOf(t) = {t}
        /\ AreaOf(t) = "none" /\ ObjectOf(t) = "buffer"
    BY <1>3, SMT DEF CommandWords, flow_keywords, CommandsOf, AreaOf, ObjectOf, PolicyWords,
      IndirectAttrs, SetRaw, vc_attributes, next_vc_attr, vc_tunnels
  <2> QED
    BY <2>2, <2>3, Zenon
<1>4. CASE b = "SET" /\ t \in {"SET_RAW_ENCAP", "SET_RAW_DECAP"}
  <2>2. c = "SET" /\ AreaOf(b) = "none"
    BY <1>4, SMT DEF CommandsOf, AreaOf, ObjectOf, PolicyWords, IndirectAttrs, SetRaw,
      vc_attributes, next_vc_attr, vc_tunnels
  <2>3. out.command = c /\ out.area = "none" /\ c # "ZERO"
    <3>1. out = Bare(c, "none")
      BY <2>2, Zenon
    <3>2. c # "ZERO"
      BY <2>2, SMT
    <3> QED
      BY <3>1, <3>2, BareFields, Zenon
  <2>4. out = Bare(out.command, out.area) /\ out.command # "ZERO"
    BY <2>2, <2>3, Zenon
  <2>5. token.call = "parse_set_raw_encap_decap"
    BY <1>4, CommandCalls, SMT
  <2>6. /\ Accept(t, token) /\ object' = "buffer" /\ objdata' = "none"
        /\ out' = Bare(t, "pattern")
    BY <1>4, <2>2, <2>3, <2>4, <2>5, LaterWord, ZenonT(60)
  <2>7. t \in CommandsOf(t) /\ AreaOf(t) = "pattern" /\ ObjectOf(t) = "buffer"
    BY <1>4, <2>2, SMT DEF CommandsOf, AreaOf, ObjectOf, PolicyWords, IndirectAttrs, SetRaw,
      vc_attributes, next_vc_attr, vc_tunnels
  <2>8. t \in CommandWords
    BY <1>4, SMT DEF CommandWords, PolicyWords, IndirectAttrs, SetRaw
  <2> QED
    BY <2>6, <2>7, <2>8, Zenon
<1>5. CASE b = "SET" /\ t = "SET_SAMPLE_ACTIONS"
  <2>2. c = "SET" /\ AreaOf(b) = "none"
    BY <1>5, SMT DEF CommandsOf, AreaOf, ObjectOf, PolicyWords, IndirectAttrs, SetRaw,
      vc_attributes, next_vc_attr, vc_tunnels
  <2>3. out.command = c /\ out.area = "none" /\ c # "ZERO"
    <3>1. out = Bare(c, "none")
      BY <2>2, Zenon
    <3>2. c # "ZERO"
      BY <2>2, SMT
    <3> QED
      BY <3>1, <3>2, BareFields, Zenon
  <2>4. out = Bare(out.command, out.area) /\ out.command # "ZERO"
    BY <2>2, <2>3, Zenon
  <2>5. token.call = "parse_set_sample_action"
    BY <1>5, CommandCalls, SMT
  <2>6. /\ Accept(t, token) /\ object' = "buffer" /\ objdata' = "none"
        /\ out' = Bare(t, "actions")
    BY <1>5, <2>2, <2>3, <2>4, <2>5, LaterWord, ZenonT(60)
  <2>7. t \in CommandsOf(t) /\ AreaOf(t) = "actions" /\ ObjectOf(t) = "buffer"
    BY <1>5, <2>2, SMT DEF CommandsOf, AreaOf, ObjectOf, PolicyWords, IndirectAttrs, SetRaw,
      vc_attributes, next_vc_attr, vc_tunnels
  <2>8. t \in CommandWords
    BY <1>5, SMT DEF CommandWords, PolicyWords, IndirectAttrs, SetRaw
  <2> QED
    BY <2>6, <2>7, <2>8, Zenon
<1>6. CASE b = "INDIRECT_ACTION" /\ t \in {"INDIRECT_ACTION_CREATE",
          "INDIRECT_ACTION_UPDATE"}
  <2>2. c = "INDIRECT_ACTION" /\ AreaOf(b) = "none"
    BY <1>6, SMT DEF CommandsOf, AreaOf, ObjectOf, PolicyWords, IndirectAttrs, SetRaw,
      vc_attributes, next_vc_attr, vc_tunnels
  <2>3. out.command = c /\ out.area = "none" /\ c # "ZERO"
    <3>1. out = Bare(c, "none")
      BY <2>2, Zenon
    <3>2. c # "ZERO"
      BY <2>2, SMT
    <3> QED
      BY <3>1, <3>2, BareFields, Zenon
  <2>4. out = Bare(out.command, out.area) /\ out.command # "ZERO"
    BY <2>2, <2>3, Zenon
  <2>5. token.call = "parse_ia"
    BY <1>6, CommandCalls, SMT
  <2>6. /\ Accept(t, token) /\ object' = "buffer" /\ objdata' = "none"
        /\ out' = Bare(t, "actions")
    BY <1>6, <2>2, <2>3, <2>4, <2>5, LaterWord, ZenonT(60)
  <2>7. t \in CommandsOf(t) /\ AreaOf(t) = "actions" /\ ObjectOf(t) = "buffer"
    BY <1>6, <2>2, SMT DEF CommandsOf, AreaOf, ObjectOf, PolicyWords, IndirectAttrs, SetRaw,
      vc_attributes, next_vc_attr, vc_tunnels
  <2>8. t \in CommandWords
    BY <1>6, SMT DEF CommandWords, PolicyWords, IndirectAttrs, SetRaw
  <2> QED
    BY <2>6, <2>7, <2>8, Zenon
<1>7. CASE b = "INDIRECT_ACTION" /\ t = "INDIRECT_ACTION_QUERY"
  <2>2. c = "INDIRECT_ACTION" /\ AreaOf(b) = "none"
    BY <1>7, SMT DEF CommandsOf, AreaOf, ObjectOf, PolicyWords, IndirectAttrs, SetRaw,
      vc_attributes, next_vc_attr, vc_tunnels
  <2>3. out.command = c /\ out.area = "none" /\ c # "ZERO"
    <3>1. out = Bare(c, "none")
      BY <2>2, Zenon
    <3>2. c # "ZERO"
      BY <2>2, SMT
    <3> QED
      BY <3>1, <3>2, BareFields, Zenon
  <2>4. out = Bare(out.command, out.area) /\ out.command # "ZERO"
    BY <2>2, <2>3, Zenon
  <2>5. token.call = "parse_ia"
    BY <1>7, CommandCalls, SMT
  <2>6. /\ Accept(t, token) /\ object' = "buffer" /\ objdata' = "none"
        /\ out' = Bare(t, "none")
    BY <1>7, <2>2, <2>3, <2>4, <2>5, LaterWord, ZenonT(60)
  <2>7. t \in CommandsOf(t) /\ AreaOf(t) = "none" /\ ObjectOf(t) = "buffer"
    BY <1>7, <2>2, SMT DEF CommandsOf, AreaOf, ObjectOf, PolicyWords, IndirectAttrs, SetRaw,
      vc_attributes, next_vc_attr, vc_tunnels
  <2>8. t \in CommandWords
    BY <1>7, SMT DEF CommandWords, PolicyWords, IndirectAttrs, SetRaw
  <2> QED
    BY <2>6, <2>7, <2>8, Zenon
<1>8. CASE b = "INDIRECT_ACTION" /\ t = "INDIRECT_ACTION_DESTROY"
  <2>2. c = "INDIRECT_ACTION" /\ AreaOf(b) = "none"
    BY <1>8, SMT DEF CommandsOf, AreaOf, ObjectOf, PolicyWords, IndirectAttrs, SetRaw,
      vc_attributes, next_vc_attr, vc_tunnels
  <2>3. out.command = c /\ out.area = "none" /\ c # "ZERO"
    <3>1. out = Bare(c, "none")
      BY <2>2, Zenon
    <3>2. c # "ZERO"
      BY <2>2, SMT
    <3> QED
      BY <3>1, <3>2, BareFields, Zenon
  <2>4. out = Bare(out.command, out.area) /\ out.command # "ZERO"
    BY <2>2, <2>3, Zenon
  <2>5. token.call = "parse_ia_destroy"
    BY <1>8, CommandCalls, SMT
  <2>6. /\ Accept(t, token) /\ object' = "buffer" /\ objdata' = "none"
        /\ out' = Bare(t, "none")
    BY <1>8, <2>2, <2>3, <2>4, <2>5, LaterWord, ZenonT(60)
  <2>7. t \in CommandsOf(t) /\ AreaOf(t) = "none" /\ ObjectOf(t) = "buffer"
    BY <1>8, <2>2, SMT DEF CommandsOf, AreaOf, ObjectOf, PolicyWords, IndirectAttrs, SetRaw,
      vc_attributes, next_vc_attr, vc_tunnels
  <2>8. t \in CommandWords
    BY <1>8, SMT DEF CommandWords, PolicyWords, IndirectAttrs, SetRaw
  <2> QED
    BY <2>6, <2>7, <2>8, Zenon
<1>9. CASE b \in {"INDIRECT_ACTION_CREATE", "INDIRECT_ACTION_CREATE_ID",
          "INDIRECT_ACTION_INGRESS", "INDIRECT_ACTION_EGRESS", "INDIRECT_ACTION_TRANSFER"}
          /\ t = "INDIRECT_ACTION_CREATE_ID"
  <2>2. c = "INDIRECT_ACTION_CREATE" /\ AreaOf(b) = "actions" /\ ObjectOf(b) = "buffer"
    BY <1>9, SMT DEF CommandsOf, AreaOf, ObjectOf, PolicyWords, IndirectAttrs, SetRaw,
      vc_attributes, next_vc_attr, vc_tunnels
  <2>5. token.call = "parse_default"
    BY <1>9, CommandCalls, SMT
  <2>6. /\ Accept(t, token) /\ object' = "buffer" /\ objdata' = "none"
        /\ out' = Bare(c, "actions")
    BY <2>2, <2>5, Defaults, Zenon
  <2>7. c \in CommandsOf(t) /\ AreaOf(t) = "actions" /\ ObjectOf(t) = "buffer"
    BY <1>9, <2>2, SMT DEF CommandsOf, AreaOf, ObjectOf, PolicyWords, IndirectAttrs, SetRaw,
      vc_attributes, next_vc_attr, vc_tunnels
  <2>8. t \in CommandWords
    BY <1>9, SMT DEF CommandWords, PolicyWords, IndirectAttrs, SetRaw
  <2> QED
    BY <2>6, <2>7, <2>8, Zenon
<1>10. CASE b \in {"INDIRECT_ACTION_CREATE", "INDIRECT_ACTION_CREATE_ID",
          "INDIRECT_ACTION_INGRESS", "INDIRECT_ACTION_EGRESS", "INDIRECT_ACTION_TRANSFER"}
          /\ t \in {"INDIRECT_ACTION_INGRESS", "INDIRECT_ACTION_EGRESS",
          "INDIRECT_ACTION_TRANSFER"}
  <2>2. c = "INDIRECT_ACTION_CREATE" /\ AreaOf(b) = "actions" /\ ObjectOf(b) = "buffer"
    BY <1>10, SMT DEF CommandsOf, AreaOf, ObjectOf, PolicyWords, IndirectAttrs, SetRaw,
      vc_attributes, next_vc_attr, vc_tunnels
  <2>3. out.command = c /\ out.area = "actions" /\ c # "ZERO"
    <3>1. out = Bare(c, "actions")
      BY <2>2, Zenon
    <3>2. c # "ZERO"
      BY <2>2, SMT
    <3> QED
      BY <3>1, <3>2, BareFields, Zenon
  <2>4. out = Bare(out.command, out.area) /\ out.command # "ZERO"
    BY <2>2, <2>3, Zenon
  <2>5. token.call = "parse_ia"
    BY <1>10, CommandCalls, SMT
  <2>6. /\ Accept(t, token) /\ object' = "buffer" /\ objdata' = "none"
        /\ out' = Bare(c, "actions")
    BY <1>10, <2>2, <2>3, <2>4, <2>5, LaterWord, ZenonT(60)
  <2>7. c \in CommandsOf(t) /\ AreaOf(t) = "actions" /\ ObjectOf(t) = "buffer"
    BY <1>10, <2>2, SMT DEF CommandsOf, AreaOf, ObjectOf, PolicyWords, IndirectAttrs,
      SetRaw, vc_attributes, next_vc_attr, vc_tunnels
  <2>8. t \in CommandWords
    BY <1>10, SMT DEF CommandWords, PolicyWords, IndirectAttrs, SetRaw
  <2> QED
    BY <2>6, <2>7, <2>8, Zenon
<1>11. CASE b \in {"INDIRECT_ACTION_DESTROY", "INDIRECT_ACTION_DESTROY_ID"} /\ t =
          "INDIRECT_ACTION_DESTROY_ID"
  <2>2. c = "INDIRECT_ACTION_DESTROY" /\ AreaOf(b) = "none"
    BY <1>11, SMT DEF CommandsOf, AreaOf, ObjectOf, PolicyWords, IndirectAttrs, SetRaw,
      vc_attributes, next_vc_attr, vc_tunnels
  <2>3. out.command = c /\ out.area = "none" /\ c # "ZERO"
    <3>1. out = Bare(c, "none")
      BY <2>2, Zenon
    <3>2. c # "ZERO"
      BY <2>2, SMT
    <3> QED
      BY <3>1, <3>2, BareFields, Zenon
  <2>4. out = Bare(out.command, out.area) /\ out.command # "ZERO"
    BY <2>2, <2>3, Zenon
  <2>5. token.call = "parse_ia_destroy"
    BY <1>11, CommandCalls, SMT
  <2>6. /\ Accept(t, token) /\ object' = "action_id" /\ objdata' = "none"
        /\ out' = Bare(c, "none")
    BY <1>11, <2>2, <2>3, <2>4, <2>5, LaterWord, ZenonT(60)
  <2>7. c \in CommandsOf(t) /\ AreaOf(t) = "none" /\ ObjectOf(t) = "action_id"
    BY <1>11, <2>2, SMT DEF CommandsOf, AreaOf, ObjectOf, PolicyWords, IndirectAttrs,
      SetRaw, vc_attributes, next_vc_attr, vc_tunnels
  <2>8. t \in CommandWords
    BY <1>11, SMT DEF CommandWords, PolicyWords, IndirectAttrs, SetRaw
  <2> QED
    BY <2>6, <2>7, <2>8, Zenon
<1>12. CASE b \in {"VALIDATE", "CREATE", "VC_GROUP", "VC_PRIORITY", "VC_INGRESS",
          "VC_EGRESS", "VC_TRANSFER", "VC_TUNNEL_SET", "VC_TUNNEL_MATCH"} /\ t \in
          {"VC_TUNNEL_SET", "VC_TUNNEL_MATCH"}
  <2>2. c \in {"VALIDATE", "CREATE"} /\ AreaOf(b) = "none"
    BY <1>12, SMT DEF CommandsOf, AreaOf, ObjectOf, PolicyWords, IndirectAttrs, SetRaw,
      vc_attributes, next_vc_attr, vc_tunnels
  <2>3. out.command = c /\ out.area = "none" /\ c # "ZERO"
    <3>1. out = Bare(c, "none")
      BY <2>2, Zenon
    <3>2. c # "ZERO"
      BY <2>2, SMT
    <3> QED
      BY <3>1, <3>2, BareFields, Zenon
  <2>4. out = Bare(out.command, out.area) /\ out.command # "ZERO"
    BY <2>2, <2>3, Zenon
  <2>5. token.call = "parse_vc"
    BY <1>12, CommandCalls, SMT
  <2>6. /\ Accept(t, token) /\ object' = "tunnel_ops" /\ objdata' = "none"
        /\ out' = Bare(c, "none")
    BY <1>12, <2>2, <2>3, <2>4, <2>5, LaterWord, ZenonT(60)
  <2>7. c \in CommandsOf(t) /\ AreaOf(t) = "none" /\ ObjectOf(t) = "tunnel_ops"
    BY <1>12, <2>2, SMT DEF CommandsOf, AreaOf, ObjectOf, PolicyWords, IndirectAttrs,
      SetRaw, vc_attributes, next_vc_attr, vc_tunnels
  <2>8. t \in CommandWords
    BY <1>12, SMT DEF CommandWords, PolicyWords, IndirectAttrs, SetRaw
  <2> QED
    BY <2>6, <2>7, <2>8, Zenon
<1>13. CASE b \in {"VALIDATE", "CREATE", "VC_GROUP", "VC_PRIORITY", "VC_INGRESS",
          "VC_EGRESS", "VC_TRANSFER", "VC_TUNNEL_SET", "VC_TUNNEL_MATCH"} /\ t \in
          {"VC_GROUP", "VC_PRIORITY", "VC_INGRESS", "VC_EGRESS", "VC_TRANSFER"}
  <2>2. c \in {"VALIDATE", "CREATE"} /\ AreaOf(b) = "none"
    BY <1>13, SMT DEF CommandsOf, AreaOf, ObjectOf, PolicyWords, IndirectAttrs, SetRaw,
      vc_attributes, next_vc_attr, vc_tunnels
  <2>3. out.command = c /\ out.area = "none" /\ c # "ZERO"
    <3>1. out = Bare(c, "none")
      BY <2>2, Zenon
    <3>2. c # "ZERO"
      BY <2>2, SMT
    <3> QED
      BY <3>1, <3>2, BareFields, Zenon
  <2>4. out = Bare(out.command, out.area) /\ out.command # "ZERO"
    BY <2>2, <2>3, Zenon
  <2>5. token.call = "parse_vc"
    BY <1>13, CommandCalls, SMT
  <2>6. /\ Accept(t, token) /\ object' = "attr" /\ objdata' = "none"
        /\ out' = Bare(c, "none")
    BY <1>13, <2>2, <2>3, <2>4, <2>5, LaterWord, ZenonT(60)
  <2>7. c \in CommandsOf(t) /\ AreaOf(t) = "none" /\ ObjectOf(t) = "attr"
    BY <1>13, <2>2, SMT DEF CommandsOf, AreaOf, ObjectOf, PolicyWords, IndirectAttrs,
      SetRaw, vc_attributes, next_vc_attr, vc_tunnels
  <2>8. t \in CommandWords
    BY <1>13, SMT DEF CommandWords, PolicyWords, IndirectAttrs, SetRaw
  <2> QED
    BY <2>6, <2>7, <2>8, Zenon
<1>14. CASE b \in {"DESTROY", "DESTROY_RULE"} /\ t = "DESTROY_RULE"
  <2>2. c = "DESTROY" /\ AreaOf(b) = "none"
    BY <1>14, SMT DEF CommandsOf, AreaOf, ObjectOf, PolicyWords, IndirectAttrs, SetRaw,
      vc_attributes, next_vc_attr, vc_tunnels
  <2>3. out.command = c /\ out.area = "none" /\ c # "ZERO"
    <3>1. out = Bare(c, "none")
      BY <2>2, Zenon
    <3>2. c # "ZERO"
      BY <2>2, SMT
    <3> QED
      BY <3>1, <3>2, BareFields, Zenon
  <2>4. out = Bare(out.command, out.area) /\ out.command # "ZERO"
    BY <2>2, <2>3, Zenon
  <2>5. token.call = "parse_destroy"
    BY <1>14, CommandCalls, SMT
  <2>6. /\ Accept(t, token) /\ object' = "rule" /\ objdata' = "none"
        /\ out' = Bare(c, "none")
    BY <1>14, <2>2, <2>3, <2>4, <2>5, LaterWord, ZenonT(60)
  <2>7. c \in CommandsOf(t) /\ AreaOf(t) = "none" /\ ObjectOf(t) = "rule"
    BY <1>14, <2>2, SMT DEF CommandsOf, AreaOf, ObjectOf, PolicyWords, IndirectAttrs,
      SetRaw, vc_attributes, next_vc_attr, vc_tunnels
  <2>8. t \in CommandWords
    BY <1>14, SMT DEF CommandWords, PolicyWords, IndirectAttrs, SetRaw
  <2> QED
    BY <2>6, <2>7, <2>8, Zenon
<1>15. CASE b = "DUMP" /\ t \in {"DUMP_ALL", "DUMP_ONE"}
  <2>2. c = "DUMP" /\ AreaOf(b) = "none"
    BY <1>15, SMT DEF CommandsOf, AreaOf, ObjectOf, PolicyWords, IndirectAttrs, SetRaw,
      vc_attributes, next_vc_attr, vc_tunnels
  <2>3. out.command = c /\ out.area = "none" /\ c # "ZERO"
    <3>1. out = Bare(c, "none")
      BY <2>2, Zenon
    <3>2. c # "ZERO"
      BY <2>2, SMT
    <3> QED
      BY <3>1, <3>2, BareFields, Zenon
  <2>4. out = Bare(out.command, out.area) /\ out.command # "ZERO"
    BY <2>2, <2>3, Zenon
  <2>5. token.call = "parse_dump"
    BY <1>15, CommandCalls, SMT
  <2>6. /\ Accept(t, token) /\ object' = "buffer" /\ objdata' = "none"
        /\ out' = Bare(t, "none")
    BY <1>15, <2>2, <2>3, <2>4, <2>5, LaterWord, ZenonT(60)
  <2>7. t \in CommandsOf(t) /\ AreaOf(t) = "none" /\ ObjectOf(t) = "buffer"
    BY <1>15, <2>2, SMT DEF CommandsOf, AreaOf, ObjectOf, PolicyWords, IndirectAttrs,
      SetRaw, vc_attributes, next_vc_attr, vc_tunnels
  <2>8. t \in CommandWords
    BY <1>15, SMT DEF CommandWords, PolicyWords, IndirectAttrs, SetRaw
  <2> QED
    BY <2>6, <2>7, <2>8, Zenon
<1>16. CASE b \in {"LIST", "LIST_GROUP"} /\ t = "LIST_GROUP"
  <2>2. c = "LIST" /\ AreaOf(b) = "none"
    BY <1>16, SMT DEF CommandsOf, AreaOf, ObjectOf, PolicyWords, IndirectAttrs, SetRaw,
      vc_attributes, next_vc_attr, vc_tunnels
  <2>3. out.command = c /\ out.area = "none" /\ c # "ZERO"
    <3>1. out = Bare(c, "none")
      BY <2>2, Zenon
    <3>2. c # "ZERO"
      BY <2>2, SMT
    <3> QED
      BY <3>1, <3>2, BareFields, Zenon
  <2>4. out = Bare(out.command, out.area) /\ out.command # "ZERO"
    BY <2>2, <2>3, Zenon
  <2>5. token.call = "parse_list"
    BY <1>16, CommandCalls, SMT
  <2>6. /\ Accept(t, token) /\ object' = "group" /\ objdata' = "none"
        /\ out' = Bare(c, "none")
    BY <1>16, <2>2, <2>3, <2>4, <2>5, LaterWord, ZenonT(60)
  <2>7. c \in CommandsOf(t) /\ AreaOf(t) = "none" /\ ObjectOf(t) = "group"
    BY <1>16, <2>2, SMT DEF CommandsOf, AreaOf, ObjectOf, PolicyWords, IndirectAttrs,
      SetRaw, vc_attributes, next_vc_attr, vc_tunnels
  <2>8. t \in CommandWords
    BY <1>16, SMT DEF CommandWords, PolicyWords, IndirectAttrs, SetRaw
  <2> QED
    BY <2>6, <2>7, <2>8, Zenon
<1>17. CASE b = "FLEX" /\ t \in {"FLEX_ITEM_INIT", "FLEX_ITEM_CREATE", "FLEX_ITEM_DESTROY"}
  <2>2. c = "FLEX" /\ AreaOf(b) = "none" /\ ObjectOf(b) = "buffer"
    BY <1>17, SMT DEF CommandsOf, AreaOf, ObjectOf, PolicyWords, IndirectAttrs, SetRaw,
      vc_attributes, next_vc_attr, vc_tunnels
  <2>3. out.command = c /\ out.area = "none" /\ c # "ZERO"
    <3>1. out = Bare(c, "none")
      BY <2>2, Zenon
    <3>2. c # "ZERO"
      BY <2>2, SMT
    <3> QED
      BY <3>1, <3>2, BareFields, Zenon
  <2>4. out = Bare(out.command, out.area) /\ out.command # "ZERO"
    BY <2>2, <2>3, Zenon
  <2>5. token.call = "parse_flex"
    BY <1>17, CommandCalls, SMT
  <2>6. /\ Accept(t, token) /\ object' = "buffer" /\ objdata' = "none"
        /\ out' = Bare(t, "none")
    BY <1>17, <2>2, <2>3, <2>4, <2>5, LaterWord, ZenonT(60)
  <2>7. t \in CommandsOf(t) /\ AreaOf(t) = "none" /\ ObjectOf(t) = "buffer"
    BY <1>17, <2>2, SMT DEF CommandsOf, AreaOf, ObjectOf, PolicyWords, IndirectAttrs,
      SetRaw, vc_attributes, next_vc_attr, vc_tunnels
  <2>8. t \in CommandWords
    BY <1>17, SMT DEF CommandWords, PolicyWords, IndirectAttrs, SetRaw
  <2> QED
    BY <2>6, <2>7, <2>8, Zenon
<1>18. CASE b = "TUNNEL" /\ t \in {"TUNNEL_CREATE", "TUNNEL_DESTROY", "TUNNEL_LIST"}
  <2>2. c = "TUNNEL" /\ AreaOf(b) = "none" /\ ObjectOf(b) = "buffer"
    BY <1>18, SMT DEF CommandsOf, AreaOf, ObjectOf, PolicyWords, IndirectAttrs, SetRaw,
      vc_attributes, next_vc_attr, vc_tunnels
  <2>3. out.command = c /\ out.area = "none" /\ c # "ZERO"
    <3>1. out = Bare(c, "none")
      BY <2>2, Zenon
    <3>2. c # "ZERO"
      BY <2>2, SMT
    <3> QED
      BY <3>1, <3>2, BareFields, Zenon
  <2>4. out = Bare(out.command, out.area) /\ out.command # "ZERO"
    BY <2>2, <2>3, Zenon
  <2>5. token.call = "parse_tunnel"
    BY <1>18, CommandCalls, SMT
  <2>6. /\ Accept(t, token) /\ object' = "buffer" /\ objdata' = "none"
        /\ out' = Bare(t, "none")
    BY <1>18, <2>2, <2>3, <2>4, <2>5, LaterWord, ZenonT(60)
  <2>7. t \in CommandsOf(t) /\ AreaOf(t) = "none" /\ ObjectOf(t) = "buffer"
    BY <1>18, <2>2, SMT DEF CommandsOf, AreaOf, ObjectOf, PolicyWords, IndirectAttrs,
      SetRaw, vc_attributes, next_vc_attr, vc_tunnels
  <2>8. t \in CommandWords
    BY <1>18, SMT DEF CommandWords, PolicyWords, IndirectAttrs, SetRaw
  <2> QED
    BY <2>6, <2>7, <2>8, Zenon
<1>19. CASE b = "TUNNEL_CREATE" /\ t = "TUNNEL_CREATE_TYPE"
  <2>2. c = "TUNNEL_CREATE" /\ AreaOf(b) = "none"
    BY <1>19, SMT DEF CommandsOf, AreaOf, ObjectOf, PolicyWords, IndirectAttrs, SetRaw,
      vc_attributes, next_vc_attr, vc_tunnels
  <2>3. out.command = c /\ out.area = "none" /\ c # "ZERO"
    <3>1. out = Bare(c, "none")
      BY <2>2, Zenon
    <3>2. c # "ZERO"
      BY <2>2, SMT
    <3> QED
      BY <3>1, <3>2, BareFields, Zenon
  <2>4. out = Bare(out.command, out.area) /\ out.command # "ZERO"
    BY <2>2, <2>3, Zenon
  <2>5. token.call = "parse_tunnel"
    BY <1>19, CommandCalls, SMT
  <2>6. /\ Accept(t, token) /\ object' = "tunnel_ops" /\ objdata' = "none"
        /\ out' = Bare(c, "none")
    BY <1>19, <2>2, <2>3, <2>4, <2>5, LaterWord, ZenonT(60)
  <2>7. c \in CommandsOf(t) /\ AreaOf(t) = "none" /\ ObjectOf(t) = "tunnel_ops"
    BY <1>19, <2>2, SMT DEF CommandsOf, AreaOf, ObjectOf, PolicyWords, IndirectAttrs,
      SetRaw, vc_attributes, next_vc_attr, vc_tunnels
  <2>8. t \in CommandWords
    BY <1>19, SMT DEF CommandWords, PolicyWords, IndirectAttrs, SetRaw
  <2> QED
    BY <2>6, <2>7, <2>8, Zenon
<1>20. CASE b = "TUNNEL_DESTROY" /\ t = "TUNNEL_DESTROY_ID"
  <2>2. c = "TUNNEL_DESTROY" /\ AreaOf(b) = "none"
    BY <1>20, SMT DEF CommandsOf, AreaOf, ObjectOf, PolicyWords, IndirectAttrs, SetRaw,
      vc_attributes, next_vc_attr, vc_tunnels
  <2>3. out.command = c /\ out.area = "none" /\ c # "ZERO"
    <3>1. out = Bare(c, "none")
      BY <2>2, Zenon
    <3>2. c # "ZERO"
      BY <2>2, SMT
    <3> QED
      BY <3>1, <3>2, BareFields, Zenon
  <2>4. out = Bare(out.command, out.area) /\ out.command # "ZERO"
    BY <2>2, <2>3, Zenon
  <2>5. token.call = "parse_tunnel"
    BY <1>20, CommandCalls, SMT
  <2>6. /\ Accept(t, token) /\ object' = "tunnel_ops" /\ objdata' = "none"
        /\ out' = Bare(c, "none")
    BY <1>20, <2>2, <2>3, <2>4, <2>5, LaterWord, ZenonT(60)
  <2>7. c \in CommandsOf(t) /\ AreaOf(t) = "none" /\ ObjectOf(t) = "tunnel_ops"
    BY <1>20, <2>2, SMT DEF CommandsOf, AreaOf, ObjectOf, PolicyWords, IndirectAttrs,
      SetRaw, vc_attributes, next_vc_attr, vc_tunnels
  <2>8. t \in CommandWords
    BY <1>20, SMT DEF CommandWords, PolicyWords, IndirectAttrs, SetRaw
  <2> QED
    BY <2>6, <2>7, <2>8, Zenon
<1>21. CASE b = "ADD" /\ t = "ITEM_POL_PORT"
  <2>2. c = "ZERO" /\ AreaOf(b) = "none" /\ ObjectOf(b) = "buffer"
    BY <1>21, SMT DEF CommandsOf, AreaOf, ObjectOf, PolicyWords, IndirectAttrs, SetRaw,
      vc_attributes, next_vc_attr, vc_tunnels
  <2>5. token.call = "parse_default"
    BY <1>21, CommandCalls, SMT
  <2>6. /\ Accept(t, token) /\ object' = "buffer" /\ objdata' = "none"
        /\ out' = Bare(c, "none")
    BY <2>2, <2>5, Defaults, Zenon
  <2>7. c \in CommandsOf(t) /\ AreaOf(t) = "none" /\ ObjectOf(t) = "buffer"
    BY <1>21, <2>2, SMT DEF CommandsOf, AreaOf, ObjectOf, PolicyWords, IndirectAttrs,
      SetRaw, vc_attributes, next_vc_attr, vc_tunnels
  <2>8. t \in CommandWords
    BY <1>21, SMT DEF CommandWords, PolicyWords, IndirectAttrs, SetRaw
  <2> QED
    BY <2>6, <2>7, <2>8, Zenon
<1>22. CASE b = "ITEM_POL_PORT" /\ t = "ITEM_POL_METER"
  <2>2. c = "ZERO" /\ AreaOf(b) = "none" /\ ObjectOf(b) = "buffer"
    BY <1>22, SMT DEF CommandsOf, AreaOf, ObjectOf, PolicyWords, IndirectAttrs, SetRaw,
      vc_attributes, next_vc_attr, vc_tunnels
  <2>5. token.call = "parse_default"
    BY <1>22, CommandCalls, SMT
  <2>6. /\ Accept(t, token) /\ object' = "buffer" /\ objdata' = "none"
        /\ out' = Bare(c, "none")
    BY <2>2, <2>5, Defaults, Zenon
  <2>7. c \in CommandsOf(t) /\ AreaOf(t) = "none" /\ ObjectOf(t) = "buffer"
    BY <1>22, <2>2, SMT DEF CommandsOf, AreaOf, ObjectOf, PolicyWords, IndirectAttrs,
      SetRaw, vc_attributes, next_vc_attr, vc_tunnels
  <2>8. t \in CommandWords
    BY <1>22, SMT DEF CommandWords, PolicyWords, IndirectAttrs, SetRaw
  <2> QED
    BY <2>6, <2>7, <2>8, Zenon
<1> HIDE DEF token
<1> QED
  BY <1>1, <1>2, <1>3, <1>4, <1>5, <1>6, <1>7, <1>8, <1>9, <1>10, <1>11, <1>12, <1>13,
    <1>14, <1>15, <1>16, <1>17, <1>18, <1>19, <1>20, <1>21, <1>22, SMT DEF Precedes,
    IndirectAttrs, vc_attributes, next_vc_attr, next_ia_subcmd, next_dump_subcmd,
    next_flex_item

-----------------------------------------------------------------------------
(* What the context is after a word of a command.                          *)

(* A buffer without entries.                                               *)
LEMMA BareEnds == \A c, a : Bare(c, a).item_ends = 0 /\ Bare(c, a).action_ends = 0
  BY Zenon DEF Bare

(* The parts of a situation at a word of a command.                        *)
LEMMA CommandParts ==
  ASSUME NEW b, NEW m, AtCommand(b, m)
  PROVE  /\ next = Stack(0, b, m) /\ object = ObjectOf(b) /\ objdata = "none"
         /\ \E c \in CommandsOf(b) : out = Bare(c, AreaOf(b))
         /\ m \in 1 .. Len(token_list[b].next)
         /\ Len(token_list[b].next) - m < Len(token_list[b].args) =>
              Pending(b, Len(token_list[b].args) - (Len(token_list[b].next) - m))
         /\ b = "ITEM_POL_POLICY" => m >= 3
         /\ out.item_ends = 0 /\ out.action_ends = 0
<1>1. /\ next = Stack(0, b, m) /\ object = ObjectOf(b) /\ objdata = "none"
      /\ \E c \in CommandsOf(b) : out = Bare(c, AreaOf(b))
      /\ m \in 1 .. Len(token_list[b].next)
      /\ Len(token_list[b].next) - m < Len(token_list[b].args) =>
           Pending(b, Len(token_list[b].args) - (Len(token_list[b].next) - m))
      /\ b = "ITEM_POL_POLICY" => m >= 3
  BY Zenon DEF AtCommand
<1>2. out.item_ends = 0 /\ out.action_ends = 0
  BY <1>1, BareEnds, Zenon
<1> QED
  BY <1>1, <1>2, Zenon

(* From a word of a command to the next.                                   *)
LEMMA CommandWordStep ==
  ASSUME Typed, NEW b \in CommandWords, AtCommand(b, 1), NEW t \in Tokens, Precedes(b, t),
         Parse(t, token_list[t])
  PROVE  /\ out'.item_ends = 0 /\ out'.action_ends = 0
         /\ t \in CommandWords /\ Len(token_list[t].next) \in 1..5
         /\ phase' = "reading" => AtCommand(t, Len(token_list[t].next))'
<1> DEFINE L == Len(token_list[t].next)
           r == Len(token_list[t].args)
<1>1. /\ next = Stack(0, b, 1) /\ object = ObjectOf(b) /\ objdata = "none"
      /\ \E c \in CommandsOf(b) : out = Bare(c, AreaOf(b))
  BY CommandParts, Zenon
<1>2. /\ t \in CommandWords /\ Accept(t, token_list[t])
      /\ object' = ObjectOf(t) /\ objdata' = "none"
      /\ \E d \in CommandsOf(t) : out' = Bare(d, AreaOf(t))
  <2>1. PICK c \in CommandsOf(b) : out = Bare(c, AreaOf(b))
    BY <1>1, Zenon
  <2> QED
    BY <1>1, <2>1, WordEffect, Zenon
<1>3. L \in 1..5
  BY <1>2, CommandOffers, Zenon
<1>4. out'.item_ends = 0 /\ out'.action_ends = 0
  BY <1>2, BareEnds, Zenon
<1>5. t = "ITEM_POL_POLICY" => L >= 3
  <2>1. t = "ITEM_POL_POLICY" => L = 5
    BY CommandRows, SMT DEF Token
  <2>2. 5 >= 3
    BY SMT
  <2> QED
    BY <2>1, <2>2, Zenon
<1>6. ASSUME phase' = "reading"
      PROVE  AtCommand(t, L)'
  <2>1. next' = Stack(0, t, L) /\ Pending(t, r)'
    <3>1. 0 \in Nat
      BY SMT
    <3> QED
      BY <1>1, <1>2, <1>6, <3>1, Forward, Zenon
  <2>2. L - L = 0 /\ r - 0 = r /\ L \in 1..L
    <3>1. WellFormed(token_list[t])
      BY WellFormedTable, Zenon
    <3>2. r \in Nat
      BY <3>1, SMT DEF WellFormed
    <3> HIDE DEF L, r
    <3> QED
      BY <1>3, <3>2, SMT
  <2>3. Pending(t, r - (L - L))'
    BY <2>1, <2>2, Zenon
  <2> QED
    BY <1>2, <1>5, <2>1, <2>2, <2>3, Zenon DEF AtCommand
<1> QED
  BY <1>2, <1>3, <1>4, <1>6, Zenon

(* The words that may end a line belong to a command that is dispatched.   *)
LEMMA Ended ==
  ASSUME NEW b \in EndWords, NEW c \in CommandsOf(b), NEW a, out = Bare(c, a)
  PROVE  Dispatched
<1>1. out.command = c /\ out.item_ends = 0 /\ out.action_ends = 0
  BY BareFields, BareEnds, Zenon
<1>2. c \in {"INDIRECT_ACTION_DESTROY", "INDIRECT_ACTION_QUERY", "DESTROY", "FLUSH", "DUMP_ONE",
             "DUMP_ALL", "QUERY", "LIST", "ISOLATE", "AGED", "TUNNEL_CREATE", "TUNNEL_DESTROY",
             "TUNNEL_LIST", "FLEX_ITEM_CREATE", "FLEX_ITEM_DESTROY"} \/ c = "FLEX_ITEM_INIT"
  BY SMT DEF CommandsOf, EndWords, PolicyWords, IndirectAttrs, SetRaw, vc_attributes, next_vc_attr
<1>3. CASE c = "FLEX_ITEM_INIT"
  <2>1. "FLEX_ITEM_INIT" \notin DOMAIN cmd_flow_parsed
    BY SMT DEF cmd_flow_parsed, cmd_set_raw_parsed
  <2> QED
    BY <1>1, <1>3, <2>1, SMT DEF Dispatched
<1>4. CASE c # "FLEX_ITEM_INIT"
  <2>1. c \in DOMAIN cmd_flow_parsed /\ cmd_flow_parsed[c] = <<0, 0>>
    BY <1>2, <1>4, CasesOfDispatch, SMT
  <2>2. cmd_flow_parsed[c][1] = 0 /\ cmd_flow_parsed[c][2] = 0
    BY <2>1, SMT
  <2>3. 0 >= 0
    BY SMT
  <2> QED
    BY <1>1, <2>1, <2>2, <2>3, SMT DEF Dispatched
<1> QED
  BY <1>3, <1>4

(* The value of a word takes one argument.                                 *)
LEMMA OneRead ==
  ASSUME NEW t \in OneValues \cup {"QUERY_ACTION"}, Parse(t, token_list[t])
  PROVE  Store(t, token_list[t], 1) /\ token_list[t].next = <<>> /\ token_list[t].args = <<>>
<1> DEFINE token == token_list[t]
<1>1. CASE t \in OneValues
  <2>1. ValueOf(token, OneCalls)
    BY <1>1, ValueTokens, Zenon DEF OneValues
  <2>2. token.call \in OneCalls /\ token.next = <<>> /\ token.args = <<>>
    BY <2>1, Zenon DEF ValueOf
  <2>3. \/ parse_prefix(t, token) \/ parse_int(t, token) \/ parse_boolean(t, token)
        \/ parse_string0(t, token) \/ parse_mac_addr(t, token) \/ parse_ipv4_addr(t, token)
        \/ parse_ipv6_addr(t, token) \/ parse_port(t, token) \/ parse_flex_handle(t, token)
    BY <2>2, CallOf, Zenon DEF OneCalls
  <2>4. Store(t, token, 1)
    BY <2>3, Zenon DEF parse_prefix, parse_int, parse_boolean, parse_string0, parse_mac_addr,
      parse_ipv4_addr, parse_ipv6_addr, parse_port, parse_flex_handle
  <2> QED
    BY <2>2, <2>4, Zenon
<1>2. CASE t = "QUERY_ACTION"
  <2>1. token = Call("parse_action", <<>>)
    BY <1>2, LandmarkRows, Zenon
  <2>2. token.call = "parse_action" /\ token.next = <<>> /\ token.args = <<>>
    BY <2>1, SMT DEF Call, Token
  <2>3. parse_action(t, token)
    BY <2>2, CallOf, Zenon
  <2> QED
    BY <2>2, <2>3, Zenon DEF parse_action
<1> QED
  BY <1>1, <1>2, Zenon

(* What is pending after one argument was taken.                           *)
LEMMA PendingLess ==
  ASSUME Typed, NEW b, NEW r \in Nat, r > 0, Pending(b, r),
         args' = SubSeq(args, 1, Len(args) - 1)
  PROVE  Pending(b, r - 1)'
<1>1. /\ args \in Seq(OnStack) /\ Len(args) \in Nat /\ Len(args) >= r
      /\ \A i \in 1 .. r : args[Len(args) - r + i] = [by |-> b, n |-> i]
  BY SMT DEF Typed, Pending
<1>2. /\ Len(args') = Len(args) - 1
      /\ \A i \in 1 .. Len(args) - 1 : args'[i] = args[i]
  <2>1. args' = SubSeq(args, 1, Len(args) - 1) /\ r > 0
    OBVIOUS
  <2> DEFINE s == args
  <2> HIDE DEF s
  <2>2. s \in Seq(OnStack) /\ Len(s) >= 1
    BY <1>1, <2>1, SMT DEF s
  <2>3. /\ Len(SubSeq(s, 1, Len(s) - 1)) = Len(s) - 1
        /\ \A i \in 1 .. Len(s) - 1 : SubSeq(s, 1, Len(s) - 1)[i] = s[i]
    <3> DEFINE n == Len(s) - 1
    <3>1. 1 \in 1 .. Len(s) + 1 /\ n \in 1 - 1 .. Len(s) /\ n - 1 + 1 = n
      BY <2>2, SMT
    <3> HIDE DEF n
    <3>2. /\ Len(SubSeq(s, 1, n)) = n - 1 + 1
          /\ \A i \in 1 .. n - 1 + 1 : SubSeq(s, 1, n)[i] = s[1 + i - 1]
      BY <2>2, <3>1, SubSeqProperties, SMT
    <3>3. \A i \in 1 .. n - 1 + 1 : 1 + i - 1 = i
      BY <2>2, <3>1, SMT DEF n
    <3>4. Len(SubSeq(s, 1, n)) = n /\ \A i \in 1 .. n : SubSeq(s, 1, n)[i] = s[i]
      BY <3>1, <3>2, <3>3, SMT
    <3> QED
      BY <3>4, Zenon DEF n
  <2> QED
    BY <2>1, <2>3, Zenon DEF s
<1>3. Len(args') >= r - 1
  BY <1>1, <1>2, SMT
<1>4. ASSUME NEW i \in 1 .. r - 1
      PROVE  args'[Len(args') - (r - 1) + i] = [by |-> b, n |-> i]
  <2>1. /\ Len(args') - (r - 1) + i = Len(args) - r + i /\ i \in 1 .. r
        /\ Len(args) - r + i \in 1 .. Len(args) - 1
    BY <1>1, <1>2, SMT
  <2> QED
    BY <1>1, <1>2, <2>1, Zenon
<1> QED
  BY <1>3, <1>4, Zenon DEF Pending

-----------------------------------------------------------------------------
(* Values of commands, and where commands give way to items and actions.   *)

(* The token whose list is the top one is a token of the table.            *)
LEMMA StackOwner ==
  ASSUME Typed, NEW q \in Nat, NEW m \in Nat, m > 0, NEW b, next = Stack(q, b, m)
  PROVE  b \in Tokens
<1>1. next # <<>> /\ Last(next) = [by |-> b, n |-> m]
  BY StackFacts, ZenonT(60)
<1>2. Last(next) \in OnStack
  BY <1>1, SMT DEF Typed, Last
<1> QED
  BY <1>1, <1>2, SMT DEF OnStack, Tokens

(* From before a value of a word.                                          *)
LEMMA CommandValueStep ==
  ASSUME Typed, NEW b \in CommandWords, NEW m \in 1..5, AtCommand(b, m), NEW t \in Tokens,
         t \in OneValues \cup {"QUERY_ACTION"}, Parse(t, token_list[t]),
         Len(token_list[b].next) - m < Len(token_list[b].args),
         m = 1 => b \in EndWords, b = "ITEM_POL_POLICY" => m > 3
  PROVE  /\ out'.item_ends = 0 /\ out'.action_ends = 0
         /\ phase' = "reading" => AtEnd' \/ (m > 1 /\ AtCommand(b, m - 1)')
<1> DEFINE L == Len(token_list[b].next)
           A == Len(token_list[b].args)
           left == SubSeq(args, 1, Len(args) - 1)
<1>1. /\ next = Stack(0, b, m) /\ object = ObjectOf(b) /\ objdata = "none"
      /\ \E c \in CommandsOf(b) : out = Bare(c, AreaOf(b))
      /\ m \in 1 .. L
      /\ L - m < A => Pending(b, A - (L - m))
      /\ out.item_ends = 0 /\ out.action_ends = 0
  BY CommandParts, Zenon
<1>2. Pending(b, A - (L - m))
  BY <1>1, Zenon
<1>3. Store(t, token_list[t], 1) /\ token_list[t].next = <<>> /\ token_list[t].args = <<>>
  BY OneRead, Zenon
<1>4. /\ Len(args) >= 1 /\ Push(t, token_list[t], next, left)
      /\ object' = object /\ objdata' = objdata /\ out' = out
  BY <1>3, Zenon DEF Store
<1>5. left \in Seq(OnStack)
  BY <1>4, SMT DEF Typed
<1>6. L \in 1..5 /\ A \in Nat /\ m \in Nat /\ m > 0
  <2>4. m \in Nat /\ m > 0 /\ 0 \in Nat
    BY SMT
  <2>1. WellFormed(token_list[b])
    BY <1>1, <2>4, StackOwner, WellFormedTable, Zenon
  <2>2. A \in Nat
    BY <2>1, SMT DEF WellFormed
  <2>3. L \in 1..5
    BY CommandOffers, Zenon
  <2> QED
    BY <2>2, <2>3, <2>4, Zenon
<1>7. ASSUME phase' = "reading"
      PROVE  next' = Stack(0, b, m - 1) /\ args' = left
  <2>1. 0 \in Nat
    BY SMT
  <2> HIDE DEF left
  <2> QED
    BY <1>1, <1>3, <1>4, <1>5, <1>6, <1>7, <2>1, Pushed, ZenonT(60)
<1>8. CASE phase' = "reading" /\ m = 1
  <2>1. Stack(0, b, 0) = <<>> /\ 1 - 1 = 0
    BY StackFacts, SMT
  <2>2. next' = <<>>
    BY <1>7, <1>8, <2>1, Zenon
  <2>3. Dispatched
    <3>1. PICK c \in CommandsOf(b) : out = Bare(c, AreaOf(b))
      BY <1>1, Zenon
    <3>2. b \in EndWords
      BY <1>8, Zenon
    <3> QED
      BY <3>1, <3>2, Ended, Zenon
  <2>4. Dispatched'
    BY <1>4, <2>3, SMT DEF Dispatched
  <2> QED
    BY <1>1, <1>4, <2>2, <2>4, Zenon DEF AtEnd
<1>9. CASE phase' = "reading" /\ m # 1
  <2> DEFINE r == A - (L - m)
  <2>1. /\ r \in Nat /\ r > 0 /\ m > 1 /\ m - 1 \in 1 .. L
        /\ r - 1 = A - (L - (m - 1))
        /\ b = "ITEM_POL_POLICY" => m - 1 >= 3
    <3>1. L - m < A /\ (b = "ITEM_POL_POLICY" => m > 3) /\ m \in 1 .. L /\ m # 1
      BY <1>1, <1>9
    <3> HIDE DEF L, A
    <3> QED
      BY <1>6, <3>1, SMT
  <2>2. Pending(b, r - 1)'
    <3> HIDE DEF r
    <3> QED
      BY <1>2, <1>7, <1>9, <2>1, PendingLess, Zenon DEF r
  <2>3. Pending(b, A - (L - (m - 1)))'
    BY <2>1, <2>2, Zenon
  <2>4. AtCommand(b, m - 1)'
    BY <1>1, <1>4, <1>7, <1>9, <2>1, <2>3, Zenon DEF AtCommand
  <2> QED
    BY <1>1, <1>4, <2>1, <2>4, Zenon
<1> QED
  BY <1>1, <1>4, <1>8, <1>9, Zenon

(* Where items begin: in a rule, or in set raw_encap and raw_decap.        *)
LEMMA ToItems ==
  ASSUME NEW c \in PatternCommands, out' = Bare(c, "pattern"), NEW t,
         PatternList(token_list[t].next[1]), next' = Stack(0, t, 1)
  PROVE  AtItems(t)'
<1>1. /\ out'.command = c /\ out'.area = "pattern"
      /\ out'.item_ends = 0 /\ out'.action_ends = 0
  BY BareFields, BareEnds, Zenon
<1> QED
  BY <1>1, Zenon DEF AtItems, InPattern

(* Where actions begin: of an indirect action or of set sample_actions.    *)
LEMMA ToActions ==
  ASSUME NEW c \in {"INDIRECT_ACTION_CREATE", "INDIRECT_ACTION_UPDATE", "SET_SAMPLE_ACTIONS"},
         out' = Bare(c, "actions"), NEW t,
         ActionsList(token_list[t].next[1]), next' = Stack(0, t, 1)
  PROVE  AtActions(0, t)'
<1>1. /\ out'.command = c /\ out'.area = "actions"
      /\ out'.item_ends = 0 /\ out'.action_ends = 0
  BY BareFields, BareEnds, Zenon
<1> QED
  BY <1>1, Zenon DEF AtActions, InActions

(* From the words of a command to items and actions, or to the end.        *)
LEMMA LeavesStep ==
  ASSUME Typed, Grammatical, NEW b \in CommandWords, AtCommand(b, 1), NEW t, Reads(t),
         Leaves(b, t)
  PROVE  /\ out'.item_ends = 0 /\ out'.action_ends = 0
         /\ phase' = "reading" =>
              AtItems(t)' \/ AtFields(t, out.data)' \/ AtActions(0, t)' \/ AtEnd'
<1> DEFINE token == token_list[t]
<1>1. /\ t \in Tokens /\ Parse(t, token) /\ args \in Seq(OnStack) /\ out \in Buffer
  BY ReadsTyped, Zenon DEF Reads
<1>2. PICK c \in CommandsOf(b) : out = Bare(c, AreaOf(b))
  BY CommandParts, Zenon
<1>3. /\ next = Stack(0, b, 1) /\ out.command = c /\ out.area = AreaOf(b)
      /\ out.item_ends = 0 /\ out.action_ends = 0
  BY <1>2, CommandParts, BareFields, Zenon
<1>4. out = Bare(out.command, out.area)
  BY <1>2, <1>3, Zenon
<1>5. ASSUME Accept(t, token), phase' = "reading"
      PROVE  next' = Stack(0, t, Len(token.next)) /\ (token.next = <<>> => next' = <<>>)
  <2>1. 0 \in Nat /\ 0 + 0 = 0
    BY SMT
  <2>2. Stack(0, b, 0) = <<>>
    BY <2>1, StackFacts, ZenonT(60)
  <2> QED
    BY <1>1, <1>3, <1>5, <2>1, <2>2, Forward, Zenon
<1>6. CASE t = "INDIRECT_ACTION_SPEC" /\ b \in {"INDIRECT_ACTION_CREATE", "INDIRECT_ACTION_UPDATE"} \cup IndirectAttrs
  <2>1. token = Word(<<next_action>>)
    BY <1>6, LandmarkRows, Zenon
  <2>2. token.call = "parse_default" /\ Len(token.next) = 1 /\ token.next[1] = next_action
    BY <2>1, SMT DEF Word, Token
  <2>3. ActionsList(token.next[1])
    BY <2>2, Zenon DEF ActionsList
  <2>4. c \in {"INDIRECT_ACTION_CREATE", "INDIRECT_ACTION_UPDATE", "SET_SAMPLE_ACTIONS"}
        /\ AreaOf(b) = "actions"
    BY <1>6, SMT DEF CommandsOf, AreaOf, PolicyWords, IndirectAttrs, SetRaw, vc_attributes,
      next_vc_attr
  <2> HIDE DEF token
  <2>5. Accept(t, token) /\ out' = out
    BY <1>1, <2>2, Defaults, Zenon
  <2>6. out' = Bare(c, "actions")
    BY <1>2, <2>4, <2>5, Zenon
  <2>7. phase' = "reading" => AtActions(0, t)'
    BY <1>5, <2>2, <2>3, <2>4, <2>5, <2>6, ToActions, Zenon DEF token
  <2> QED
    BY <1>3, <2>5, <2>7, Zenon
<1>7. CASE t = "ITEM_PATTERN" /\ b \in {"VALIDATE", "CREATE"} \cup vc_attributes
  <2>1. token = Call("parse_vc", <<next_item>>)
    BY <1>7, LandmarkRows, Zenon
  <2>2. token.call = "parse_vc" /\ Len(token.next) = 1 /\ token.next[1] = next_item
    BY <2>1, SMT DEF Call, Token
  <2>3. PatternList(token.next[1])
    BY <2>2, Zenon DEF PatternList
  <2>4. c \in {"VALIDATE", "CREATE"} /\ c \in PatternCommands /\ c # "ZERO"
    BY <1>7, SMT DEF CommandsOf, PatternCommands, PolicyWords, IndirectAttrs, SetRaw,
      vc_attributes, next_vc_attr
  <2> HIDE DEF token
  <2>5. Accept(t, token) /\ out' = Bare(c, "pattern")
    <3>1. out.command # "ZERO"
      BY <1>3, <2>4, Zenon
    <3> QED
      BY <1>1, <1>3, <1>4, <1>7, <2>2, <3>1, LaterWord, ZenonT(60)
  <2>6. phase' = "reading" => AtItems(t)'
    BY <1>5, <2>2, <2>3, <2>4, <2>5, ToItems, Zenon DEF token
  <2> QED
    BY <2>5, <2>6, BareEnds, Zenon
<1>8. ASSUME token = Call("parse_port", <<token.next[1]>>)
      PROVE  /\ out' = out
             /\ phase' = "reading" => next' = Stack(0, t, 1)
  <2>1. token.call = "parse_port" /\ Len(token.next) = 1
    <3> DEFINE list == token.next[1]
    <3> HIDE DEF list
    <3>1. token = Call("parse_port", <<list>>)
      BY <1>8, Zenon DEF list
    <3> QED
      BY <3>1, SMT DEF Call, Token
  <2> HIDE DEF token
  <2> DEFINE left == SubSeq(args, 1, Len(args) - 1)
  <2>2. Len(args) >= 1 /\ Push(t, token, next, left) /\ out' = out
    BY <1>1, <2>1, CallOf, Zenon DEF parse_port, Store
  <2>3. left \in Seq(OnStack)
    BY <1>1, <2>2, SMT
  <2>4. 0 \in Nat /\ 1 \in Nat /\ 1 > 0
    BY SMT
  <2> HIDE DEF left
  <2> QED
    BY <1>1, <1>3, <2>1, <2>2, <2>3, <2>4, Pushed, ZenonT(60) DEF token
<1>9. CASE t = "SET_RAW_INDEX" /\ b \in SetRaw
  <2>1. token = Call("parse_port", <<next_item>>)
    BY <1>9, LandmarkRows, Zenon
  <2>2. token.next[1] = next_item
    BY <2>1, SMT DEF Call, Token
  <2>3. PatternList(token.next[1]) /\ token = Call("parse_port", <<token.next[1]>>)
    BY <2>1, <2>2, Zenon DEF PatternList
  <2>4. c \in PatternCommands /\ AreaOf(b) = "pattern"
    BY <1>9, SMT DEF CommandsOf, AreaOf, PatternCommands, PolicyWords, IndirectAttrs, SetRaw,
      vc_attributes, next_vc_attr
  <2> HIDE DEF token
  <2>5. out' = Bare(c, "pattern")
    BY <1>2, <1>8, <2>3, <2>4, Zenon
  <2>6. phase' = "reading" => AtItems(t)'
    BY <1>8, <2>3, <2>4, <2>5, ToItems, Zenon DEF token
  <2> QED
    BY <2>5, <2>6, BareEnds, Zenon
<1>10. CASE t = "SET_SAMPLE_INDEX" /\ b = "SET_SAMPLE_ACTIONS"
  <2>1. token = Call("parse_port", <<next_action_sample>>)
    BY <1>10, LandmarkRows, Zenon
  <2>2. token.next[1] = next_action_sample
    BY <2>1, SMT DEF Call, Token
  <2>3. token = Call("parse_port", <<token.next[1]>>)
    BY <2>1, <2>2, Zenon
  <2>4. ActionsList(token.next[1])
    <3>1. next_action_sample \subseteq next_action \cup {"ACTION_NEXT"}
      BY SMT DEF next_action_sample, next_action
    <3> QED
      BY <2>2, <3>1, Zenon DEF ActionsList
  <2>5. c = "SET_SAMPLE_ACTIONS" /\ AreaOf(b) = "actions"
    BY <1>10, SMT DEF CommandsOf, AreaOf, PolicyWords, IndirectAttrs, SetRaw, vc_attributes,
      next_vc_attr
  <2> HIDE DEF token
  <2>6. out' = Bare(c, "actions")
    BY <1>2, <1>8, <2>3, <2>5, Zenon
  <2>7. c \in {"INDIRECT_ACTION_CREATE", "INDIRECT_ACTION_UPDATE", "SET_SAMPLE_ACTIONS"}
    BY <2>5, SMT
  <2>8. phase' = "reading" => AtActions(0, t)'
    BY <1>8, <2>3, <2>4, <2>6, <2>7, ToActions, Zenon DEF token
  <2> QED
    BY <2>6, <2>8, BareEnds, Zenon
<1>11. CASE t = "AGED_DESTROY" /\ b = "AGED"
  <2>1. token = Call("parse_aged", <<>>)
    BY <1>11, LandmarkRows, Zenon
  <2>2. token.call = "parse_aged" /\ token.next = <<>>
    BY <2>1, SMT DEF Call, Token
  <2>3. t # "AGED" /\ b \in EndWords
    BY <1>11, SMT DEF EndWords
  <2> HIDE DEF token
  <2>4. Accept(t, token) /\ out' = out
    <3>1. parse_aged(t, token)
      BY <1>1, <2>2, CallOf, Zenon
    <3> QED
      BY <2>3, <3>1, Zenon DEF parse_aged, CommandOnly, FirstIs
  <2>5. Dispatched
    BY <1>2, <2>3, Ended, Zenon
  <2>6. Dispatched'
    BY <2>4, <2>5, SMT DEF Dispatched
  <2>7. phase' = "reading" => AtEnd'
    BY <1>5, <2>2, <2>4, <2>6, Zenon DEF AtEnd
  <2> QED
    BY <1>3, <2>4, <2>7, Zenon
<1>12. CASE t = "ITEM_ETH" /\ b \in SetRaw
  <2>1. ItemHead(token) /\ t \in next_item /\ t # "ITEM_END"
    <3>1. ItemHead(token)
      BY <1>12, ItemHeads, SMT
    <3>2. t \in next_item /\ t # "ITEM_END"
      BY <1>12, SMT DEF next_item
    <3> QED
      BY <3>1, <3>2, Zenon
  <2>2. token.call = "parse_vc" /\ Len(token.next) = 1
    BY <2>1, Zenon DEF ItemHead
  <2>3. c \in PatternCommands /\ AreaOf(b) = "pattern"
    BY <1>12, SMT DEF CommandsOf, AreaOf, PatternCommands, PolicyWords, IndirectAttrs, SetRaw,
      vc_attributes, next_vc_attr
  <2> HIDE DEF token
  <2>4. Accept(t, token) /\ Append_entry(t, token)
    BY <1>1, <2>1, <2>2, Appends, CallOf, Zenon
  <2>5. /\ out'.command = c /\ out'.area = "pattern" /\ out'.items
        /\ out'.item_ends = 0 /\ out'.action_ends = 0
        /\ token.priv # "void" => out'.data = token.priv /\ objdata' = token.priv
    BY <1>1, <1>3, <2>1, <2>3, <2>4, AppendItem, Zenon
  <2>6. phase' = "reading" => next' = Stack(0, t, 1)
    BY <1>5, <2>2, <2>4, Zenon
  <2>7. CASE PatternList(token.next[1])
    BY <2>3, <2>5, <2>6, <2>7, Zenon DEF AtItems, InPattern, token
  <2>8. CASE token.priv # "void" /\ ItemList(token.next[1], token.priv)
    BY <2>3, <2>5, <2>6, <2>8, Zenon DEF AtFields, ItemData, InPattern, token
  <2> QED
    BY <2>1, <2>7, <2>8, SMT DEF ItemHead
<1> HIDE DEF token
<1> QED
  BY <1>6, <1>7, <1>9, <1>10, <1>11, <1>12, Zenon DEF Leaves, token

(* From the identifier of a policy to the actions of its first color.      *)
LEMMA PolicyStep ==
  ASSUME Typed, Grammatical, AtCommand("ITEM_POL_POLICY", 3), Reads("ACTION_POL_G")
  PROVE  /\ out'.item_ends = 0 /\ out'.action_ends = 0
         /\ phase' = "reading" => AtActions(2, "ACTION_POL_G")'
<1> DEFINE t == "ACTION_POL_G"
           token == token_list[t]
<1>1. /\ t \in Tokens /\ Parse(t, token) /\ args \in Seq(OnStack)
  BY ReadsTyped, Zenon DEF Reads
<1>2. PICK c \in CommandsOf("ITEM_POL_POLICY") : out = Bare(c, AreaOf("ITEM_POL_POLICY"))
  BY CommandParts, Zenon
<1>3. next = Stack(0, "ITEM_POL_POLICY", 3)
  BY CommandParts, Zenon
<1>4. c = "ITEM_POL_POLICY" /\ AreaOf("ITEM_POL_POLICY") = "none"
  BY SMT DEF CommandsOf, AreaOf, PolicyWords, IndirectAttrs, SetRaw, vc_attributes, next_vc_attr
<1>5. out = Bare(out.command, out.area) /\ out.command # "ZERO"
  <2>1. out.command = c /\ out.area = "none" /\ c # "ZERO"
    <3>1. c # "ZERO"
      BY <1>4
    <3> QED
      BY <1>2, <1>4, <3>1, BareFields, Zenon
  <2> QED
    BY <1>2, <1>4, <2>1, Zenon
<1>6. token = Call("parse_mp", <<next_action>>)
  BY LandmarkRows, Zenon
<1>7. token.call = "parse_mp" /\ Len(token.next) = 1 /\ token.next[1] = next_action
  BY <1>6, SMT DEF Call, Token
<1>8. ActionsList(token.next[1])
  BY <1>7, Zenon DEF ActionsList
<1> HIDE DEF token
<1>9. Accept(t, token) /\ out' = Bare(t, "actions")
  BY <1>1, <1>5, <1>7, LaterWord, ZenonT(60)
<1>10. /\ out'.command = t /\ out'.area = "actions"
       /\ out'.item_ends = 0 /\ out'.action_ends = 0
  BY <1>9, BareFields, BareEnds, Zenon
<1>13. Front(next) = Front(Stack(2, "ITEM_POL_POLICY", 1))
  <2>1. /\ 0 \in Nat /\ 1 \in Nat /\ 2 \in Nat /\ 3 \in Nat /\ 1 > 0 /\ 3 > 0
        /\ 1 - 1 = 0 /\ 3 - 1 = 2
    BY SMT
  <2>2. Front(next) = Stack(0, "ITEM_POL_POLICY", 2)
    <3>1. Front(Stack(0, "ITEM_POL_POLICY", 3)) = Stack(0, "ITEM_POL_POLICY", 3 - 1)
      BY <2>1, StackFacts, ZenonT(60)
    <3> QED
      BY <1>3, <2>1, <3>1, Zenon
  <2>3. Front(Stack(2, "ITEM_POL_POLICY", 1)) = Stack(2, "ITEM_POL_POLICY", 0)
    <3>1. Front(Stack(2, "ITEM_POL_POLICY", 1)) = Stack(2, "ITEM_POL_POLICY", 1 - 1)
      BY <2>1, StackFacts, ZenonT(60)
    <3> QED
      BY <2>1, <3>1, Zenon
  <2>4. Stack(2, "ITEM_POL_POLICY", 0) = Stack(0, "ITEM_POL_POLICY", 2)
    BY SMT DEF Stack
  <2> QED
    BY <2>2, <2>3, <2>4, Zenon
<1>11. ASSUME phase' = "reading"
       PROVE  next' = Stack(2, t, 1)
  <2>1. Push(t, token, Stack(2, "ITEM_POL_POLICY", 1), args)
    BY <1>9, <1>13, Zenon DEF Accept, Push
  <2>2. 2 \in Nat /\ 1 \in Nat /\ 1 > 0
    BY SMT
  <2> HIDE DEF t
  <2>3. next' = Stack(2, t, Len(token.next))
    BY <1>1, <1>11, <2>1, <2>2, Pushed, ZenonT(60) DEF token
  <2> QED
    BY <1>7, <2>3, Zenon
<1>12. 2 \in 0..2 /\ 0 = 2 - 2
  BY SMT
<1> QED
  BY <1>8, <1>10, <1>11, <1>12, Zenon DEF AtActions, InActions, token

(* From a word of a command, or a value of one.                            *)
LEMMA CommandStep ==
  ASSUME Typed, Grammatical, NEW b \in CommandWords, NEW m \in 1..5, AtCommand(b, m),
         NEW t, Reads(t)
  PROVE  /\ out'.item_ends = 0 /\ out'.action_ends = 0
         /\ phase' = "reading" =>
              \/ AtEnd' \/ AtItems(t)' \/ AtFields(t, out.data)'
              \/ AtActions(0, t)' \/ AtActions(2, t)'
              \/ \E d \in CommandWords, k \in 1..5 : AtCommand(d, k)'
<1>1. t \in Tokens /\ t # "END" /\ t \in Expected /\ phase = "reading" /\ Parse(t, token_list[t])
  BY ReadsTyped, Zenon DEF Reads
<1>2. /\ next = Stack(0, b, m) /\ m \in 1 .. Len(token_list[b].next)
      /\ b = "ITEM_POL_POLICY" => m >= 3
  BY CommandParts, Zenon
<1>3. m \in Nat /\ m > 0 /\ 0 \in Nat /\ 1 \in 1..5
  BY SMT
<1>4. t \in token_list[b].next[m]
  BY <1>1, <1>2, <1>3, StackOffers, Zenon
<1>5. OfferedBy(b, m, t)
  BY <1>2, <1>4, CommandOffers, Zenon
<1>6. CASE /\ t \in OneValues \cup {"QUERY_ACTION"}
           /\ Len(token_list[b].next) - m < Len(token_list[b].args)
           /\ m = 1 => b \in EndWords
           /\ b = "ITEM_POL_POLICY" => m > 3
  <2>1. /\ out'.item_ends = 0 /\ out'.action_ends = 0
        /\ phase' = "reading" => AtEnd' \/ (m > 1 /\ AtCommand(b, m - 1)')
    BY <1>1, <1>6, CommandValueStep, Zenon
  <2>2. m > 1 => m - 1 \in 1..5
    BY SMT
  <2> DEFINE k == m - 1
  <2>3. phase' = "reading" => AtEnd' \/ (k \in 1..5 /\ AtCommand(b, k)')
    BY <2>1, <2>2, Zenon
  <2> HIDE DEF k
  <2> QED
    BY <2>1, <2>3, Zenon
<1>7. CASE m = 1 /\ Precedes(b, t)
  <2>1. AtCommand(b, 1)
    BY <1>7, Zenon
  <2>2. /\ out'.item_ends = 0 /\ out'.action_ends = 0
        /\ t \in CommandWords /\ Len(token_list[t].next) \in 1..5
        /\ phase' = "reading" => AtCommand(t, Len(token_list[t].next))'
    BY <1>1, <1>7, <2>1, CommandWordStep, Zenon
  <2> DEFINE k == Len(token_list[t].next)
  <2>3. k \in 1..5 /\ (phase' = "reading" => AtCommand(t, k)')
    BY <2>2, Zenon
  <2> HIDE DEF k
  <2> QED
    BY <2>2, <2>3, Zenon
<1>8. CASE m = 1 /\ Leaves(b, t)
  <2>1. AtCommand(b, 1)
    BY <1>8, Zenon
  <2> QED
    BY <1>8, <2>1, LeavesStep, Zenon
<1>9. CASE b = "ITEM_POL_POLICY" /\ m = 3 /\ t = "ACTION_POL_G"
  <2>1. AtCommand("ITEM_POL_POLICY", 3) /\ Reads("ACTION_POL_G")
    BY <1>9, Zenon
  <2> QED
    BY <1>9, <2>1, PolicyStep, Zenon
<1> QED
  BY <1>1, <1>5, <1>6, <1>7, <1>8, <1>9, Zenon DEF OfferedBy
-----------------------------------------------------------------------------
(* The inductive invariant.                                                *)

(* A token leads from one situation to another, and never ends a list once *)
(* too often.                                                              *)
LEMMA SituationKept ==
  ASSUME Typed, Grammatical, "ITEM_CONNTRACK" \in Untyped, Situation, NEW t, Reads(t)
  PROVE  Ends' /\ (phase' = "reading" => Situation')
<1>1. t \in Tokens /\ t \in Expected /\ phase = "reading"
  BY ReadsTyped, Zenon
<1>2. 0 \in 0..1 /\ 0 \in 0..3 /\ 0 \in 0..2 /\ 2 \in 0..2
  BY SMT
<1>3. CASE AtEnd
  <2>1. Expected = {}
    BY <1>3, Zenon DEF AtEnd, Expected
  <2> QED
    BY <1>1, <2>1
<1>4. ASSUME NEW b \in CommandWords, NEW m \in 1..5, AtCommand(b, m)
      PROVE  Ends' /\ (phase' = "reading" => Situation')
  <2>1. /\ out'.item_ends = 0 /\ out'.action_ends = 0
        /\ phase' = "reading" =>
              \/ AtEnd' \/ AtItems(t)' \/ AtFields(t, out.data)'
              \/ AtActions(0, t)' \/ AtActions(2, t)'
              \/ \E d \in CommandWords, k \in 1..5 : AtCommand(d, k)'
    BY <1>4, CommandStep, Zenon
  <2> QED
    BY <1>1, <1>2, <2>1, Zenon DEF Ends, Situation
<1>5. ASSUME NEW b \in Tokens, AtItems(b)
      PROVE  Ends' /\ (phase' = "reading" => Situation')
  <2>1. /\ out'.item_ends \in 0..1 /\ out'.action_ends = 0
        /\ phase' = "reading" => \/ AtItems(t)' \/ AtFields(t, out.data)' \/ AtParam(t, out.data)'
                                 \/ AfterPattern' \/ AtEnd'
    BY <1>5, ItemsStep, Zenon
  <2> QED
    BY <1>1, <1>2, <2>1, Zenon DEF Ends, Situation
<1>6. ASSUME NEW b \in Tokens,
             \/ AtFields(b, out.data) \/ AtParam(b, out.data)
             \/ AtValue(b, out.data) \/ AtType(b, out.data)
      PROVE  Ends' /\ (phase' = "reading" => Situation')
  <2> DEFINE S == out.data
  <2> DEFINE Goal == /\ out' = out /\ out'.item_ends \in 0..1 /\ out'.action_ends = 0
                     /\ phase' = "reading" =>
                          \/ AtItems(t)' \/ AtFields(t, S)' \/ AtParam(t, S)' \/ AtType(t, S)'
                          \/ AtValue(b, S)' \/ AtFields(b, S)'
  <2>1. CASE AtFields(b, S)
    <3>1. Goal
      BY <2>1, FieldsStep, Zenon
    <3> QED
      BY <1>1, <1>2, <3>1, Zenon DEF Ends, Situation
  <2>2. CASE AtParam(b, S)
    <3>1. Goal
      BY <2>2, ParamStep, Zenon
    <3> QED
      BY <1>1, <1>2, <3>1, Zenon DEF Ends, Situation
  <2>3. CASE AtValue(b, S)
    <3>1. Goal
      BY <2>3, ValueStep, Zenon
    <3> QED
      BY <1>1, <1>2, <3>1, Zenon DEF Ends, Situation
  <2>4. CASE AtType(b, S)
    <3>1. Goal
      BY <2>4, TypeStep, Zenon
    <3> QED
      BY <1>1, <1>2, <3>1, Zenon DEF Ends, Situation
  <2> QED
    BY <1>6, <2>1, <2>2, <2>3, <2>4, Zenon
<1>7. CASE AfterPattern
  <2>1. /\ out'.item_ends \in 0..1 /\ out'.action_ends = 0
        /\ phase' = "reading" => t \in Tokens /\ AtActions(0, t)'
    BY <1>7, PatternEndStep, Zenon
  <2> QED
    BY <1>1, <1>2, <2>1, Zenon DEF Ends, Situation
<1>8. ASSUME NEW q \in 0..2, NEW b \in Tokens,
             AtActions(q, b) \/ AtConf(q, b, out.data) \/ AtSetting(q, b, out.data)
      PROVE  Ends' /\ (phase' = "reading" => Situation')
  <2>1. CASE AtActions(q, b)
    <3>1. /\ out'.item_ends \in 0..1 /\ out'.action_ends \in 0..3
          /\ phase' = "reading" => \/ AtActions(q, t)' \/ AtConf(q, t, out.data)'
                                   \/ AtIndirect(q)' \/ AtColor(q)' \/ AtEnd'
      BY <2>1, ActionsStep, Zenon
    <3> QED
      BY <1>1, <3>1, Zenon DEF Ends, Situation
  <2>2. CASE AtConf(q, b, out.data)
    <3>1. /\ out'.item_ends \in 0..1 /\ out'.action_ends \in 0..3
          /\ phase' = "reading" => \/ AtActions(q, t)' \/ AtConf(q, t, out.data)'
                                   \/ AtSetting(q, t, out.data)'
      BY <2>2, ConfStep, Zenon
    <3> QED
      BY <1>1, <3>1, Zenon DEF Ends, Situation
  <2>3. CASE AtSetting(q, b, out.data)
    <3> DEFINE S == out.data
    <3>1. /\ out' = out /\ out'.item_ends \in 0..1 /\ out'.action_ends \in 0..3
          /\ phase' = "reading" => AtConf(q, b, S)' \/ AtSetting(q, b, S)'
      <4> HIDE DEF S
      <4> QED
        BY <2>3, SettingStep, Zenon DEF S
    <3>2. S' = S
      BY <3>1, Zenon
    <3> QED
      BY <1>1, <3>1, <3>2, Zenon DEF Ends, Situation
  <2> QED
    BY <1>8, <2>1, <2>2, <2>3
<1>9. ASSUME NEW q \in 0..2, AtColor(q)
      PROVE  Ends' /\ (phase' = "reading" => Situation')
  <2>1. q \in 1..2
    BY <1>9, Zenon DEF AtColor
  <2>2. /\ out'.item_ends \in 0..1 /\ out'.action_ends \in 0..3
        /\ phase' = "reading" => AtActions(q - 1, t)'
    BY <1>9, <2>1, ColorStep, Zenon
  <2> DEFINE k == q - 1
  <2>3. k \in 0..2
    BY <2>1, SMT
  <2>4. phase' = "reading" => AtActions(k, t)'
    BY <2>2, Zenon
  <2> HIDE DEF k
  <2> QED
    BY <1>1, <2>2, <2>3, <2>4, Zenon DEF Ends, Situation
<1>10. ASSUME NEW q \in 0..2, AtIndirect(q)
       PROVE  Ends' /\ (phase' = "reading" => Situation')
  <2>1. /\ out'.item_ends \in 0..1 /\ out'.action_ends \in 0..3
        /\ phase' = "reading" => AtActions(q, t)'
    BY <1>10, IndirectStep, Zenon
  <2> QED
    BY <1>1, <2>1, Zenon DEF Ends, Situation
<1> QED
  BY <1>3, <1>4, <1>5, <1>6, <1>7, <1>8, <1>9, <1>10, Zenon DEF Situation

-----------------------------------------------------------------------------
(* What a token that is offered writes to.                                 *)

\* The properties of the project, of one token.
StoresOf(t) ==
  t \notin Untyped \cup {"END"} =>
    /\ Len(args) >= Takes(token_list[t].call)
    /\ \A i \in Len(args) - Takes(token_list[t].call) + 1 .. Len(args) :
         /\ args[i].by = Last(next).by
         /\ Of(args[i]) \in {Target(token_list[t].call), "none"}
CastsOf(t) ==
  /\ token_list[t].call \in DOMAIN Casts => object = Casts[token_list[t].call]
  /\ token_list[t].call = "parse_vc_action_meter_color_type" => out.data = "action_meter_color"
  /\ token_list[t].call = "parse_vc_action_conntrack_update" => out.data = "modify_conntrack"
DataOf(t) ==
  /\ token_list[t].call = "parse_vc_spec" =>
       out.items /\ out.area = "pattern" /\ objdata = out.data
  /\ token_list[t].call = "parse_vc_conf" => out.area = "actions" /\ objdata = out.data
KindOf(t) ==
  /\ t \in next_item \ {"END_SET"} => out.area = "pattern"
  /\ t \in next_action \cup next_action_sample => out.area = "actions"
Fits(t) == StoresOf(t) /\ CastsOf(t) /\ DataOf(t) /\ KindOf(t)

(* The callbacks that take no argument and no structure for granted.       *)
PlainCalls ==
  {"parse_default", "parse_init", "parse_ia", "parse_ia_destroy", "parse_mp", "parse_destroy",
   "parse_list", "parse_flush", "parse_query", "parse_aged", "parse_isolate", "parse_dump",
   "parse_flex", "parse_tunnel", "parse_set_init", "parse_set_raw_encap_decap",
   "parse_set_sample_action", "parse_vc", "parse_vc_action_set_meta"} \cup ConfiguredCalls

(* What the callbacks take.                                                *)
LEMMA TakesOf ==
  /\ \A c \in PlainCalls \cup {"parse_vc_spec", "parse_vc_conf", "parse_vc_action_conntrack_update"} :
       Takes(c) = 0
  /\ \A c \in DOMAIN Casts \ {"parse_ia_id2ptr"} : Takes(c) = 0
  /\ \A c \in OneCalls \cup {"parse_action"} : Takes(c) = 1
  /\ \A c \in ThreeCalls : Takes(c) = 3
  /\ \A c \in {"parse_ia_id2ptr", "parse_vc_item_ecpri_type", "parse_vc_item_l2tpv2_type"} :
       Takes(c) = 1
<1>1. DOMAIN Casts = {"parse_vc_action_rss_func", "parse_vc_action_rss_type",
        "parse_vc_action_rss_queue", "parse_vc_modify_field_op", "parse_vc_modify_field_id",
        "parse_vc_action_meter_color_type", "parse_ia_id2ptr", "parse_vc_action_raw_encap_index",
        "parse_vc_action_raw_decap_index", "parse_vc_action_sample_index"}
  BY SMT DEF Casts
<1> QED
  BY <1>1, SMT DEF Takes, PlainCalls, ConfiguredCalls, OneCalls, ThreeCalls

(* The structures the callbacks cast the object to.                        *)
LEMMA CastsTo ==
  /\ DOMAIN Casts \cap (PlainCalls \cup OneCalls \cup ThreeCalls
       \cup {"parse_action", "parse_vc_spec", "parse_vc_conf", "parse_vc_action_conntrack_update",
             "parse_vc_item_ecpri_type", "parse_vc_item_l2tpv2_type"}) = {}
  /\ \A c \in {"parse_vc_action_rss_func", "parse_vc_action_rss_type",
               "parse_vc_action_rss_queue"} : c \in DOMAIN Casts /\ Casts[c] = "action_rss_data"
  /\ \A c \in {"parse_vc_modify_field_op", "parse_vc_modify_field_id"} :
       c \in DOMAIN Casts /\ Casts[c] = "action_modify_field"
  /\ \A c \in {"parse_vc_action_meter_color_type", "parse_ia_id2ptr"} :
       c \in DOMAIN Casts /\ Casts[c] = "action"
  /\ \A c \in {"parse_vc_action_raw_encap_index"} :
       c \in DOMAIN Casts /\ Casts[c] = "action_raw_encap_data"
  /\ \A c \in {"parse_vc_action_raw_decap_index"} :
       c \in DOMAIN Casts /\ Casts[c] = "action_raw_decap_data"
  /\ \A c \in {"parse_vc_action_sample_index"} :
       c \in DOMAIN Casts /\ Casts[c] = "action_sample_data"
<1>1. DOMAIN Casts = {"parse_vc_action_rss_func", "parse_vc_action_rss_type",
        "parse_vc_action_rss_queue", "parse_vc_modify_field_op", "parse_vc_modify_field_id",
        "parse_vc_action_meter_color_type", "parse_ia_id2ptr", "parse_vc_action_raw_encap_index",
        "parse_vc_action_raw_decap_index", "parse_vc_action_sample_index"}
  BY SMT DEF Casts
<1>2. DOMAIN Casts \cap (PlainCalls \cup OneCalls \cup ThreeCalls
        \cup {"parse_action", "parse_vc_spec", "parse_vc_conf", "parse_vc_action_conntrack_update",
              "parse_vc_item_ecpri_type", "parse_vc_item_l2tpv2_type"}) = {}
  BY <1>1, SMT DEF PlainCalls, ConfiguredCalls, OneCalls, ThreeCalls
<1> QED
  BY <1>1, <1>2, SMT DEF Casts

(* A callback that takes nothing stores nothing.                           *)
LEMMA NoArguments ==
  ASSUME Typed, NEW t, Takes(token_list[t].call) = 0
  PROVE  StoresOf(t)
<1>1. Len(args) \in Nat
  BY SMT DEF Typed
<1>2. Len(args) >= 0 /\ Len(args) - 0 + 1 .. Len(args) = {}
  BY <1>1, SMT
<1> QED
  BY <1>2, SMT DEF StoresOf

(* Tokens of the plain callbacks.                                          *)
LEMMA PlainToken ==
  ASSUME Typed, NEW t, token_list[t].call \in PlainCalls
  PROVE  StoresOf(t) /\ CastsOf(t) /\ DataOf(t)
<1>1. token_list[t].call \notin {"parse_vc_action_meter_color_type", "parse_vc_action_conntrack_update",
        "parse_vc_spec", "parse_vc_conf"}
  BY SMT DEF PlainCalls, ConfiguredCalls
<1>2. token_list[t].call \notin DOMAIN Casts
  BY CastsTo, SMT
<1>3. Takes(token_list[t].call) = 0
  BY TakesOf, SMT
<1> QED
  BY <1>1, <1>2, <1>3, NoArguments, SMT DEF CastsOf, DataOf

(* A value is stored with the arguments of the word before it.             *)
LEMMA ValueToken ==
  ASSUME Typed, NEW t, token_list[t].call \in OneCalls \cup ThreeCalls \cup {"parse_action"},
         NEW b, Last(next).by = b, NEW r \in Nat, Pending(b, r), Takes(token_list[t].call) <= r,
         \A i \in 1 .. r : token_list[b].args[i] \in {object, "none"}
  PROVE  StoresOf(t) /\ CastsOf(t) /\ DataOf(t)
<1>1. token_list[t].call \notin {"parse_vc_action_meter_color_type", "parse_vc_action_conntrack_update",
        "parse_vc_spec", "parse_vc_conf", "parse_ia_id2ptr", "parse_vc_item_ecpri_type",
        "parse_vc_item_l2tpv2_type"}
  BY SMT DEF OneCalls, ThreeCalls
<1>2. token_list[t].call \notin DOMAIN Casts
  BY CastsTo, SMT
<1>3. Target(token_list[t].call) = object
  BY <1>1, SMT DEF Target
<1>4. Takes(token_list[t].call) \in {1, 3}
  BY TakesOf, SMT
<1> DEFINE n == Takes(token_list[t].call)
<1> HIDE DEF n
<1>5. /\ Len(args) \in Nat /\ Len(args) >= r
      /\ \A i \in 1 .. r : args[Len(args) - r + i] = [by |-> b, n |-> i]
  BY SMT DEF Typed, Pending
<1>6. n \in {1, 3} /\ n <= r /\ r \in Nat
  BY <1>4, Zenon DEF n
<1>7. Len(args) >= n
  BY <1>5, <1>6, SMT
<1>8. ASSUME NEW i \in Len(args) - n + 1 .. Len(args)
      PROVE  args[i].by = Last(next).by /\ Of(args[i]) \in {object, "none"}
  <2> DEFINE k == i - (Len(args) - r)
  <2>1. k \in 1 .. r /\ Len(args) - r + k = i
    BY <1>5, <1>6, <1>8, SMT
  <2> HIDE DEF k
  <2>2. args[i] = [by |-> b, n |-> k]
    BY <1>5, <2>1, Zenon
  <2>3. args[i].by = b /\ args[i].n = k
    BY <2>2, SMT
  <2> QED
    BY <2>1, <2>3, Zenon DEF Of
<1>9. StoresOf(t)
  BY <1>3, <1>7, <1>8, Zenon DEF StoresOf, n
<1> QED
  BY <1>1, <1>2, <1>9, SMT DEF CastsOf, DataOf

(* The tokens of the lists of items, and of actions, append an entry.      *)
LEMMA Kinds ==
  /\ \A t \in next_item \ {"END_SET"} :
       token_list[t].call = "parse_vc" \/ Len(token_list[t].next) = 3
  /\ \A t \in next_action \cup next_action_sample :
       t = "ACTION_NEXT" \/ token_list[t].call \in {"parse_vc", "parse_vc_action_set_meta"} \cup ConfiguredCalls
<1>1. ASSUME NEW t \in next_item \ {"END_SET"}
      PROVE  token_list[t].call = "parse_vc" \/ Len(token_list[t].next) = 3
  <2>1. CASE t = "ITEM_CONNTRACK"
    <3>1. FieldOf(token_list[t], "item_conntrack")
      BY <2>1, FieldsOfItems, SMT
    <3> QED
      BY <3>1, Zenon DEF FieldOf, FieldShape
  <2>2. CASE t = "ITEM_END" \/ t = "ITEM_PPPOE_PROTO_ID"
    BY <2>2, LandmarkRows, SMT DEF Place, Token
  <2>3. CASE ItemHead(token_list[t])
    BY <2>3, Zenon DEF ItemHead
  <2> QED
    BY <1>1, <2>1, <2>2, <2>3, NextItems, SMT
<1>2. ASSUME NEW t \in next_action \cup next_action_sample, t # "ACTION_NEXT"
      PROVE  token_list[t].call \in {"parse_vc", "parse_vc_action_set_meta"} \cup ConfiguredCalls
  <2>1. t \in next_action
    BY <1>2, SMT DEF next_action, next_action_sample
  <2>2. CASE t = "ACTION_END" \/ t = "ACTION_INDIRECT"
    BY <2>2, LandmarkRows, SMT DEF Token
  <2>3. CASE ActionHead(token_list[t])
    BY <2>3, Zenon DEF ActionHead
  <2> QED
    BY <2>1, <2>2, <2>3, NextActions, SMT
<1> QED
  BY <1>1, <1>2, Zenon

-----------------------------------------------------------------------------
(* What each situation offers.                                             *)

(* The words of the commands are neither items nor actions.                *)
LEMMA WordsPlain ==
  ASSUME NEW t \in CommandWords
  PROVE  /\ token_list[t].call \in PlainCalls
         /\ t \notin next_item \cup next_action \cup next_action_sample
         /\ t # "END" /\ t \notin OneValues
<1>1. token_list[t].call \in PlainCalls
  <2>1. \A u \in {"ZERO", "START_SET"} : token_list[u].call = "parse_default"
    BY CommandRows, SMT DEF Word, Token
  <2> QED
    BY <2>1, CommandCalls, SMT DEF CommandWords, PolicyWords, IndirectAttrs, SetRaw, PlainCalls
<1>2. t \notin next_item /\ t # "END" /\ t \notin OneValues
  BY SMT DEF CommandWords, PolicyWords, IndirectAttrs, SetRaw, next_item, OneValues
<1>3. t \notin next_action \cup next_action_sample
  BY SMT DEF CommandWords, PolicyWords, IndirectAttrs, SetRaw, next_action, next_action_sample
<1> QED
  BY <1>1, <1>2, <1>3, Zenon

(* A value is none of them either.                                         *)
LEMMA ValuesPlain ==
  /\ \A t \in OneValues \cup ThreeValues \cup {"QUERY_ACTION"} :
       t # "END" /\ t \notin next_item \cup next_action \cup next_action_sample
  /\ \A t \in OneValues : token_list[t].call \in OneCalls
  /\ \A t \in ThreeValues : token_list[t].call \in ThreeCalls
  /\ \A t \in {"QUERY_ACTION"} : token_list[t].call = "parse_action"
<1>1. \A t \in OneValues \cup ThreeValues \cup {"QUERY_ACTION"} :
        t # "END" /\ t \notin next_item
  BY SMT DEF OneValues, ThreeValues, next_item
<1>2. \A t \in OneValues \cup ThreeValues \cup {"QUERY_ACTION"} :
        t \notin next_action \cup next_action_sample
  BY SMT DEF OneValues, ThreeValues, next_action, next_action_sample
<1>3. \A t \in OneValues : token_list[t].call \in OneCalls
  BY ValueTokens, Zenon DEF OneValues, ValueOf
<1>4. \A t \in ThreeValues : token_list[t].call \in ThreeCalls
  BY ValueTokens, Zenon DEF ThreeValues, ValueOf
<1>5. token_list["QUERY_ACTION"].call = "parse_action"
  BY LandmarkRows, SMT DEF Call, Token
<1>6. \A t \in {"QUERY_ACTION"} : token_list[t].call = "parse_action"
  BY <1>5, SMT
<1> QED
  BY <1>1, <1>2, <1>3, <1>4, <1>6, Zenon

(* The words after which a command proper is over.                         *)
LEMMA LeavesPlain ==
  ASSUME NEW b, NEW t, Leaves(b, t)
  PROVE  /\ t # "END" /\ t \notin next_action \cup next_action_sample
         /\ t \in next_item => b \in SetRaw
         /\ \/ token_list[t].call \in PlainCalls
            \/ token_list[t].call \in OneCalls /\ b \in SetRaw \cup {"SET_SAMPLE_ACTIONS"}
<1>1. /\ t # "END" /\ t \notin next_action \cup next_action_sample
      /\ t \in next_item => b \in SetRaw
  <2>1. /\ t \in {"INDIRECT_ACTION_SPEC", "ITEM_PATTERN", "SET_RAW_INDEX", "ITEM_ETH",
                  "SET_SAMPLE_INDEX", "AGED_DESTROY"}
        /\ t = "ITEM_ETH" => b \in SetRaw
    BY SMT DEF Leaves
  <2>2. t \notin next_action \cup next_action_sample /\ t # "END"
    BY <2>1, SMT DEF next_action, next_action_sample
  <2>3. t \in next_item => t = "ITEM_ETH"
    BY <2>1, SMT DEF next_item
  <2> QED
    BY <2>1, <2>2, <2>3, Zenon
<1>2. CASE t \in {"INDIRECT_ACTION_SPEC", "ITEM_PATTERN", "AGED_DESTROY"}
  <2>1. token_list[t].call \in {"parse_default", "parse_vc", "parse_aged"}
    BY <1>2, LandmarkRows, SMT DEF Word, Call, Token
  <2> QED
    BY <1>1, <2>1, SMT DEF PlainCalls
<1>3. CASE t = "ITEM_ETH"
  <2>1. ItemHead(token_list["ITEM_ETH"])
    BY ItemHeads, SMT
  <2>2. token_list[t].call = "parse_vc"
    BY <1>3, <2>1, Zenon DEF ItemHead
  <2> QED
    BY <1>1, <2>2, SMT DEF PlainCalls
<1>4. CASE t \in {"SET_RAW_INDEX", "SET_SAMPLE_INDEX"}
  <2>1. token_list[t].call = "parse_port"
    BY <1>4, LandmarkRows, SMT DEF Call, Token
  <2>2. b \in SetRaw \cup {"SET_SAMPLE_ACTIONS"}
    BY <1>4, SMT DEF Leaves
  <2> QED
    BY <1>1, <2>1, <2>2, SMT DEF OneCalls
<1> QED
  BY <1>2, <1>3, <1>4, SMT DEF Leaves

(* Before a word or a value of a command.                                  *)
LEMMA CommandFits ==
  ASSUME Typed, NEW b \in CommandWords, NEW m \in 1..5, AtCommand(b, m), phase = "reading",
         NEW t \in Expected
  PROVE  Fits(t) /\ (t = "END" => Len(next) <= 1 /\ Dispatched)
<1> DEFINE L == Len(token_list[b].next)
           A == Len(token_list[b].args)
<1>1. /\ next = Stack(0, b, m) /\ object = ObjectOf(b)
      /\ m \in 1 .. L
      /\ \E c \in CommandsOf(b) : out = Bare(c, AreaOf(b))
      /\ L - m < A => Pending(b, A - (L - m))
      /\ b = "ITEM_POL_POLICY" => m >= 3
  BY CommandParts, Zenon
<1>2. m \in Nat /\ m > 0 /\ 0 \in Nat
  BY SMT
<1>3. t \in token_list[b].next[m] /\ Last(next) = [by |-> b, n |-> m]
  BY <1>1, <1>2, StackOffers, Zenon
<1>4. Last(next).by = b
  BY <1>3, SMT
<1>5. OfferedBy(b, m, t)
  BY <1>1, <1>3, CommandOffers, Zenon
<1>6. /\ L \in 1..5 /\ A \in Nat /\ DOMAIN token_list[b].args = 1 .. A
      /\ \A i \in DOMAIN token_list[b].args : token_list[b].args[i] = object
  <2>1. L \in 1..5 /\ \A i \in DOMAIN token_list[b].args : token_list[b].args[i] = object
    BY <1>1, CommandOffers, Zenon
  <2>2. WellFormed(token_list[b])
    BY <1>1, <1>2, StackOwner, WellFormedTable, Zenon
  <2>3. A \in Nat /\ DOMAIN token_list[b].args = 1 .. A
    BY <2>2, SMT DEF WellFormed
  <2> QED
    BY <2>1, <2>3, Zenon
<1>7. ASSUME token_list[t].call \in OneCalls \cup {"parse_action"}, L - m < A
      PROVE  StoresOf(t) /\ CastsOf(t) /\ DataOf(t)
  <2> DEFINE r == A - (L - m)
  <2>1. r \in Nat /\ 1 <= r /\ 1 .. r \subseteq 1 .. A
    <3> HIDE DEF L, A
    <3> QED
      BY <1>1, <1>2, <1>6, <1>7, SMT
  <2>2. Pending(b, r)
    BY <1>1, <1>7, Zenon
  <2>3. Takes(token_list[t].call) = 1
    BY <1>7, TakesOf, SMT
  <2> HIDE DEF r, L, A
  <2>4. \A i \in 1 .. r : token_list[b].args[i] \in {object, "none"}
    BY <1>6, <2>1, SMT
  <2>5. Takes(token_list[t].call) <= r
    BY <2>1, <2>3, Zenon
  <2>6. token_list[t].call \in OneCalls \cup ThreeCalls \cup {"parse_action"}
    BY <1>7, Zenon
  <2> QED
    BY <1>4, <2>1, <2>2, <2>4, <2>5, <2>6, ValueToken, Zenon
<1>8. CASE t = "END" /\ m = 1 /\ b \in EndWords
  <2>1. token_list[t].call \in PlainCalls
    <3>1. token_list[t].call = "parse_default"
      BY <1>8, LandmarkRows, SMT DEF Word, Token
    <3> QED
      BY <3>1, SMT DEF PlainCalls
  <2>2. t \notin next_item \cup next_action \cup next_action_sample
    BY <1>8, SMT DEF next_item, next_action, next_action_sample
  <2>3. Dispatched
    BY <1>1, <1>8, Ended, Zenon
  <2>4. Len(next) <= 1
    <3>1. Len(Stack(0, b, m)) = 0 + m
      BY <1>2, StackFacts, ZenonT(60)
    <3>2. 0 + 1 <= 1
      BY SMT
    <3> QED
      BY <1>1, <1>8, <3>1, <3>2, Zenon
  <2> QED
    BY <2>1, <2>2, <2>3, <2>4, PlainToken, Zenon DEF Fits, KindOf
<1>9. CASE t \in OneValues \cup {"QUERY_ACTION"} /\ L - m < A
  <2>1. token_list[t].call \in OneCalls \cup {"parse_action"}
    BY <1>9, ValuesPlain, SMT
  <2>2. t # "END" /\ t \notin next_item \cup next_action \cup next_action_sample
    BY <1>9, ValuesPlain, SMT
  <2>3. StoresOf(t) /\ CastsOf(t) /\ DataOf(t)
    BY <1>7, <1>9, <2>1, Zenon
  <2> QED
    BY <2>2, <2>3, Zenon DEF Fits, KindOf
<1>10. CASE Precedes(b, t)
  <2>1. t \in CommandWords
    BY <1>10, SMT DEF Precedes, CommandWords, PolicyWords, IndirectAttrs, SetRaw, flow_keywords,
      next_ia_subcmd, vc_attributes, next_vc_attr, next_dump_subcmd, next_flex_item
  <2> QED
    BY <2>1, WordsPlain, PlainToken, Zenon DEF Fits, KindOf
<1>11. CASE Leaves(b, t) /\ m = 1
  <2>1. /\ t # "END" /\ t \notin next_action \cup next_action_sample
        /\ t \in next_item => b \in SetRaw
        /\ \/ token_list[t].call \in PlainCalls
           \/ token_list[t].call \in OneCalls /\ b \in SetRaw \cup {"SET_SAMPLE_ACTIONS"}
    BY <1>11, LeavesPlain, Zenon
  <2>2. KindOf(t)
    <3>1. b \in SetRaw => out.area = "pattern"
      <4>1. b \in SetRaw => AreaOf(b) = "pattern"
        BY SMT DEF AreaOf, SetRaw, IndirectAttrs
      <4> QED
        BY <1>1, <4>1, BareFields, Zenon
    <3> QED
      BY <2>1, <3>1, Zenon DEF KindOf
  <2>3. b \in SetRaw \cup {"SET_SAMPLE_ACTIONS"} => L = 1 /\ A = 1
    BY CommandRows, SMT DEF SetRaw, Token
  <2>4. b \in SetRaw \cup {"SET_SAMPLE_ACTIONS"} => L - m < A
    BY <1>11, <2>3, SMT
  <2>5. StoresOf(t) /\ CastsOf(t) /\ DataOf(t)
    BY <1>7, <2>1, <2>4, PlainToken, Zenon
  <2> QED
    BY <2>1, <2>2, <2>5, Zenon DEF Fits
<1>12. CASE t = "ACTION_POL_G"
  <2>1. token_list[t].call \in PlainCalls
    <3>1. token_list[t].call = "parse_mp"
      BY <1>12, LandmarkRows, SMT DEF Call, Token
    <3> QED
      BY <3>1, SMT DEF PlainCalls
  <2>2. t \notin next_item \cup next_action \cup next_action_sample /\ t # "END"
    BY <1>12, SMT DEF next_item, next_action, next_action_sample
  <2> QED
    BY <2>1, <2>2, PlainToken, Zenon DEF Fits, KindOf
<1> QED
  BY <1>5, <1>8, <1>9, <1>10, <1>11, <1>12, Zenon DEF OfferedBy

(* END is a word without lists; so "next" is not one of the fields.        *)
LEMMA EndRows ==
  /\ token_list["END"].call = "parse_default" /\ Len(token_list["END"].next) = 0
  /\ token_list["ACTION_NEXT"].call = "parse_default" /\ Len(token_list["ACTION_NEXT"].next) = 1
  BY LandmarkRows, SMT DEF Word, Token

(* A word that is neither an item nor an action.                           *)
LEMMA NoKind ==
  ASSUME NEW t, token_list[t].call \notin {"parse_vc", "parse_vc_action_set_meta"} \cup ConfiguredCalls
  PROVE  /\ t \in next_action \cup next_action_sample => t = "ACTION_NEXT"
         /\ t \in next_item \ {"END_SET"} => Len(token_list[t].next) = 3
  BY Kinds, SMT

(* Before an item.                                                         *)
LEMMA ItemsFit ==
  ASSUME Typed, NEW b \in Tokens, AtItems(b), phase = "reading", NEW t \in Expected
  PROVE  Fits(t) /\ t # "END"
<1>1. /\ next = Stack(0, b, 1) /\ PatternList(token_list[b].next[1])
      /\ out.area = "pattern"
  BY Zenon DEF AtItems, InPattern
<1>2. t \in next_item \cup {"ITEM_NEXT"}
  <2>1. 0 \in Nat /\ 1 \in Nat /\ 1 > 0
    BY SMT
  <2>2. Expected = token_list[b].next[1]
    BY <1>1, <2>1, StackOffers, Zenon
  <2> QED
    BY <1>1, <2>2, Zenon DEF PatternList
<1>3. t # "END" /\ t \notin next_action \cup next_action_sample
  <2>1. t # "END" /\ t \notin next_action
    BY <1>2, SMT DEF next_item, next_action
  <2>2. t \notin next_action_sample
    BY <1>2, SMT DEF next_item, next_action_sample
  <2> QED
    BY <2>1, <2>2
<1>4. token_list[t].call \in {"parse_default", "parse_vc"}
  <2>1. CASE t \in {"ITEM_NEXT", "END_SET", "ITEM_END", "ITEM_PPPOE_PROTO_ID"}
    BY <2>1, LandmarkRows, SMT DEF Word, Place, Token
  <2>2. CASE t = "ITEM_CONNTRACK"
    <3>1. FieldOf(token_list[t], "item_conntrack")
      BY <2>2, FieldsOfItems, SMT
    <3> QED
      BY <3>1, SMT DEF FieldOf, FieldShape
  <2>3. CASE ItemHead(token_list[t])
    BY <2>3, SMT DEF ItemHead
  <2> QED
    BY <1>2, <2>1, <2>2, <2>3, NextItems, SMT
<1>5. token_list[t].call \in PlainCalls
  BY <1>4, SMT DEF PlainCalls
<1> QED
  BY <1>1, <1>3, <1>5, PlainToken, Zenon DEF Fits, KindOf

(* Before a field of an item.                                              *)
LEMMA FieldsFit ==
  ASSUME Typed, NEW S, NEW b \in Tokens, AtFields(b, S), phase = "reading", NEW t \in Expected
  PROVE  Fits(t) /\ t # "END"
<1>1. /\ next = Stack(0, b, 1) /\ ItemList(token_list[b].next[1], S)
      /\ out.area = "pattern"
  BY Zenon DEF AtFields, ItemData, InPattern
<1>2. t \in ItemOffers(S)
  <2>1. 0 \in Nat /\ 1 \in Nat /\ 1 > 0
    BY SMT
  <2>2. Expected = token_list[b].next[1]
    BY <1>1, <2>1, StackOffers, Zenon
  <2> QED
    BY <1>1, <2>2, Zenon DEF ItemList
<1>3. token_list[t].call = "parse_default" /\ t # "END" /\ t # "ACTION_NEXT"
  <2>1. CASE t \in {"ITEM_NEXT", "ITEM_ECPRI_COMMON", "ITEM_ECPRI_COMMON_TYPE",
                    "ITEM_L2TPV2_COMMON", "ITEM_L2TPV2_COMMON_TYPE"}
    BY <2>1, LandmarkRows, SMT DEF Word, Token
  <2>2. CASE FieldOf(token_list[t], S)
    <3>1. token_list[t].call = "parse_default" /\ Len(token_list[t].next) = 3
      BY <2>2, Zenon DEF FieldOf, FieldShape
    <3> QED
      BY <3>1, EndRows, SMT
  <2> QED
    BY <1>2, <2>1, <2>2, ItemOffered, SMT
<1>4. /\ token_list[t].call \in PlainCalls
      /\ token_list[t].call \notin {"parse_vc", "parse_vc_action_set_meta"} \cup ConfiguredCalls
  BY <1>3, SMT DEF PlainCalls, ConfiguredCalls
<1> QED
  BY <1>1, <1>3, <1>4, NoKind, PlainToken, Zenon DEF Fits, KindOf

(* Before is, spec, last, mask or prefix.                                  *)
LEMMA ParamFits ==
  ASSUME Typed, NEW S, NEW b \in Tokens, AtParam(b, S), phase = "reading", NEW t \in Expected
  PROVE  Fits(t) /\ t # "END"
<1>1. /\ next = Stack(0, b, 3) /\ FieldLike(b, S)
      /\ out.area = "pattern" /\ out.items /\ objdata = out.data
  BY Zenon DEF AtParam, ItemData, InPattern
<1>2. t \in item_param
  <2>1. 0 \in Nat /\ 3 \in Nat /\ 3 > 0
    BY SMT
  <2>2. Expected = token_list[b].next[3]
    BY <1>1, <2>1, StackOffers, Zenon
  <2> QED
    BY <1>1, <2>2, FieldLists, Zenon
<1>3. token_list[t].call = "parse_vc_spec"
  <2>1. ValueOf(token_list[t], {"parse_vc_spec"})
    BY <1>2, ValueTokens, SMT DEF item_param
  <2> QED
    BY <2>1, Zenon DEF ValueOf
<1>4. t # "END" /\ t \notin next_action \cup next_action_sample
  <2>1. t # "END" /\ t # "ACTION_NEXT"
    BY <1>3, EndRows, SMT
  <2>2. token_list[t].call \notin {"parse_vc", "parse_vc_action_set_meta"} \cup ConfiguredCalls
    BY <1>3, SMT DEF ConfiguredCalls
  <2> QED
    BY <2>1, <2>2, NoKind, Zenon
<1>5. KindOf(t) /\ DataOf(t)
  <2>1. token_list[t].call # "parse_vc_conf"
    BY <1>3, SMT
  <2> QED
    BY <1>1, <1>4, <2>1, Zenon DEF KindOf, DataOf
<1>6. StoresOf(t)
  <2>1. Takes(token_list[t].call) = 0
    BY <1>3, TakesOf, SMT
  <2> QED
    BY <2>1, NoArguments, Zenon
<1>7. CastsOf(t)
  BY <1>3, CastsTo, SMT DEF CastsOf
<1> QED
  BY <1>4, <1>5, <1>6, <1>7, Zenon DEF Fits

(* A value that is offered after a keyword with as many arguments.         *)
LEMMA ListedFits ==
  ASSUME Typed, NEW t, NEW L, NEW b \in Tokens, ValueList(L, Len(token_list[b].args)), t \in L,
         Last(next).by = b, Pending(b, Len(token_list[b].args)),
         \A i \in DOMAIN token_list[b].args : token_list[b].args[i] \in {object, "none"}
  PROVE  Fits(t) /\ t # "END"
<1> DEFINE r == Len(token_list[b].args)
<1>1. r \in Nat /\ DOMAIN token_list[b].args = 1 .. r
  <2>1. WellFormed(token_list[b])
    BY WellFormedTable, Zenon
  <2> QED
    BY <2>1, SMT DEF WellFormed
<1> HIDE DEF r
<1>2. (r = 1 /\ t \in OneValues) \/ (r = 3 /\ t \in ThreeValues)
  BY Zenon DEF ValueList, r
<1>3. t # "END" /\ t \notin next_item \cup next_action \cup next_action_sample
  BY <1>2, ValuesPlain, SMT
<1>4. /\ token_list[t].call \in OneCalls \cup ThreeCalls \cup {"parse_action"}
      /\ Takes(token_list[t].call) <= r
  <2>1. \/ r = 1 /\ token_list[t].call \in OneCalls
        \/ r = 3 /\ token_list[t].call \in ThreeCalls
    BY <1>2, ValuesPlain, Zenon
  <2>2. Takes(token_list[t].call) = r
    BY <2>1, TakesOf, SMT
  <2>3. r <= r
    BY <1>1, SMT
  <2> QED
    BY <2>1, <2>2, <2>3, Zenon
<1>5. \A i \in 1 .. r : token_list[b].args[i] \in {object, "none"}
  BY <1>1, Zenon
<1>6. Pending(b, r)
  BY Zenon DEF r
<1>7. StoresOf(t) /\ CastsOf(t) /\ DataOf(t)
  BY <1>1, <1>4, <1>5, <1>6, ValueToken, Zenon
<1> QED
  BY <1>3, <1>7, Zenon DEF Fits, KindOf

(* Before the value of a field.                                            *)
LEMMA ValueFits ==
  ASSUME Typed, NEW S, NEW b \in Tokens, AtValue(b, S), phase = "reading", NEW t \in Expected
  PROVE  Fits(t) /\ t # "END"
<1>1. /\ \/ next = Stack(0, b, 2)
         \/ next = <<[by |-> b, n |-> 1], [by |-> b, n |-> 0]>>
      /\ FieldLike(b, S) /\ object = S /\ Pending(b, Len(token_list[b].args))
  BY Zenon DEF AtValue
<1>2. /\ ValueList(token_list[b].next[2], Len(token_list[b].args))
      /\ \A i \in DOMAIN token_list[b].args : token_list[b].args[i] \in {object, "none"}
      /\ Len(token_list[b].args) \in {1, 3}
  BY <1>1, FieldLists, Zenon
<1>3. CASE next = Stack(0, b, 2)
  <2>1. 0 \in Nat /\ 2 \in Nat /\ 2 > 0
    BY SMT
  <2>2. Expected = token_list[b].next[2] /\ Last(next) = [by |-> b, n |-> 2]
    BY <1>3, <2>1, StackOffers, Zenon
  <2>3. Last(next).by = b
    BY <2>2, SMT
  <2> QED
    BY <1>1, <1>2, <2>2, <2>3, ListedFits, Zenon
<1>4. CASE next = <<[by |-> b, n |-> 1], [by |-> b, n |-> 0]>>
  <2> DEFINE r == Len(token_list[b].args)
  <2>1. t = "COMMON_PREFIX"
    BY <1>4, PrefixStack, Zenon
  <2>2. token_list[t].call = "parse_prefix"
    BY <2>1, LandmarkRows, SMT DEF Call, Token
  <2>3. token_list[t].call \in OneCalls
    BY <2>2, SMT DEF OneCalls
  <2>4. Last(next).by = b
    BY <1>4, SMT DEF Last
  <2>5. DOMAIN token_list[b].args = 1 .. r
    <3>1. WellFormed(token_list[b])
      BY WellFormedTable, Zenon
    <3> QED
      BY <3>1, SMT DEF WellFormed
  <2>6. Takes(token_list[t].call) = 1
    BY <2>3, TakesOf, SMT
  <2>7. r \in Nat /\ 1 <= r
    <3>1. r \in {1, 3}
      BY <1>2
    <3> HIDE DEF r
    <3> QED
      BY <3>1, SMT
  <2>8. \A i \in 1 .. r : token_list[b].args[i] \in {object, "none"}
    BY <1>2, <2>5, Zenon
  <2>9. token_list[t].call \in OneCalls \cup ThreeCalls \cup {"parse_action"}
    BY <2>3, Zenon
  <2> HIDE DEF r
  <2>10. Pending(b, r)
    BY <1>1, Zenon DEF r
  <2>11. StoresOf(t) /\ CastsOf(t) /\ DataOf(t)
    BY <2>4, <2>6, <2>7, <2>8, <2>9, <2>10, ValueToken, Zenon
  <2>12. t # "END" /\ t \notin next_item \cup next_action \cup next_action_sample
    <3>1. t \in OneValues
      BY <2>1, SMT DEF OneValues
    <3> QED
      BY <3>1, ValuesPlain, Zenon
  <2> QED
    BY <2>11, <2>12, Zenon DEF Fits, KindOf
<1> QED
  BY <1>1, <1>3, <1>4, Zenon

(* Before the type of a message.                                           *)
LEMMA TypeFits ==
  ASSUME Typed, NEW S, NEW b \in Tokens, AtType(b, S), phase = "reading", NEW t \in Expected
  PROVE  Fits(t) /\ t # "END"
<1>1. /\ next = Stack(0, b, 1) /\ Pending(b, 1)
      /\ \/ S = "item_ecpri" /\ b = "ITEM_ECPRI_COMMON_TYPE"
         \/ S = "item_l2tpv2" /\ b = "ITEM_L2TPV2_COMMON_TYPE"
      /\ out.data = S
  BY Zenon DEF AtType, ItemData
<1>2. t \in token_list[b].next[1] /\ Last(next) = [by |-> b, n |-> 1]
  <2>1. 0 \in Nat /\ 1 \in Nat /\ 1 > 0
    BY SMT
  <2> QED
    BY <1>1, <2>1, StackOffers, Zenon
<1>3. /\ token_list[t].call \in {"parse_vc_item_ecpri_type", "parse_vc_item_l2tpv2_type"}
      /\ token_list[b].args[1] = S
  <2>1. CASE S = "item_ecpri" /\ b = "ITEM_ECPRI_COMMON_TYPE"
    <3>1. token_list[b] = Token("parse_default", <<item_ecpri_common_type>>, <<"item_ecpri">>, "none")
      BY <2>1, LandmarkRows, Zenon
    <3>2. t \in item_ecpri_common_type /\ token_list[b].args[1] = S
      BY <1>2, <2>1, <3>1, SMT DEF Token
    <3>3. TypeOf(token_list[t], "parse_vc_item_ecpri_type", "item_ecpri")
      BY <3>2, WordsAndTypes, Zenon DEF item_ecpri_common_type
    <3> QED
      BY <3>2, <3>3, SMT DEF TypeOf
  <2>2. CASE S = "item_l2tpv2" /\ b = "ITEM_L2TPV2_COMMON_TYPE"
    <3>1. token_list[b] = Token("parse_default", <<item_l2tpv2_common_type>>, <<"item_l2tpv2">>, "none")
      BY <2>2, LandmarkRows, Zenon
    <3>2. t \in item_l2tpv2_common_type /\ token_list[b].args[1] = S
      BY <1>2, <2>2, <3>1, SMT DEF Token
    <3>3. TypeOf(token_list[t], "parse_vc_item_l2tpv2_type", "item_l2tpv2")
      BY <3>2, WordsAndTypes, Zenon DEF item_l2tpv2_common_type
    <3> QED
      BY <3>2, <3>3, SMT DEF TypeOf
  <2> QED
    BY <1>1, <2>1, <2>2, Zenon
<1>4. t # "END" /\ t \notin next_item \cup next_action \cup next_action_sample
  <2>1. t \in item_ecpri_common_type \cup item_l2tpv2_common_type
    <3>1. \/ token_list[b] = Token("parse_default", <<item_ecpri_common_type>>, <<"item_ecpri">>, "none")
          \/ token_list[b] = Token("parse_default", <<item_l2tpv2_common_type>>, <<"item_l2tpv2">>, "none")
      BY <1>1, LandmarkRows, Zenon
    <3> QED
      BY <1>2, <3>1, SMT DEF Token
  <2>2. t # "END" /\ t \notin next_item
    BY <2>1, SMT DEF item_ecpri_common_type, item_l2tpv2_common_type, next_item
  <2>3. t \notin next_action \cup next_action_sample
    BY <2>1, SMT DEF item_ecpri_common_type, item_l2tpv2_common_type, next_action, next_action_sample
  <2> QED
    BY <2>2, <2>3, Zenon
<1>5. StoresOf(t)
  <2>1. Takes(token_list[t].call) = 1 /\ Target(token_list[t].call) = S
    BY <1>1, <1>3, SMT DEF Takes, Target
  <2>2. /\ Len(args) \in Nat /\ Len(args) >= 1
        /\ \A i \in 1 .. 1 : args[Len(args) - 1 + i] = [by |-> b, n |-> i]
    BY <1>1, SMT DEF Typed, Pending
  <2>3. /\ Len(args) - 1 + 1 = Len(args) /\ 1 \in 1 .. 1
        /\ Len(args) .. Len(args) = {Len(args)}
    BY <2>2, SMT
  <2>4. args[Len(args)] = [by |-> b, n |-> 1]
    BY <2>2, <2>3, Zenon
  <2>5. args[Len(args)].by = Last(next).by /\ Of(args[Len(args)]) = S
    BY <1>2, <1>3, <2>4, SMT DEF Of
  <2>6. \A i \in Len(args) - 1 + 1 .. Len(args) :
          args[i].by = Last(next).by /\ Of(args[i]) \in {S, "none"}
    BY <2>3, <2>5, Zenon
  <2> QED
    BY <2>1, <2>2, <2>6, Zenon DEF StoresOf
<1>6. CastsOf(t) /\ DataOf(t)
  <2>1. token_list[t].call \notin {"parse_vc_action_meter_color_type", "parse_vc_action_conntrack_update",
          "parse_vc_spec", "parse_vc_conf"}
    BY <1>3, SMT
  <2>2. token_list[t].call \notin DOMAIN Casts
    BY <1>3, CastsTo, SMT
  <2> QED
    BY <2>1, <2>2, SMT DEF CastsOf, DataOf
<1> QED
  BY <1>4, <1>5, <1>6, Zenon DEF Fits, KindOf

(* Between the pattern of a rule and its actions.                          *)
LEMMA PatternEndFits ==
  ASSUME Typed, AfterPattern, phase = "reading", NEW t \in Expected
  PROVE  Fits(t) /\ t # "END"
<1>1. t = "ACTIONS"
  <2>1. 0 \in Nat /\ 1 \in Nat /\ 1 > 0
    BY SMT
  <2>2. next = Stack(0, "ITEM_END", 1)
    BY Zenon DEF AfterPattern
  <2>3. Expected = token_list["ITEM_END"].next[1]
    BY <2>1, <2>2, StackOffers, Zenon
  <2>4. token_list["ITEM_END"] = Place(NEXT_ENTRY("ACTIONS"), "void")
    BY LandmarkRows, Zenon
  <2> QED
    BY <2>3, <2>4, SMT DEF Place, Token, NEXT_ENTRY
<1>2. token_list[t].call = "parse_vc"
  BY <1>1, LandmarkRows, SMT DEF Call, Token
<1>3. token_list[t].call \in PlainCalls
  BY <1>2, SMT DEF PlainCalls
<1>4. t # "END" /\ t \notin next_item \cup next_action \cup next_action_sample
  BY <1>1, SMT DEF next_item, next_action, next_action_sample
<1> QED
  BY <1>3, <1>4, PlainToken, Zenon DEF Fits, KindOf

(* Before an action.                                                       *)
LEMMA ActionsFit ==
  ASSUME Typed, NEW q \in 0..2, NEW b \in Tokens, AtActions(q, b), phase = "reading",
         NEW t \in Expected
  PROVE  Fits(t) /\ t # "END"
<1>1. /\ next = Stack(q, b, 1) /\ ActionsList(token_list[b].next[1])
      /\ out.area = "actions"
  BY InActionsEnds, Zenon DEF AtActions
<1>2. t \in next_action \cup {"ACTION_NEXT"}
  <2>1. q \in Nat /\ 1 \in Nat /\ 1 > 0
    BY SMT
  <2>2. Expected = token_list[b].next[1]
    BY <1>1, <2>1, StackOffers, Zenon
  <2> QED
    BY <1>1, <2>2, Zenon DEF ActionsList
<1>3. t # "END" /\ t \notin next_item
  BY <1>2, SMT DEF next_item, next_action
<1>4. token_list[t].call \in PlainCalls
  <2>1. CASE t = "ACTION_NEXT"
    BY <2>1, EndRows, SMT DEF PlainCalls
  <2>2. CASE t # "ACTION_NEXT"
    BY <1>2, <2>2, Kinds, SMT DEF PlainCalls
  <2> QED
    BY <2>1, <2>2
<1> QED
  BY <1>1, <1>3, <1>4, PlainToken, Zenon DEF Fits, KindOf

(* The settings of a configuration.                                        *)
LEMMA SettingToken ==
  ASSUME Typed, NEW S, NEW t, token_list[t].call \in SettingCalls(S), out.data = S,
         S # "action_meter_color" => object = S, S = "action_meter_color" => object = "action"
  PROVE  StoresOf(t) /\ CastsOf(t) /\ DataOf(t) /\ Takes(token_list[t].call) = 0
<1>1. \/ S = "action_rss_data" /\ token_list[t].call \in {"parse_vc_action_rss_func",
            "parse_vc_action_rss_type", "parse_vc_action_rss_queue"}
      \/ S = "action_modify_field" /\ token_list[t].call \in {"parse_vc_modify_field_op",
            "parse_vc_modify_field_id"}
      \/ S = "action_meter_color" /\ token_list[t].call = "parse_vc_action_meter_color_type"
  BY SMT DEF SettingCalls
<1>2. Takes(token_list[t].call) = 0
  BY <1>1, CastsTo, TakesOf, SMT
<1>3. CastsOf(t)
  BY <1>1, CastsTo, SMT DEF CastsOf
<1>4. DataOf(t)
  BY <1>1, SMT DEF DataOf
<1> QED
  BY <1>2, <1>3, <1>4, NoArguments, Zenon

(* Before a field of an action.                                            *)
LEMMA ConfFits ==
  ASSUME Typed, NEW q \in 0..2, NEW S, NEW b \in Tokens, AtConf(q, b, S), phase = "reading",
         NEW t \in Expected
  PROVE  Fits(t) /\ t # "END"
<1>1. /\ next = Stack(q, b, 1) /\ ActionList(token_list[b].next[1], S)
      /\ out.area = "actions" /\ out.data = S /\ objdata = S /\ ObjectFits(S)
  BY InActionsEnds, Zenon DEF AtConf, ActionData
<1>2. t \in ActionOffers(S)
  <2>1. q \in Nat /\ 1 \in Nat /\ 1 > 0
    BY SMT
  <2>2. Expected = token_list[b].next[1]
    BY <1>1, <2>1, StackOffers, Zenon
  <2> QED
    BY <1>1, <2>2, Zenon DEF ActionList
<1>3. CASE t \in {"ACTION_NEXT", "ACTION_SAMPLE", "ACTION_AGE"}
  <2>1. t # "END" /\ t \notin next_item
    BY <1>3, SMT DEF next_item
  <2>2. token_list[t].call \in PlainCalls
    <3>1. CASE t = "ACTION_NEXT"
      BY <3>1, EndRows, SMT DEF PlainCalls
    <3>2. CASE t # "ACTION_NEXT"
      <4>1. t \in next_action
        BY <1>3, <3>2, SMT DEF next_action
      <4> QED
        BY <3>2, <4>1, Kinds, SMT DEF PlainCalls
    <3> QED
      BY <3>1, <3>2
  <2> QED
    BY <1>1, <2>1, <2>2, PlainToken, Zenon DEF Fits, KindOf
<1>4. ASSUME token_list[t].call \notin {"parse_vc", "parse_vc_action_set_meta"} \cup ConfiguredCalls,
             Len(token_list[t].next) \in {1, 2}
      PROVE  KindOf(t) /\ t # "END"
  <2>0. 0 \notin {1, 2} /\ 3 \notin {1, 2}
    BY SMT
  <2>1. t # "END" /\ Len(token_list[t].next) # 3
    BY <1>4, <2>0, EndRows, Zenon
  <2> QED
    BY <1>1, <1>4, <2>1, NoKind, Zenon DEF KindOf
<1>5. CASE SettingOf(token_list[t], S) \/ ConfOf(token_list[t], S)
  <2>1. token_list[t].call \in {"parse_default", "parse_vc_conf"} /\ Len(token_list[t].next) = 2
    BY <1>5, SMT DEF SettingOf, ConfOf, ConfShape
  <2>2. token_list[t].call \notin {"parse_vc", "parse_vc_action_set_meta", "parse_vc_spec",
          "parse_vc_action_meter_color_type", "parse_vc_action_conntrack_update"} \cup ConfiguredCalls
    BY <2>1, SMT DEF ConfiguredCalls
  <2>3. KindOf(t) /\ t # "END"
    BY <1>4, <2>1, <2>2, SMT
  <2>4. DataOf(t)
    BY <1>1, <2>2, SMT DEF DataOf
  <2>5. token_list[t].call \in PlainCalls \cup {"parse_vc_conf"}
    BY <2>1, SMT DEF PlainCalls
  <2>6. StoresOf(t)
    <3>1. Takes(token_list[t].call) = 0
      BY <2>5, TakesOf, SMT
    <3> QED
      BY <3>1, NoArguments, Zenon
  <2>7. CastsOf(t)
    <3>1. token_list[t].call \notin DOMAIN Casts
      BY <2>5, CastsTo, SMT
    <3> QED
      BY <2>2, <3>1, SMT DEF CastsOf
  <2> QED
    BY <2>3, <2>4, <2>6, <2>7, Zenon DEF Fits
<1>6. CASE WordOf(token_list[t], S)
  <2>1. token_list[t].call \in WordCalls(S) /\ Len(token_list[t].next) = 1
    BY <1>6, Zenon DEF WordOf
  <2>2. \/ token_list[t].call = "parse_default"
        \/ S = "action_raw_encap_data" /\ token_list[t].call = "parse_vc_action_raw_encap_index"
        \/ S = "action_raw_decap_data" /\ token_list[t].call = "parse_vc_action_raw_decap_index"
        \/ S = "action_sample_data" /\ token_list[t].call = "parse_vc_action_sample_index"
        \/ S = "modify_conntrack" /\ token_list[t].call = "parse_vc_action_conntrack_update"
    BY <2>1, SMT DEF WordCalls
  <2>3. token_list[t].call \notin {"parse_vc", "parse_vc_action_set_meta", "parse_vc_spec",
          "parse_vc_conf", "parse_vc_action_meter_color_type"} \cup ConfiguredCalls
    BY <2>2, SMT DEF ConfiguredCalls
  <2>4. KindOf(t) /\ t # "END"
    BY <1>4, <2>1, <2>3, SMT
  <2>5. DataOf(t)
    BY <2>3, SMT DEF DataOf
  <2>6. StoresOf(t)
    <3>1. token_list[t].call = "parse_default" => token_list[t].call \in PlainCalls
      BY SMT DEF PlainCalls
    <3>2. Takes(token_list[t].call) = 0
      BY <2>2, <3>1, CastsTo, TakesOf, SMT
    <3> QED
      BY <3>2, NoArguments, Zenon
  <2>7. CastsOf(t)
    <3>1. S \in Own => object = S
      BY <1>1, Zenon DEF ObjectFits
    <3>2. "parse_default" \in PlainCalls
      BY SMT DEF PlainCalls
    <3> QED
      BY <1>1, <2>2, <3>1, <3>2, CastsTo, SMT DEF CastsOf, Own
  <2> QED
    BY <2>4, <2>5, <2>6, <2>7, Zenon DEF Fits
<1> QED
  BY <1>2, <1>3, <1>5, <1>6, ActionOffered, Zenon

(* Before the value of a field or a setting of an action.                  *)
LEMMA SettingFits ==
  ASSUME Typed, NEW q \in 0..2, NEW S, NEW b \in Tokens, AtSetting(q, b, S), phase = "reading",
         NEW t \in Expected
  PROVE  Fits(t) /\ t # "END"
<1>1. /\ next = Stack(q, b, 2) /\ Pending(b, Len(token_list[b].args))
      /\ S # "action_meter_color" => object = S
      /\ SettingOf(token_list[b], S) \/ ConfOf(token_list[b], S)
      /\ out.area = "actions" /\ out.data = S /\ ObjectFits(S)
  BY InActionsEnds, Zenon DEF AtSetting, ActionData
<1>2. t \in token_list[b].next[2] /\ Last(next) = [by |-> b, n |-> 2]
  <2>1. q \in Nat /\ 2 \in Nat /\ 2 > 0
    BY SMT
  <2> QED
    BY <1>1, <2>1, StackOffers, Zenon
<1>3. CASE SettingOf(token_list[b], S)
  <2>1. ValueOf(token_list[t], SettingCalls(S))
    BY <1>2, <1>3, Zenon DEF SettingOf, SettingList
  <2>2. token_list[t].call \in SettingCalls(S) /\ token_list[t].next = <<>>
    BY <2>1, Zenon DEF ValueOf
  <2>3. S = "action_meter_color" => object = "action"
    BY <1>1, Zenon DEF ObjectFits
  <2>4. StoresOf(t) /\ CastsOf(t) /\ DataOf(t)
    BY <1>1, <2>2, <2>3, SettingToken, Zenon
  <2>5. token_list[t].call \notin {"parse_default", "parse_vc", "parse_vc_action_set_meta"} \cup ConfiguredCalls
    BY <2>2, SMT DEF SettingCalls, ConfiguredCalls
  <2>6. Len(token_list[t].next) # 3
    BY <2>2, SMT
  <2>7. KindOf(t) /\ t # "END"
    <3>1. t # "END"
      BY <2>5, EndRows, SMT
    <3>2. t \notin next_item \ {"END_SET"}
      BY <2>5, <2>6, NoKind, Zenon
    <3> QED
      BY <1>1, <3>1, <3>2, Zenon DEF KindOf
  <2> QED
    BY <2>4, <2>7, Zenon DEF Fits
<1>4. CASE ConfOf(token_list[b], S)
  <2>1. ConfShape(token_list[b]) /\ Owner(token_list[b]) = S
    BY <1>4, Zenon DEF ConfOf
  <2>2. S # "action_meter_color"
    BY <2>1, SMT DEF ConfShape
  <2>3. object = S
    BY <1>1, <2>2, Zenon
  <2>4. /\ ValueList(token_list[b].next[2], Len(token_list[b].args))
        /\ \A i \in DOMAIN token_list[b].args : token_list[b].args[i] \in {S, "none"}
    <3>1. ConfSound(token_list[b])
      BY SoundTable, Zenon DEF Sound
    <3> QED
      BY <2>1, <3>1, Zenon DEF ConfSound
  <2>5. Last(next).by = b
    BY <1>2, SMT
  <2>6. \A i \in DOMAIN token_list[b].args : token_list[b].args[i] \in {object, "none"}
    BY <2>3, <2>4, Zenon
  <2> QED
    BY <1>1, <1>2, <2>4, <2>5, <2>6, ListedFits, Zenon
<1> QED
  BY <1>1, <1>3, <1>4, Zenon

(* Before the identifier of an indirect action.                            *)
LEMMA IndirectFits ==
  ASSUME Typed, NEW q \in 0..2, AtIndirect(q), phase = "reading", NEW t \in Expected
  PROVE  Fits(t) /\ t # "END"
<1>1. /\ next = Stack(q, "ACTION_INDIRECT", 1) /\ Pending("ACTION_INDIRECT", 1)
      /\ object = "action" /\ out.area = "actions"
  BY InActionsEnds, Zenon DEF AtIndirect
<1>2. t \in token_list["ACTION_INDIRECT"].next[1] /\ Last(next) = [by |-> "ACTION_INDIRECT", n |-> 1]
  <2>1. q \in Nat /\ 1 \in Nat /\ 1 > 0
    BY SMT
  <2> QED
    BY <1>1, <2>1, StackOffers, Zenon
<1>3. t = "INDIRECT_ACTION_ID2PTR" /\ token_list["ACTION_INDIRECT"].args[1] = "id"
  <2>1. token_list["ACTION_INDIRECT"]
          = Token("parse_vc", <<NEXT_ENTRY("INDIRECT_ACTION_ID2PTR")>>, <<"id">>, "void")
    BY LandmarkRows, Zenon
  <2> QED
    BY <1>2, <2>1, SMT DEF Token, NEXT_ENTRY
<1>4. token_list[t].call = "parse_ia_id2ptr"
  BY <1>3, LandmarkRows, SMT DEF Call, Token
<1>5. t # "END" /\ t \notin next_item \cup next_action \cup next_action_sample
  BY <1>3, SMT DEF next_item, next_action, next_action_sample
<1>6. StoresOf(t)
  <2>1. Takes(token_list[t].call) = 1 /\ Target(token_list[t].call) = "id"
    BY <1>4, SMT DEF Takes, Target
  <2>2. /\ Len(args) \in Nat /\ Len(args) >= 1
        /\ \A i \in 1 .. 1 : args[Len(args) - 1 + i] = [by |-> "ACTION_INDIRECT", n |-> i]
    BY <1>1, SMT DEF Typed, Pending
  <2>3. /\ Len(args) - 1 + 1 = Len(args) /\ 1 \in 1 .. 1
        /\ Len(args) .. Len(args) = {Len(args)}
    BY <2>2, SMT
  <2>4. args[Len(args)] = [by |-> "ACTION_INDIRECT", n |-> 1]
    BY <2>2, <2>3, Zenon
  <2>5. args[Len(args)].by = Last(next).by /\ Of(args[Len(args)]) = "id"
    BY <1>2, <1>3, <2>4, SMT DEF Of
  <2>6. \A i \in Len(args) - 1 + 1 .. Len(args) :
          args[i].by = Last(next).by /\ Of(args[i]) \in {"id", "none"}
    BY <2>3, <2>5, Zenon
  <2> QED
    BY <2>1, <2>2, <2>6, Zenon DEF StoresOf
<1>7. CastsOf(t) /\ DataOf(t)
  <2>1. Casts["parse_ia_id2ptr"] = "action"
    BY CastsTo, SMT
  <2> QED
    BY <1>1, <1>4, <2>1, SMT DEF CastsOf, DataOf
<1> QED
  BY <1>5, <1>6, <1>7, Zenon DEF Fits, KindOf

(* Between the actions of two colors.                                      *)
LEMMA ColorFits ==
  ASSUME Typed, NEW q \in 0..2, AtColor(q), phase = "reading", NEW t \in Expected
  PROVE  Fits(t) /\ t # "END"
<1>1. q \in 1..2 /\ next = Stack(0, "ITEM_POL_POLICY", q)
  BY Zenon DEF AtColor
<1>2. t \in token_list["ITEM_POL_POLICY"].next[q]
  <2>1. q \in Nat /\ q > 0 /\ 0 \in Nat
    BY <1>1, SMT
  <2> QED
    BY <1>1, <2>1, StackOffers, Zenon
<1>3. t \in {"ACTION_POL_R", "ACTION_POL_Y"}
  <2>1. token_list["ITEM_POL_POLICY"] = Token("parse_mp", <<NEXT_ENTRY("ACTION_POL_R"),
          NEXT_ENTRY("ACTION_POL_Y"), NEXT_ENTRY("ACTION_POL_G"), NEXT_ENTRY("COMMON_POLICY_ID"),
          NEXT_ENTRY("COMMON_PORT_ID")>>, <<"buffer", "buffer">>, "none")
    BY CommandRows, Zenon
  <2>2. /\ token_list["ITEM_POL_POLICY"].next[1] = {"ACTION_POL_R"}
        /\ token_list["ITEM_POL_POLICY"].next[2] = {"ACTION_POL_Y"}
    BY <2>1, SMT DEF Token, NEXT_ENTRY
  <2> QED
    BY <1>1, <1>2, <2>2, SMT
<1>4. token_list[t].call = "parse_default"
  BY <1>3, LandmarkRows, SMT DEF Word, Token
<1>5. token_list[t].call \in PlainCalls
  BY <1>4, SMT DEF PlainCalls
<1>6. t # "END" /\ t \notin next_item \cup next_action \cup next_action_sample
  BY <1>3, SMT DEF next_item, next_action, next_action_sample
<1> QED
  BY <1>5, <1>6, PlainToken, Zenon DEF Fits, KindOf

(* Every token a line may go on with writes where it should; the line ends *)
(* after a command that can be dispatched.                                 *)
LEMMA SituationFits ==
  ASSUME Typed, phase = "reading", Situation, NEW t \in Expected
  PROVE  Fits(t) /\ (t = "END" => Len(next) <= 1 /\ Dispatched)
<1>1. CASE AtEnd
  <2>1. Expected = {}
    BY <1>1, Zenon DEF AtEnd, Expected
  <2> QED
    BY <2>1
<1>2. ASSUME NEW b \in CommandWords, NEW m \in 1..5, AtCommand(b, m)
      PROVE  Fits(t) /\ (t = "END" => Len(next) <= 1 /\ Dispatched)
  BY <1>2, CommandFits, Zenon
<1>3. ASSUME NEW b \in Tokens,
             \/ AtItems(b) \/ AtFields(b, out.data) \/ AtParam(b, out.data)
             \/ AtValue(b, out.data) \/ AtType(b, out.data)
      PROVE  Fits(t) /\ t # "END"
  BY <1>3, ItemsFit, FieldsFit, ParamFits, ValueFits, TypeFits, Zenon
<1>4. CASE AfterPattern
  BY <1>4, PatternEndFits, Zenon
<1>5. ASSUME NEW q \in 0..2, NEW b \in Tokens,
             AtActions(q, b) \/ AtConf(q, b, out.data) \/ AtSetting(q, b, out.data)
      PROVE  Fits(t) /\ t # "END"
  BY <1>5, ActionsFit, ConfFits, SettingFits, Zenon
<1>6. ASSUME NEW q \in 0..2, AtColor(q) \/ AtIndirect(q)
      PROVE  Fits(t) /\ t # "END"
  BY <1>6, ColorFits, IndirectFits, Zenon
<1> QED
  BY <1>1, <1>2, <1>3, <1>4, <1>5, <1>6, Zenon DEF Situation

\* A line begins at one of the two entries of the grammar.
Start ==
  \E entry \in {"ZERO", "START_SET"} :
    /\ curr = entry
    /\ next = <<[by |-> entry, n |-> 1]>>
    /\ args = <<>>
    /\ object = "none" /\ objdata = "none"
    /\ out = EmptyBuffer
    /\ phase = "reading"

(* The only list of a token, over nothing.                                 *)
LEMMA StackOfOne ==
  ASSUME NEW b
  PROVE  Stack(0, b, 1) = <<[by |-> b, n |-> 1]>>
<1>1. 0 + 1 = 1 /\ 0 \in Nat /\ 1 \in Nat
  BY SMT
<1>2. \A i \in 1 .. 1 : ~(i <= 0) /\ i - 0 = i /\ i = 1
  BY SMT
<1>3. Stack(0, b, 1) = [i \in 1 .. 1 |-> [by |-> b, n |-> 1]]
  BY <1>1, <1>2, Zenon DEF Stack
<1>4. <<[by |-> b, n |-> 1]>> = [i \in 1 .. 1 |-> [by |-> b, n |-> 1]]
  BY SMT
<1> QED
  BY <1>3, <1>4

(* A line begins before its first word.                                    *)
LEMMA FirstSituation == Start => IInv
<1> SUFFICES ASSUME NEW entry \in {"ZERO", "START_SET"},
                    curr = entry, next = <<[by |-> entry, n |-> 1]>>, args = <<>>,
                    object = "none", objdata = "none", out = EmptyBuffer, phase = "reading"
             PROVE  IInv
  BY Zenon DEF Start
<1>1. entry \in Tokens /\ entry \in CommandWords
  <2>1. "ZERO" \in common_tokens_names /\ "START_SET" \in common_tokens_names
    BY Zenon DEF common_tokens_names
  <2>2. entry \in Tokens
    BY <2>1, RowsApart, Zenon DEF Tokens
  <2> QED
    BY <2>2, Zenon DEF CommandWords
<1>2. Len(token_list[entry].next) = 1 /\ Len(token_list[entry].args) = 0
  BY CommandRows, SMT DEF Word, Token
<1>3. EmptyBuffer = Bare("ZERO", "none")
  BY Zenon DEF EmptyBuffer, Bare
<1>4. 1 \in 1..5 /\ 1 \in 1..1 /\ 0 \in Nat /\ 0 \in 0..1 /\ 0 \in 0..3 /\ ~(1 - 1 < 0)
  BY SMT
<1>5. [by |-> entry, n |-> 1] \in OnStack
  <2>1. 1 \in 0..CTX_STACK_SIZE
    BY StackAssumption, SMT
  <2> QED
    BY <1>1, <2>1, SMT DEF OnStack, Tokens
<1>6. Typed
  <2>1. next \in Seq(OnStack) /\ Len(next) <= CTX_STACK_SIZE
    BY <1>5, StackAssumption, SMT
  <2>2. args \in Seq(OnStack) /\ Len(args) <= CTX_STACK_SIZE
    BY StackAssumption, SMT
  <2>3. EmptyBuffer \in Buffer
    <3>1. "ZERO" \in Tokens
      BY RowsApart, Zenon DEF Tokens, common_tokens_names
    <3>2. "none" \in Structs
      BY StructsNamed, Zenon
    <3> QED
      BY <1>4, <3>1, <3>2, Zenon DEF EmptyBuffer, Buffer
  <2>4. object \in Structs /\ objdata \in Structs
    BY StructsNamed, Zenon
  <2> QED
    BY <1>1, <2>1, <2>2, <2>3, <2>4, Zenon DEF Typed
<1>7. Ends
  BY <1>3, <1>4, BareEnds, Zenon DEF Ends
<1>8. Grammatical
  <2>1. \A i \in DOMAIN next : next[i] = [by |-> entry, n |-> 1]
    BY SMT
  <2>2. 1 \in DOMAIN token_list[entry].next
    BY <1>1, <1>2, <1>4, WellFormedTable, SMT DEF WellFormed
  <2>3. [by |-> entry, n |-> 1].by = entry /\ [by |-> entry, n |-> 1].n = 1
    BY SMT
  <2> QED
    BY <2>1, <2>2, <2>3, Zenon DEF Grammatical, Named
<1>9. AtCommand(entry, 1)
  <2>1. next = Stack(0, entry, 1)
    BY StackOfOne, Zenon
  <2>2. /\ ObjectOf(entry) = "none" /\ CommandsOf(entry) = {"ZERO"} /\ AreaOf(entry) = "none"
        /\ entry # "ITEM_POL_POLICY"
    BY SMT DEF ObjectOf, CommandsOf, AreaOf, IndirectAttrs, SetRaw, PolicyWords, vc_attributes,
       vc_tunnels, next_vc_attr
  <2>3. out = Bare("ZERO", AreaOf(entry))
    BY <1>3, <2>2, Zenon
  <2> QED
    BY <1>2, <1>4, <2>1, <2>2, <2>3, Zenon DEF AtCommand
<1>10. Situation
  BY <1>1, <1>4, <1>9, Zenon DEF Situation
<1>11. phase # "done"
  BY Zenon
<1> QED
  BY <1>6, <1>7, <1>8, <1>10, <1>11, Zenon DEF IInv

(* Where nothing more is expected, the command can be dispatched.          *)
LEMMA NothingExpected ==
  ASSUME Situation, next = <<>>
  PROVE  curr = "END_SET" \/ Dispatched
<1>0. 0 \in Nat /\ 1 \in Nat /\ 2 \in Nat /\ 3 \in Nat /\ 1 > 0 /\ 2 > 0 /\ 3 > 0
  BY SMT
<1>1. \A q \in 0..2 : q \in Nat /\ q >= 0
  BY SMT
<1>2. ASSUME NEW q \in Nat, NEW m \in Nat, NEW b, m > 0
      PROVE  next # Stack(q, b, m)
  BY <1>2, StackFacts, ZenonT(60)
<1>3. CASE AtEnd
  BY <1>3, Zenon DEF AtEnd
<1>4. ASSUME NEW b, NEW m \in 1..5, AtCommand(b, m)
      PROVE  FALSE
  <2>1. m \in Nat /\ m > 0
    BY SMT
  <2> QED
    BY <1>0, <1>2, <1>4, <2>1, Zenon DEF AtCommand
<1>5. ASSUME NEW b, NEW S, AtItems(b) \/ AtFields(b, S) \/ AtParam(b, S) \/ AtValue(b, S) \/ AtType(b, S)
      PROVE  FALSE
  <2>1. <<[by |-> b, n |-> 1], [by |-> b, n |-> 0]>> # <<>>
    BY SMT
  <2> QED
    BY <1>0, <1>2, <1>5, <2>1, Zenon DEF AtItems, AtFields, AtParam, AtValue, AtType
<1>6. CASE AfterPattern
  BY <1>0, <1>2, <1>6, Zenon DEF AfterPattern
<1>7. ASSUME NEW q \in 0..2, NEW b, NEW S, AtActions(q, b) \/ AtConf(q, b, S) \/ AtSetting(q, b, S)
      PROVE  FALSE
  BY <1>0, <1>1, <1>2, <1>7, Zenon DEF AtActions, AtConf, AtSetting
<1>8. ASSUME NEW q \in 0..2, AtColor(q)
      PROVE  FALSE
  <2>1. q \in Nat /\ q > 0 /\ next = Stack(0, "ITEM_POL_POLICY", q)
    BY <1>8, SMT DEF AtColor
  <2> QED
    BY <1>0, <1>2, <2>1, Zenon
<1>9. ASSUME NEW q \in 0..2, AtIndirect(q)
      PROVE  FALSE
  BY <1>0, <1>1, <1>2, <1>9, Zenon DEF AtIndirect
<1> QED
  BY <1>3, <1>4, <1>5, <1>6, <1>7, <1>8, <1>9, Zenon DEF Situation

(* The invariant is kept: a token leads from one situation to another, and *)
(* the end of a line is offered only where the command is complete.        *)
LEMMA InvariantKept ==
  ASSUME "ITEM_CONNTRACK" \in Untyped, IInv, [Next]_vars
  PROVE  IInv'
<1>1. CASE cmd_flow_parse
  <2>1. PICK t \in Expected \ (Untyped \cup {"END"}) : Parse(t, token_list[t])
    BY <1>1, Zenon DEF cmd_flow_parse, Parse
  <2>2. Reads(t)
    BY <2>1, Zenon DEF Reads
  <2>3. Typed /\ Grammatical
    BY Zenon DEF IInv
  <2>4. phase = "reading" /\ Typed' /\ Grammatical'
    BY <2>2, <2>3, ReadsTyped, Zenon
  <2>5. Situation
    BY <2>4, Zenon DEF IInv
  <2>6. Ends' /\ (phase' = "reading" => Situation')
    BY <2>2, <2>3, <2>5, SituationKept, Zenon
  <2>7. phase' # "done"
    BY <2>1, ParsePushes, Zenon DEF Accept, Store, Again, Push
  <2> QED
    BY <2>4, <2>6, <2>7, Zenon DEF IInv
<1>2. CASE EndOfLine
  <2>1. /\ phase = "reading" /\ phase' = "done"
        /\ next = <<>> \/ "END" \in Expected
        /\ UNCHANGED <<curr, next, args, object, objdata, out>>
    BY <1>2, Zenon DEF EndOfLine
  <2>2. Typed /\ Ends /\ Grammatical /\ Situation
    BY <2>1, Zenon DEF IInv
  <2>3. Typed' /\ Ends' /\ Grammatical'
    BY <2>1, <2>2, SMT DEF Typed, Ends, Grammatical
  <2>4. Len(next) <= 1 /\ (curr = "END_SET" \/ Dispatched)
    <3>1. CASE next = <<>>
      <4>1. Len(next) <= 1
        BY <3>1, SMT
      <4> QED
        BY <2>2, <3>1, <4>1, NothingExpected, Zenon
    <3>2. CASE "END" \in Expected
      BY <2>1, <2>2, <3>2, SituationFits, Zenon
    <3> QED
      BY <2>1, <3>1, <3>2
  <2>5. (Len(next) <= 1 /\ (curr = "END_SET" \/ Dispatched))'
    BY <2>1, <2>4, Zenon DEF Dispatched
  <2>6. phase' # "reading"
    BY <2>1, Zenon
  <2> QED
    BY <2>3, <2>5, <2>6, Zenon DEF IInv
<1>3. CASE NextLine
  <2>1. Start'
    BY <1>3, Zenon DEF NextLine, cmd_flow_tok, Start
  <2> QED
    BY <2>1, FirstSituation, PTL
<1>4. CASE UNCHANGED vars
  <2>1. UNCHANGED <<curr, next, args, object, objdata, out, phase>>
    BY <1>4, Zenon DEF vars
  <2>2. Typed' <=> Typed
    BY <2>1, SMT DEF Typed
  <2>3. (Ends' <=> Ends) /\ (Grammatical' <=> Grammatical) /\ (Dispatched' <=> Dispatched)
    BY <2>1, Zenon DEF Ends, Grammatical, Dispatched
  <2>4. \A b, r : Pending(b, r)' <=> Pending(b, r)
    BY <2>1, Zenon DEF Pending
  <2>5. \A b, m : AtCommand(b, m)' <=> AtCommand(b, m)
    BY <2>1, <2>4, Zenon DEF AtCommand
  <2>6. InPattern' <=> InPattern
    BY <2>1, Zenon DEF InPattern
  <2>7. \A b : AtItems(b)' <=> AtItems(b)
    BY <2>1, <2>6, Zenon DEF AtItems
  <2>9. \A q : InActions(q)' <=> InActions(q)
    BY <2>1, Zenon DEF InActions
  <2>10. \A q, b : AtActions(q, b)' <=> AtActions(q, b)
    BY <2>1, <2>9, Zenon DEF AtActions
  <2>11. \A q : (AtColor(q)' <=> AtColor(q)) /\ (AtIndirect(q)' <=> AtIndirect(q))
    BY <2>1, <2>4, <2>9, Zenon DEF AtColor, AtIndirect
  <2>12. (AfterPattern' <=> AfterPattern) /\ (AtEnd' <=> AtEnd)
    BY <2>1, <2>3, Zenon DEF AfterPattern, AtEnd
  <2>13. Situation => Situation'
    <3> SUFFICES ASSUME Situation PROVE Situation'
      OBVIOUS
    <3>1. CASE AtEnd \/ AfterPattern
      BY <2>12, <3>1, Zenon DEF Situation
    <3>2. ASSUME NEW b \in CommandWords, NEW m \in 1..5, AtCommand(b, m)
          PROVE  Situation'
      BY <2>5, <3>2, Zenon DEF Situation
    <3>3. ASSUME NEW b \in Tokens,
                 \/ AtItems(b) \/ AtFields(b, out.data) \/ AtParam(b, out.data)
                 \/ AtValue(b, out.data) \/ AtType(b, out.data)
          PROVE  Situation'
      <4>1. CASE AtItems(b)
        BY <2>7, <4>1, Zenon DEF Situation
      <4>2. CASE AtFields(b, out.data)
        BY <2>1, <2>6, <4>2, Zenon DEF Situation, ItemData, AtFields
      <4>3. CASE AtParam(b, out.data)
        BY <2>1, <2>4, <2>6, <4>3, Zenon DEF Situation, ItemData, AtParam
      <4>4. CASE AtValue(b, out.data)
        BY <2>1, <2>4, <2>6, <4>4, Zenon DEF Situation, ItemData, AtValue
      <4>5. CASE AtType(b, out.data)
        BY <2>1, <2>4, <2>6, <4>5, Zenon DEF Situation, ItemData, AtType
      <4> QED
        BY <3>3, <4>1, <4>2, <4>3, <4>4, <4>5
    <3>4. ASSUME NEW q \in 0..2, NEW b \in Tokens,
                 AtActions(q, b) \/ AtConf(q, b, out.data) \/ AtSetting(q, b, out.data)
          PROVE  Situation'
      <4>1. CASE AtActions(q, b)
        BY <2>10, <4>1, Zenon DEF Situation
      <4>2. CASE AtConf(q, b, out.data)
        BY <2>1, <2>9, <4>2, Zenon DEF Situation, AtConf, ActionData, ObjectFits
      <4>3. CASE AtSetting(q, b, out.data)
        BY <2>1, <2>4, <2>9, <4>3, Zenon DEF Situation, AtSetting, ActionData, ObjectFits
      <4> QED
        BY <3>4, <4>1, <4>2, <4>3
    <3>5. ASSUME NEW q \in 0..2, AtColor(q) \/ AtIndirect(q)
          PROVE  Situation'
      BY <2>11, <3>5, Zenon DEF Situation
    <3> QED
      BY <3>1, <3>2, <3>3, <3>4, <3>5, Zenon DEF Situation
  <2> QED
    BY <2>1, <2>2, <2>3, <2>13, Zenon DEF IInv
<1> QED
  BY <1>1, <1>2, <1>3, <1>4, Zenon DEF Next

-----------------------------------------------------------------------------
(* Every prefix of a line can be completed.                                *)

\* The tokens all of whose lists offer one of closing.
Meets(lists, closing) == \A i \in DOMAIN lists : lists[i] \cap closing # {}

\* The tokens of Closers, by the number of rounds they take.
Closers_0 == {"END"}
Closers_1 ==
  Closers_0 \cup
    {"END_SET", "COMMON_INTEGER", "COMMON_UNSIGNED", "COMMON_RULE_ID", "COMMON_GROUP_ID",
     "COMMON_PRIORITY_LEVEL", "COMMON_INDIRECT_ACTION_ID", "COMMON_POLICY_ID",
     "COMMON_FLEX_TOKEN", "COMMON_PREFIX", "COMMON_BOOLEAN", "COMMON_STRING", "COMMON_HEX",
     "COMMON_FILE_PATH", "COMMON_MAC_ADDR", "COMMON_IPV4_ADDR", "COMMON_IPV6_ADDR",
     "COMMON_PORT_ID", "COMMON_FLEX_HANDLE", "DUMP_ALL", "QUERY_ACTION", "ITEM_PARAM_IS",
     "ACTION_END", "ACTION_RSS_FUNC_DEFAULT", "ACTION_RSS_TYPE", "ACTION_RSS_QUEUE",
     "ACTION_METER_COLOR_GREEN", "ACTION_MODIFY_FIELD_OP_VALUE",
     "ACTION_MODIFY_FIELD_DST_TYPE_VALUE", "ACTION_MODIFY_FIELD_SRC_TYPE_VALUE"}
Closers_2 ==
  Closers_1 \cup
    {"INDIRECT_ACTION_QUERY", "FLUSH", "FLEX_ITEM_INIT", "TUNNEL_CREATE_TYPE",
     "TUNNEL_DESTROY_ID", "TUNNEL_LIST", "DESTROY_RULE", "ITEM_PATTERN", "ITEM_NEXT",
     "ACTIONS", "ACTION_NEXT", "SET_RAW_INDEX", "INDIRECT_ACTION_DESTROY_ID",
     "INDIRECT_ACTION_SPEC", "ACTION_POL_Y", "ACTION_POL_R", "ACTION_POL_G"}
Closers_3 ==
  Closers_2 \cup
    {"FLOW", "ITEM_ECPRI_COMMON_TYPE_IQ_DATA", "ITEM_INTEGRITY_LEVEL",
     "ITEM_L2TPV2_COMMON_TYPE_DATA_L", "ACTION_RAW_ENCAP_INDEX_VALUE",
     "ACTION_RAW_DECAP_INDEX_VALUE", "ACTION_MODIFY_FIELD_WIDTH", "SET_RAW_ENCAP",
     "SET_SAMPLE_INDEX", "ACTION_SAMPLE_INDEX_VALUE", "INDIRECT_ACTION_ID2PTR",
     "ITEM_POL_POLICY"}
Closers_4 ==
  Closers_3 \cup
    {"ITEM_ECPRI_COMMON_TYPE", "ITEM_L2TPV2_COMMON_TYPE", "ACTION_MODIFY_FIELD_SRC_TYPE",
     "SET", "ITEM_POL_METER"}
Closers_5 ==
  Closers_4 \cup
    {"ACTION_MODIFY_FIELD_DST_TYPE", "ITEM_POL_PORT"}
Closers_6 ==
  Closers_5 \cup
    {"ACTION_MODIFY_FIELD_OP"}

(* Sequences of up to five lists.                                          *)
LEMMA MeetsLists ==
  ASSUME NEW C
  PROVE  /\ Meets(<<>>, C)
         /\ \A K, k : k \in K /\ k \in C => Meets(<<K>>, C)
         /\ \A K, L, k, l : k \in K /\ l \in L /\ k \in C /\ l \in C => Meets(<<K, L>>, C)
         /\ \A K, L, M, k, l, m :
              k \in K /\ l \in L /\ m \in M /\ k \in C /\ l \in C /\ m \in C => Meets(<<K, L, M>>, C)
         /\ \A K, L, M, N, O :
              /\ K \cap C # {} /\ L \cap C # {} /\ M \cap C # {} /\ N \cap C # {} /\ O \cap C # {}
              => Meets(<<K, L, M, N, O>>, C)
<1>1. Meets(<<>>, C)
  BY SMT DEF Meets
<1>2. \A K, k : k \in K /\ k \in C => Meets(<<K>>, C)
  BY SMT DEF Meets
<1>3. \A K, L, k, l : k \in K /\ l \in L /\ k \in C /\ l \in C => Meets(<<K, L>>, C)
  BY SMT DEF Meets
<1>4. \A K, L, M, k, l, m :
        k \in K /\ l \in L /\ m \in M /\ k \in C /\ l \in C /\ m \in C => Meets(<<K, L, M>>, C)
  BY SMT DEF Meets
<1>5. \A K, L, M, N, O :
        /\ K \cap C # {} /\ L \cap C # {} /\ M \cap C # {} /\ N \cap C # {} /\ O \cap C # {}
        => Meets(<<K, L, M, N, O>>, C)
  BY SMT DEF Meets
<1> QED
  BY <1>1, <1>2, <1>3, <1>4, <1>5, Zenon

(* The tokens that take one round.                                         *)
LEMMA ClosersLayer_1 ==
  \A t \in Closers_1 \ Closers_0 : t \in Tokens /\ Meets(token_list[t].next, Closers_0)
<1>1. \A t \in {"END_SET", "COMMON_INTEGER", "COMMON_UNSIGNED", "COMMON_RULE_ID",
          "COMMON_GROUP_ID", "COMMON_PRIORITY_LEVEL", "COMMON_INDIRECT_ACTION_ID",
          "COMMON_POLICY_ID", "COMMON_FLEX_TOKEN", "COMMON_PREFIX", "COMMON_BOOLEAN",
          "COMMON_STRING", "COMMON_HEX", "COMMON_FILE_PATH", "COMMON_MAC_ADDR",
          "COMMON_IPV4_ADDR", "COMMON_IPV6_ADDR", "COMMON_PORT_ID", "COMMON_FLEX_HANDLE"} :
          t \in Tokens /\ Meets(token_list[t].next, Closers_0)
  <2>1. \A t \in common_tokens_names : t \in Tokens /\ RowOf(t, common_tokens)
    BY RowsApart, Zenon DEF Tokens
  <2>2. /\ token_list["END_SET"].next = <<>>
        /\ token_list["COMMON_INTEGER"].next = <<>>
        /\ token_list["COMMON_UNSIGNED"].next = <<>>
        /\ token_list["COMMON_RULE_ID"].next = <<>>
        /\ token_list["COMMON_GROUP_ID"].next = <<>>
        /\ token_list["COMMON_PRIORITY_LEVEL"].next = <<>>
        /\ token_list["COMMON_INDIRECT_ACTION_ID"].next = <<>>
        /\ token_list["COMMON_POLICY_ID"].next = <<>>
        /\ token_list["COMMON_FLEX_TOKEN"].next = <<>>
        /\ token_list["COMMON_PREFIX"].next = <<>>
        /\ token_list["COMMON_BOOLEAN"].next = <<>>
        /\ token_list["COMMON_STRING"].next = <<>>
        /\ token_list["COMMON_HEX"].next = <<>>
        /\ token_list["COMMON_FILE_PATH"].next = <<>>
        /\ token_list["COMMON_MAC_ADDR"].next = <<>>
        /\ token_list["COMMON_IPV4_ADDR"].next = <<>>
        /\ token_list["COMMON_IPV6_ADDR"].next = <<>>
        /\ token_list["COMMON_PORT_ID"].next = <<>>
        /\ token_list["COMMON_FLEX_HANDLE"].next = <<>>
    BY <2>1, SMT DEF common_tokens, common_tokens_names, RowOf, Each, Token, Word, Call
  <2>3. {"END_SET", "COMMON_INTEGER", "COMMON_UNSIGNED", "COMMON_RULE_ID", "COMMON_GROUP_ID", "COMMON_PRIORITY_LEVEL", "COMMON_INDIRECT_ACTION_ID", "COMMON_POLICY_ID", "COMMON_FLEX_TOKEN", "COMMON_PREFIX", "COMMON_BOOLEAN", "COMMON_STRING", "COMMON_HEX", "COMMON_FILE_PATH", "COMMON_MAC_ADDR", "COMMON_IPV4_ADDR", "COMMON_IPV6_ADDR", "COMMON_PORT_ID", "COMMON_FLEX_HANDLE"} \subseteq common_tokens_names
    BY Zenon DEF common_tokens_names
  <2> QED
    BY <2>1, <2>2, <2>3, MeetsLists, Zenon
<1>2. \A t \in {"DUMP_ALL", "QUERY_ACTION"} : t \in Tokens /\ Meets(token_list[t].next,
          Closers_0)
  <2>1. \A t \in flex_tunnel_tokens_names : t \in Tokens /\ RowOf(t, flex_tunnel_tokens)
    BY RowsApart, Zenon DEF Tokens
  <2>2. /\ token_list["DUMP_ALL"].next = <<next_dump_attr>>
        /\ token_list["QUERY_ACTION"].next = <<>>
    BY <2>1, SMT DEF flex_tunnel_tokens, flex_tunnel_tokens_names, RowOf, Each, Token, Call
  <2>3. /\ "END" \in next_dump_attr
    BY Zenon DEF next_dump_attr
  <2>4. {"END"} \subseteq Closers_0
    BY Zenon DEF Closers_0
  <2>5. /\ Meets(<<next_dump_attr>>, Closers_0)
        /\ Meets(<<>>, Closers_0)
    BY <2>3, <2>4, MeetsLists, Zenon
  <2>6. {"DUMP_ALL", "QUERY_ACTION"} \subseteq flex_tunnel_tokens_names
    BY Zenon DEF flex_tunnel_tokens_names
  <2> QED
    BY <2>1, <2>2, <2>5, <2>6, Zenon
<1>3. \A t \in {"ITEM_PARAM_IS"} : t \in Tokens /\ Meets(token_list[t].next, Closers_0)
  <2>1. \A t \in attr_tokens_names : t \in Tokens /\ RowOf(t, attr_tokens)
    BY RowsApart, Zenon DEF Tokens
  <2>2. /\ token_list["ITEM_PARAM_IS"].next = <<>>
    BY <2>1, SMT DEF attr_tokens, attr_tokens_names, RowOf, Each, Token, Call
  <2>3. {"ITEM_PARAM_IS"} \subseteq attr_tokens_names
    BY Zenon DEF attr_tokens_names
  <2> QED
    BY <2>1, <2>2, <2>3, MeetsLists, Zenon
<1>4. \A t \in {"ACTION_END"} : t \in Tokens /\ Meets(token_list[t].next, Closers_0)
  <2>1. \A t \in actions_tokens_names : t \in Tokens /\ RowOf(t, actions_tokens)
    BY RowsApart, Zenon DEF Tokens
  <2>2. /\ token_list["ACTION_END"].next = <<>>
    BY <2>1, SMT DEF actions_tokens, actions_tokens_names, RowOf, Each, Token, Word, Call, Place, BareAction, Conf
  <2>3. {"ACTION_END"} \subseteq actions_tokens_names
    BY Zenon DEF actions_tokens_names
  <2> QED
    BY <2>1, <2>2, <2>3, MeetsLists, Zenon
<1>5. \A t \in {"ACTION_RSS_FUNC_DEFAULT", "ACTION_RSS_TYPE", "ACTION_RSS_QUEUE"} : t \in
          Tokens /\ Meets(token_list[t].next, Closers_0)
  <2>1. \A t \in rss_tokens_names : t \in Tokens /\ RowOf(t, rss_tokens)
    BY RowsApart, Zenon DEF Tokens
  <2>2. /\ token_list["ACTION_RSS_FUNC_DEFAULT"].next = <<>>
        /\ token_list["ACTION_RSS_TYPE"].next = <<>>
        /\ token_list["ACTION_RSS_QUEUE"].next = <<>>
    BY <2>1, SMT DEF rss_tokens, rss_tokens_names, RowOf, Each, Token, Word, Call
  <2>3. {"ACTION_RSS_FUNC_DEFAULT", "ACTION_RSS_TYPE", "ACTION_RSS_QUEUE"} \subseteq rss_tokens_names
    BY Zenon DEF rss_tokens_names
  <2> QED
    BY <2>1, <2>2, <2>3, MeetsLists, Zenon
<1>6. \A t \in {"ACTION_METER_COLOR_GREEN"} : t \in Tokens /\ Meets(token_list[t].next,
          Closers_0)
  <2>1. \A t \in port_meter_actions_names : t \in Tokens /\ RowOf(t, port_meter_actions)
    BY RowsApart, Zenon DEF Tokens
  <2>2. /\ token_list["ACTION_METER_COLOR_GREEN"].next = <<>>
    BY <2>1, SMT DEF port_meter_actions, port_meter_actions_names, RowOf, Each, Token, Word, Call, Place, BareAction, Conf
  <2>3. {"ACTION_METER_COLOR_GREEN"} \subseteq port_meter_actions_names
    BY Zenon DEF port_meter_actions_names
  <2> QED
    BY <2>1, <2>2, <2>3, MeetsLists, Zenon
<1>7. \A t \in {"ACTION_MODIFY_FIELD_OP_VALUE", "ACTION_MODIFY_FIELD_DST_TYPE_VALUE",
          "ACTION_MODIFY_FIELD_SRC_TYPE_VALUE"} : t \in Tokens /\ Meets(token_list[t].next,
          Closers_0)
  <2>1. \A t \in modify_field_actions_names : t \in Tokens /\ RowOf(t, modify_field_actions)
    BY RowsApart, Zenon DEF Tokens
  <2>2. /\ token_list["ACTION_MODIFY_FIELD_OP_VALUE"].next = <<>>
        /\ token_list["ACTION_MODIFY_FIELD_DST_TYPE_VALUE"].next = <<>>
        /\ token_list["ACTION_MODIFY_FIELD_SRC_TYPE_VALUE"].next = <<>>
    BY <2>1, SMT DEF modify_field_actions, modify_field_actions_names, RowOf, Each, Token, Call, Place, Conf
  <2>3. {"ACTION_MODIFY_FIELD_OP_VALUE", "ACTION_MODIFY_FIELD_DST_TYPE_VALUE", "ACTION_MODIFY_FIELD_SRC_TYPE_VALUE"} \subseteq modify_field_actions_names
    BY Zenon DEF modify_field_actions_names
  <2> QED
    BY <2>1, <2>2, <2>3, MeetsLists, Zenon
<1> QED
  BY <1>1, <1>2, <1>3, <1>4, <1>5, <1>6, <1>7, ZenonT(60) DEF Closers_1

(* The tokens that take two.                                               *)
LEMMA ClosersLayer_2 ==
  \A t \in Closers_2 \ Closers_1 : t \in Tokens /\ Meets(token_list[t].next, Closers_1)
<1>1. \A t \in {"INDIRECT_ACTION_QUERY", "FLUSH"} : t \in Tokens /\
          Meets(token_list[t].next, Closers_1)
  <2>1. \A t \in command_tokens_names : t \in Tokens /\ RowOf(t, command_tokens)
    BY RowsApart, Zenon DEF Tokens
  <2>2. /\ token_list["INDIRECT_ACTION_QUERY"].next = <<NEXT_ENTRY("END"), NEXT_ENTRY("COMMON_INDIRECT_ACTION_ID")>>
        /\ token_list["FLUSH"].next = <<NEXT_ENTRY("COMMON_PORT_ID")>>
    BY <2>1, SMT DEF command_tokens, command_tokens_names, RowOf, Each, Token, Call
  <2>3. /\ "END" \in NEXT_ENTRY("END")
        /\ "COMMON_INDIRECT_ACTION_ID" \in NEXT_ENTRY("COMMON_INDIRECT_ACTION_ID")
        /\ "COMMON_PORT_ID" \in NEXT_ENTRY("COMMON_PORT_ID")
    BY Zenon DEF NEXT_ENTRY
  <2>4. {"END", "COMMON_INDIRECT_ACTION_ID", "COMMON_PORT_ID"} \subseteq Closers_1
    BY Zenon DEF Closers_0, Closers_1
  <2>5. /\ Meets(<<NEXT_ENTRY("END"), NEXT_ENTRY("COMMON_INDIRECT_ACTION_ID")>>, Closers_1)
        /\ Meets(<<NEXT_ENTRY("COMMON_PORT_ID")>>, Closers_1)
    BY <2>3, <2>4, MeetsLists, Zenon
  <2>6. {"INDIRECT_ACTION_QUERY", "FLUSH"} \subseteq command_tokens_names
    BY Zenon DEF command_tokens_names
  <2> QED
    BY <2>1, <2>2, <2>5, <2>6, Zenon
<1>2. \A t \in {"FLEX_ITEM_INIT", "TUNNEL_CREATE_TYPE", "TUNNEL_DESTROY_ID", "TUNNEL_LIST",
          "DESTROY_RULE"} : t \in Tokens /\ Meets(token_list[t].next, Closers_1)
  <2>1. \A t \in flex_tunnel_tokens_names : t \in Tokens /\ RowOf(t, flex_tunnel_tokens)
    BY RowsApart, Zenon DEF Tokens
  <2>2. /\ token_list["FLEX_ITEM_INIT"].next = <<NEXT_ENTRY("COMMON_FLEX_TOKEN"), NEXT_ENTRY("COMMON_PORT_ID")>>
        /\ token_list["TUNNEL_CREATE_TYPE"].next = <<NEXT_ENTRY("COMMON_FILE_PATH")>>
        /\ token_list["TUNNEL_DESTROY_ID"].next = <<NEXT_ENTRY("COMMON_UNSIGNED")>>
        /\ token_list["TUNNEL_LIST"].next = <<NEXT_ENTRY("COMMON_PORT_ID")>>
        /\ token_list["DESTROY_RULE"].next = <<next_destroy_attr, NEXT_ENTRY("COMMON_RULE_ID")>>
    BY <2>1, SMT DEF flex_tunnel_tokens, flex_tunnel_tokens_names, RowOf, Each, Token, Call
  <2>3. /\ "COMMON_FLEX_TOKEN" \in NEXT_ENTRY("COMMON_FLEX_TOKEN")
        /\ "COMMON_PORT_ID" \in NEXT_ENTRY("COMMON_PORT_ID")
        /\ "COMMON_FILE_PATH" \in NEXT_ENTRY("COMMON_FILE_PATH")
        /\ "COMMON_UNSIGNED" \in NEXT_ENTRY("COMMON_UNSIGNED")
        /\ "END" \in next_destroy_attr
        /\ "COMMON_RULE_ID" \in NEXT_ENTRY("COMMON_RULE_ID")
    BY Zenon DEF NEXT_ENTRY, next_destroy_attr
  <2>4. {"COMMON_FLEX_TOKEN", "COMMON_PORT_ID", "COMMON_FILE_PATH", "COMMON_UNSIGNED", "END", "COMMON_RULE_ID"} \subseteq Closers_1
    BY Zenon DEF Closers_0, Closers_1
  <2>5. /\ Meets(<<NEXT_ENTRY("COMMON_FLEX_TOKEN"), NEXT_ENTRY("COMMON_PORT_ID")>>, Closers_1)
        /\ Meets(<<NEXT_ENTRY("COMMON_FILE_PATH")>>, Closers_1)
        /\ Meets(<<NEXT_ENTRY("COMMON_UNSIGNED")>>, Closers_1)
        /\ Meets(<<NEXT_ENTRY("COMMON_PORT_ID")>>, Closers_1)
        /\ Meets(<<next_destroy_attr, NEXT_ENTRY("COMMON_RULE_ID")>>, Closers_1)
    BY <2>3, <2>4, MeetsLists, Zenon
  <2>6. {"FLEX_ITEM_INIT", "TUNNEL_CREATE_TYPE", "TUNNEL_DESTROY_ID", "TUNNEL_LIST", "DESTROY_RULE"} \subseteq flex_tunnel_tokens_names
    BY Zenon DEF flex_tunnel_tokens_names
  <2> QED
    BY <2>1, <2>2, <2>5, <2>6, Zenon
<1>3. \A t \in {"ITEM_PATTERN"} : t \in Tokens /\ Meets(token_list[t].next, Closers_1)
  <2>1. \A t \in attr_tokens_names : t \in Tokens /\ RowOf(t, attr_tokens)
    BY RowsApart, Zenon DEF Tokens
  <2>2. /\ token_list["ITEM_PATTERN"].next = <<next_item>>
    BY <2>1, SMT DEF attr_tokens, attr_tokens_names, RowOf, Each, Token, Call
  <2>3. /\ "END_SET" \in next_item
    BY Zenon DEF next_item
  <2>4. {"END_SET"} \subseteq Closers_1
    BY Zenon DEF Closers_0, Closers_1
  <2>5. /\ Meets(<<next_item>>, Closers_1)
    BY <2>3, <2>4, MeetsLists, Zenon
  <2>6. {"ITEM_PATTERN"} \subseteq attr_tokens_names
    BY Zenon DEF attr_tokens_names
  <2> QED
    BY <2>1, <2>2, <2>5, <2>6, Zenon
<1>4. \A t \in {"ITEM_NEXT"} : t \in Tokens /\ Meets(token_list[t].next, Closers_1)
  <2>1. \A t \in pattern_items_names : t \in Tokens /\ RowOf(t, pattern_items)
    BY RowsApart, Zenon DEF Tokens
  <2>2. /\ token_list["ITEM_NEXT"].next = <<next_item>>
    BY <2>1, SMT DEF pattern_items, pattern_items_names, RowOf, Each, Token, Word, Place, BareItem, Field
  <2>3. /\ "END_SET" \in next_item
    BY Zenon DEF next_item
  <2>4. {"END_SET"} \subseteq Closers_1
    BY Zenon DEF Closers_0, Closers_1
  <2>5. /\ Meets(<<next_item>>, Closers_1)
    BY <2>3, <2>4, MeetsLists, Zenon
  <2>6. {"ITEM_NEXT"} \subseteq pattern_items_names
    BY Zenon DEF pattern_items_names
  <2> QED
    BY <2>1, <2>2, <2>5, <2>6, Zenon
<1>5. \A t \in {"ACTIONS", "ACTION_NEXT"} : t \in Tokens /\ Meets(token_list[t].next,
          Closers_1)
  <2>1. \A t \in actions_tokens_names : t \in Tokens /\ RowOf(t, actions_tokens)
    BY RowsApart, Zenon DEF Tokens
  <2>2. /\ token_list["ACTIONS"].next = <<next_action>>
        /\ token_list["ACTION_NEXT"].next = <<next_action>>
    BY <2>1, SMT DEF actions_tokens, actions_tokens_names, RowOf, Each, Token, Word, Call, Place, BareAction, Conf
  <2>3. /\ "ACTION_END" \in next_action
    BY Zenon DEF next_action
  <2>4. {"ACTION_END"} \subseteq Closers_1
    BY Zenon DEF Closers_0, Closers_1
  <2>5. /\ Meets(<<next_action>>, Closers_1)
    BY <2>3, <2>4, MeetsLists, Zenon
  <2>6. {"ACTIONS", "ACTION_NEXT"} \subseteq actions_tokens_names
    BY Zenon DEF actions_tokens_names
  <2> QED
    BY <2>1, <2>2, <2>5, <2>6, Zenon
<1>6. \A t \in {"SET_RAW_INDEX"} : t \in Tokens /\ Meets(token_list[t].next, Closers_1)
  <2>1. \A t \in set_tokens_names : t \in Tokens /\ RowOf(t, set_tokens)
    BY RowsApart, Zenon DEF Tokens
  <2>2. /\ token_list["SET_RAW_INDEX"].next = <<next_item>>
    BY <2>1, SMT DEF set_tokens, set_tokens_names, RowOf, Each, Token, Call, Place, Conf
  <2>3. /\ "END_SET" \in next_item
    BY Zenon DEF next_item
  <2>4. {"END_SET"} \subseteq Closers_1
    BY Zenon DEF Closers_0, Closers_1
  <2>5. /\ Meets(<<next_item>>, Closers_1)
    BY <2>3, <2>4, MeetsLists, Zenon
  <2>6. {"SET_RAW_INDEX"} \subseteq set_tokens_names
    BY Zenon DEF set_tokens_names
  <2> QED
    BY <2>1, <2>2, <2>5, <2>6, Zenon
<1>7. \A t \in {"INDIRECT_ACTION_DESTROY_ID", "INDIRECT_ACTION_SPEC", "ACTION_POL_Y",
          "ACTION_POL_R", "ACTION_POL_G"} : t \in Tokens /\ Meets(token_list[t].next,
          Closers_1)
  <2>1. \A t \in indirect_policy_tokens_names : t \in Tokens /\ RowOf(t, indirect_policy_tokens)
    BY RowsApart, Zenon DEF Tokens
  <2>2. /\ token_list["INDIRECT_ACTION_DESTROY_ID"].next = <<next_ia_destroy_attr, NEXT_ENTRY("COMMON_INDIRECT_ACTION_ID")>>
        /\ token_list["INDIRECT_ACTION_SPEC"].next = <<next_action>>
        /\ token_list["ACTION_POL_Y"].next = <<next_action>>
        /\ token_list["ACTION_POL_R"].next = <<next_action>>
        /\ token_list["ACTION_POL_G"].next = <<next_action>>
    BY <2>1, SMT DEF indirect_policy_tokens, indirect_policy_tokens_names, RowOf, Each, Token, Word, Call
  <2>3. /\ "END" \in next_ia_destroy_attr
        /\ "COMMON_INDIRECT_ACTION_ID" \in NEXT_ENTRY("COMMON_INDIRECT_ACTION_ID")
        /\ "ACTION_END" \in next_action
    BY Zenon DEF next_ia_destroy_attr, NEXT_ENTRY, next_action
  <2>4. {"END", "COMMON_INDIRECT_ACTION_ID", "ACTION_END"} \subseteq Closers_1
    BY Zenon DEF Closers_0, Closers_1
  <2>5. /\ Meets(<<next_ia_destroy_attr, NEXT_ENTRY("COMMON_INDIRECT_ACTION_ID")>>, Closers_1)
        /\ Meets(<<next_action>>, Closers_1)
    BY <2>3, <2>4, MeetsLists, Zenon
  <2>6. {"INDIRECT_ACTION_DESTROY_ID", "INDIRECT_ACTION_SPEC", "ACTION_POL_Y", "ACTION_POL_R", "ACTION_POL_G"} \subseteq indirect_policy_tokens_names
    BY Zenon DEF indirect_policy_tokens_names
  <2> QED
    BY <2>1, <2>2, <2>5, <2>6, Zenon
<1> QED
  BY <1>1, <1>2, <1>3, <1>4, <1>5, <1>6, <1>7, Zenon DEF Closers_2

(* The tokens that take three.                                             *)
LEMMA ClosersLayer_3 ==
  \A t \in Closers_3 \ Closers_2 : t \in Tokens /\ Meets(token_list[t].next, Closers_2)
<1>1. \A t \in {"FLOW"} : t \in Tokens /\ Meets(token_list[t].next, Closers_2)
  <2>1. \A t \in command_tokens_names : t \in Tokens /\ RowOf(t, command_tokens)
    BY RowsApart, Zenon DEF Tokens
  <2>2. /\ token_list["FLOW"].next = <<flow_keywords>>
    BY <2>1, SMT DEF command_tokens, command_tokens_names, RowOf, Each, Token, Call
  <2>3. /\ "FLUSH" \in flow_keywords
    BY Zenon DEF flow_keywords
  <2>4. {"FLUSH"} \subseteq Closers_2
    BY Zenon DEF Closers_0, Closers_1, Closers_2
  <2>5. /\ Meets(<<flow_keywords>>, Closers_2)
    BY <2>3, <2>4, MeetsLists, Zenon
  <2>6. {"FLOW"} \subseteq command_tokens_names
    BY Zenon DEF command_tokens_names
  <2> QED
    BY <2>1, <2>2, <2>5, <2>6, Zenon
<1>2. \A t \in {"ITEM_ECPRI_COMMON_TYPE_IQ_DATA"} : t \in Tokens /\
          Meets(token_list[t].next, Closers_2)
  <2>1. \A t \in ecpri_items_names : t \in Tokens /\ RowOf(t, ecpri_items)
    BY RowsApart, Zenon DEF Tokens
  <2>2. /\ token_list["ITEM_ECPRI_COMMON_TYPE_IQ_DATA"].next = <<NEXT_ENTRY_2("ITEM_ECPRI_MSG_IQ_DATA_PCID", "ITEM_NEXT")>>
    BY <2>1, SMT DEF ecpri_items, ecpri_items_names, RowOf, Each, Token, Word, Call, Place, Field
  <2>3. /\ "ITEM_NEXT" \in NEXT_ENTRY_2("ITEM_ECPRI_MSG_IQ_DATA_PCID", "ITEM_NEXT")
    BY Zenon DEF NEXT_ENTRY_2
  <2>4. {"ITEM_NEXT"} \subseteq Closers_2
    BY Zenon DEF Closers_0, Closers_1, Closers_2
  <2>5. /\ Meets(<<NEXT_ENTRY_2("ITEM_ECPRI_MSG_IQ_DATA_PCID", "ITEM_NEXT")>>, Closers_2)
    BY <2>3, <2>4, MeetsLists, Zenon
  <2>6. {"ITEM_ECPRI_COMMON_TYPE_IQ_DATA"} \subseteq ecpri_items_names
    BY Zenon DEF ecpri_items_names
  <2> QED
    BY <2>1, <2>2, <2>5, <2>6, Zenon
<1>3. \A t \in {"ITEM_INTEGRITY_LEVEL"} : t \in Tokens /\ Meets(token_list[t].next,
          Closers_2)
  <2>1. \A t \in option_items_names : t \in Tokens /\ RowOf(t, option_items)
    BY RowsApart, Zenon DEF Tokens
  <2>2. /\ token_list["ITEM_INTEGRITY_LEVEL"].next = <<item_integrity_lv, NEXT_ENTRY("COMMON_UNSIGNED"), item_param>>
    BY <2>1, SMT DEF option_items, option_items_names, RowOf, Each, Token, Place, Field
  <2>3. /\ "ITEM_NEXT" \in item_integrity_lv
        /\ "COMMON_UNSIGNED" \in NEXT_ENTRY("COMMON_UNSIGNED")
        /\ "ITEM_PARAM_IS" \in item_param
    BY Zenon DEF item_integrity_lv, NEXT_ENTRY, item_param
  <2>4. {"ITEM_NEXT", "COMMON_UNSIGNED", "ITEM_PARAM_IS"} \subseteq Closers_2
    BY Zenon DEF Closers_0, Closers_1, Closers_2
  <2>5. /\ Meets(<<item_integrity_lv, NEXT_ENTRY("COMMON_UNSIGNED"), item_param>>, Closers_2)
    BY <2>3, <2>4, MeetsLists, Zenon
  <2>6. {"ITEM_INTEGRITY_LEVEL"} \subseteq option_items_names
    BY Zenon DEF option_items_names
  <2> QED
    BY <2>1, <2>2, <2>5, <2>6, Zenon
<1>4. \A t \in {"ITEM_L2TPV2_COMMON_TYPE_DATA_L"} : t \in Tokens /\
          Meets(token_list[t].next, Closers_2)
  <2>1. \A t \in l2tpv2_items_names : t \in Tokens /\ RowOf(t, l2tpv2_items)
    BY RowsApart, Zenon DEF Tokens
  <2>2. /\ token_list["ITEM_L2TPV2_COMMON_TYPE_DATA_L"].next = <<item_l2tpv2_msg_data_l>>
    BY <2>1, SMT DEF l2tpv2_items, l2tpv2_items_names, RowOf, Each, Token, Word, Call, Place, Field
  <2>3. /\ "ITEM_NEXT" \in item_l2tpv2_msg_data_l
    BY Zenon DEF item_l2tpv2_msg_data_l
  <2>4. {"ITEM_NEXT"} \subseteq Closers_2
    BY Zenon DEF Closers_0, Closers_1, Closers_2
  <2>5. /\ Meets(<<item_l2tpv2_msg_data_l>>, Closers_2)
    BY <2>3, <2>4, MeetsLists, Zenon
  <2>6. {"ITEM_L2TPV2_COMMON_TYPE_DATA_L"} \subseteq l2tpv2_items_names
    BY Zenon DEF l2tpv2_items_names
  <2> QED
    BY <2>1, <2>2, <2>5, <2>6, Zenon
<1>5. \A t \in {"ACTION_RAW_ENCAP_INDEX_VALUE", "ACTION_RAW_DECAP_INDEX_VALUE"} : t \in
          Tokens /\ Meets(token_list[t].next, Closers_2)
  <2>1. \A t \in raw_actions_names : t \in Tokens /\ RowOf(t, raw_actions)
    BY RowsApart, Zenon DEF Tokens
  <2>2. /\ token_list["ACTION_RAW_ENCAP_INDEX_VALUE"].next = <<NEXT_ENTRY("ACTION_NEXT")>>
        /\ token_list["ACTION_RAW_DECAP_INDEX_VALUE"].next = <<NEXT_ENTRY("ACTION_NEXT")>>
    BY <2>1, SMT DEF raw_actions, raw_actions_names, RowOf, Each, Token, Word, Call
  <2>3. /\ "ACTION_NEXT" \in NEXT_ENTRY("ACTION_NEXT")
    BY Zenon DEF NEXT_ENTRY
  <2>4. {"ACTION_NEXT"} \subseteq Closers_2
    BY Zenon DEF Closers_0, Closers_1, Closers_2
  <2>5. /\ Meets(<<NEXT_ENTRY("ACTION_NEXT")>>, Closers_2)
    BY <2>3, <2>4, MeetsLists, Zenon
  <2>6. {"ACTION_RAW_ENCAP_INDEX_VALUE", "ACTION_RAW_DECAP_INDEX_VALUE"} \subseteq raw_actions_names
    BY Zenon DEF raw_actions_names
  <2> QED
    BY <2>1, <2>2, <2>5, <2>6, Zenon
<1>6. \A t \in {"ACTION_MODIFY_FIELD_WIDTH"} : t \in Tokens /\ Meets(token_list[t].next,
          Closers_2)
  <2>1. \A t \in modify_field_actions_names : t \in Tokens /\ RowOf(t, modify_field_actions)
    BY RowsApart, Zenon DEF Tokens
  <2>2. /\ token_list["ACTION_MODIFY_FIELD_WIDTH"].next = <<NEXT_ENTRY("ACTION_NEXT"), NEXT_ENTRY("COMMON_UNSIGNED")>>
    BY <2>1, SMT DEF modify_field_actions, modify_field_actions_names, RowOf, Each, Token, Call, Place, Conf
  <2>3. /\ "ACTION_NEXT" \in NEXT_ENTRY("ACTION_NEXT")
        /\ "COMMON_UNSIGNED" \in NEXT_ENTRY("COMMON_UNSIGNED")
    BY Zenon DEF NEXT_ENTRY
  <2>4. {"ACTION_NEXT", "COMMON_UNSIGNED"} \subseteq Closers_2
    BY Zenon DEF Closers_0, Closers_1, Closers_2
  <2>5. /\ Meets(<<NEXT_ENTRY("ACTION_NEXT"), NEXT_ENTRY("COMMON_UNSIGNED")>>, Closers_2)
    BY <2>3, <2>4, MeetsLists, Zenon
  <2>6. {"ACTION_MODIFY_FIELD_WIDTH"} \subseteq modify_field_actions_names
    BY Zenon DEF modify_field_actions_names
  <2> QED
    BY <2>1, <2>2, <2>5, <2>6, Zenon
<1>7. \A t \in {"SET_RAW_ENCAP", "SET_SAMPLE_INDEX"} : t \in Tokens /\
          Meets(token_list[t].next, Closers_2)
  <2>1. \A t \in set_tokens_names : t \in Tokens /\ RowOf(t, set_tokens)
    BY RowsApart, Zenon DEF Tokens
  <2>2. /\ token_list["SET_RAW_ENCAP"].next = <<next_set_raw>>
        /\ token_list["SET_SAMPLE_INDEX"].next = <<next_action_sample>>
    BY <2>1, SMT DEF set_tokens, set_tokens_names, RowOf, Each, Token, Call, Place, Conf
  <2>3. /\ "SET_RAW_INDEX" \in next_set_raw
        /\ "ACTION_NEXT" \in next_action_sample
    BY Zenon DEF next_set_raw, next_action_sample
  <2>4. {"SET_RAW_INDEX", "ACTION_NEXT"} \subseteq Closers_2
    BY Zenon DEF Closers_0, Closers_1, Closers_2
  <2>5. /\ Meets(<<next_set_raw>>, Closers_2)
        /\ Meets(<<next_action_sample>>, Closers_2)
    BY <2>3, <2>4, MeetsLists, Zenon
  <2>6. {"SET_RAW_ENCAP", "SET_SAMPLE_INDEX"} \subseteq set_tokens_names
    BY Zenon DEF set_tokens_names
  <2> QED
    BY <2>1, <2>2, <2>5, <2>6, Zenon
<1>8. \A t \in {"ACTION_SAMPLE_INDEX_VALUE"} : t \in Tokens /\ Meets(token_list[t].next,
          Closers_2)
  <2>1. \A t \in age_sample_actions_names : t \in Tokens /\ RowOf(t, age_sample_actions)
    BY RowsApart, Zenon DEF Tokens
  <2>2. /\ token_list["ACTION_SAMPLE_INDEX_VALUE"].next = <<NEXT_ENTRY("ACTION_NEXT")>>
    BY <2>1, SMT DEF age_sample_actions, age_sample_actions_names, RowOf, Each, Token, Word, Call, Place, Conf
  <2>3. /\ "ACTION_NEXT" \in NEXT_ENTRY("ACTION_NEXT")
    BY Zenon DEF NEXT_ENTRY
  <2>4. {"ACTION_NEXT"} \subseteq Closers_2
    BY Zenon DEF Closers_0, Closers_1, Closers_2
  <2>5. /\ Meets(<<NEXT_ENTRY("ACTION_NEXT")>>, Closers_2)
    BY <2>3, <2>4, MeetsLists, Zenon
  <2>6. {"ACTION_SAMPLE_INDEX_VALUE"} \subseteq age_sample_actions_names
    BY Zenon DEF age_sample_actions_names
  <2> QED
    BY <2>1, <2>2, <2>5, <2>6, Zenon
<1>9. \A t \in {"INDIRECT_ACTION_ID2PTR", "ITEM_POL_POLICY"} : t \in Tokens /\
          Meets(token_list[t].next, Closers_2)
  <2>1. \A t \in indirect_policy_tokens_names : t \in Tokens /\ RowOf(t, indirect_policy_tokens)
    BY RowsApart, Zenon DEF Tokens
  <2>2. /\ token_list["INDIRECT_ACTION_ID2PTR"].next = <<NEXT_ENTRY("ACTION_NEXT")>>
        /\ token_list["ITEM_POL_POLICY"].next = <<NEXT_ENTRY("ACTION_POL_R"), NEXT_ENTRY("ACTION_POL_Y"), NEXT_ENTRY("ACTION_POL_G"), NEXT_ENTRY("COMMON_POLICY_ID"), NEXT_ENTRY("COMMON_PORT_ID")>>
    BY <2>1, SMT DEF indirect_policy_tokens, indirect_policy_tokens_names, RowOf, Each, Token, Word, Call
  <2>3. /\ "ACTION_NEXT" \in NEXT_ENTRY("ACTION_NEXT")
        /\ "ACTION_POL_R" \in NEXT_ENTRY("ACTION_POL_R")
        /\ "ACTION_POL_Y" \in NEXT_ENTRY("ACTION_POL_Y")
        /\ "ACTION_POL_G" \in NEXT_ENTRY("ACTION_POL_G")
        /\ "COMMON_POLICY_ID" \in NEXT_ENTRY("COMMON_POLICY_ID")
        /\ "COMMON_PORT_ID" \in NEXT_ENTRY("COMMON_PORT_ID")
    BY Zenon DEF NEXT_ENTRY
  <2>4. {"ACTION_NEXT", "ACTION_POL_R", "ACTION_POL_Y", "ACTION_POL_G", "COMMON_POLICY_ID", "COMMON_PORT_ID"} \subseteq Closers_2
    BY Zenon DEF Closers_0, Closers_1, Closers_2
  <2>5. /\ Meets(<<NEXT_ENTRY("ACTION_NEXT")>>, Closers_2)
        /\ Meets(<<NEXT_ENTRY("ACTION_POL_R"), NEXT_ENTRY("ACTION_POL_Y"), NEXT_ENTRY("ACTION_POL_G"), NEXT_ENTRY("COMMON_POLICY_ID"), NEXT_ENTRY("COMMON_PORT_ID")>>, Closers_2)
    <3>1. /\ NEXT_ENTRY("ACTION_POL_R") \cap Closers_2 # {}
          /\ NEXT_ENTRY("ACTION_POL_Y") \cap Closers_2 # {}
          /\ NEXT_ENTRY("ACTION_POL_G") \cap Closers_2 # {}
          /\ NEXT_ENTRY("COMMON_POLICY_ID") \cap Closers_2 # {}
          /\ NEXT_ENTRY("COMMON_PORT_ID") \cap Closers_2 # {}
      BY <2>3, <2>4, Zenon
    <3> QED
      BY <2>3, <2>4, <3>1, MeetsLists, Zenon
  <2>6. {"INDIRECT_ACTION_ID2PTR", "ITEM_POL_POLICY"} \subseteq indirect_policy_tokens_names
    BY Zenon DEF indirect_policy_tokens_names
  <2> QED
    BY <2>1, <2>2, <2>5, <2>6, Zenon
<1> QED
  BY <1>1, <1>2, <1>3, <1>4, <1>5, <1>6, <1>7, <1>8, <1>9, Zenon DEF Closers_3

(* The tokens that take four.                                              *)
LEMMA ClosersLayer_4 ==
  \A t \in Closers_4 \ Closers_3 : t \in Tokens /\ Meets(token_list[t].next, Closers_3)
<1>1. \A t \in {"ITEM_ECPRI_COMMON_TYPE"} : t \in Tokens /\ Meets(token_list[t].next,
          Closers_3)
  <2>1. \A t \in ecpri_items_names : t \in Tokens /\ RowOf(t, ecpri_items)
    BY RowsApart, Zenon DEF Tokens
  <2>2. /\ token_list["ITEM_ECPRI_COMMON_TYPE"].next = <<item_ecpri_common_type>>
    BY <2>1, SMT DEF ecpri_items, ecpri_items_names, RowOf, Each, Token, Word, Call, Place, Field
  <2>3. /\ "ITEM_ECPRI_COMMON_TYPE_IQ_DATA" \in item_ecpri_common_type
    BY Zenon DEF item_ecpri_common_type
  <2>4. {"ITEM_ECPRI_COMMON_TYPE_IQ_DATA"} \subseteq Closers_3
    BY Zenon DEF Closers_0, Closers_1, Closers_2, Closers_3
  <2>5. /\ Meets(<<item_ecpri_common_type>>, Closers_3)
    BY <2>3, <2>4, MeetsLists, Zenon
  <2>6. {"ITEM_ECPRI_COMMON_TYPE"} \subseteq ecpri_items_names
    BY Zenon DEF ecpri_items_names
  <2> QED
    BY <2>1, <2>2, <2>5, <2>6, Zenon
<1>2. \A t \in {"ITEM_L2TPV2_COMMON_TYPE"} : t \in Tokens /\ Meets(token_list[t].next,
          Closers_3)
  <2>1. \A t \in l2tpv2_items_names : t \in Tokens /\ RowOf(t, l2tpv2_items)
    BY RowsApart, Zenon DEF Tokens
  <2>2. /\ token_list["ITEM_L2TPV2_COMMON_TYPE"].next = <<item_l2tpv2_common_type>>
    BY <2>1, SMT DEF l2tpv2_items, l2tpv2_items_names, RowOf, Each, Token, Word, Call, Place, Field
  <2>3. /\ "ITEM_L2TPV2_COMMON_TYPE_DATA_L" \in item_l2tpv2_common_type
    BY Zenon DEF item_l2tpv2_common_type
  <2>4. {"ITEM_L2TPV2_COMMON_TYPE_DATA_L"} \subseteq Closers_3
    BY Zenon DEF Closers_0, Closers_1, Closers_2, Closers_3
  <2>5. /\ Meets(<<item_l2tpv2_common_type>>, Closers_3)
    BY <2>3, <2>4, MeetsLists, Zenon
  <2>6. {"ITEM_L2TPV2_COMMON_TYPE"} \subseteq l2tpv2_items_names
    BY Zenon DEF l2tpv2_items_names
  <2> QED
    BY <2>1, <2>2, <2>5, <2>6, Zenon
<1>3. \A t \in {"ACTION_MODIFY_FIELD_SRC_TYPE"} : t \in Tokens /\ Meets(token_list[t].next,
          Closers_3)
  <2>1. \A t \in modify_field_actions_names : t \in Tokens /\ RowOf(t, modify_field_actions)
    BY RowsApart, Zenon DEF Tokens
  <2>2. /\ token_list["ACTION_MODIFY_FIELD_SRC_TYPE"].next = <<action_modify_field_src, NEXT_ENTRY("ACTION_MODIFY_FIELD_SRC_TYPE_VALUE")>>
    BY <2>1, SMT DEF modify_field_actions, modify_field_actions_names, RowOf, Each, Token, Call, Place, Conf
  <2>3. /\ "ACTION_MODIFY_FIELD_WIDTH" \in action_modify_field_src
        /\ "ACTION_MODIFY_FIELD_SRC_TYPE_VALUE" \in NEXT_ENTRY("ACTION_MODIFY_FIELD_SRC_TYPE_VALUE")
    BY Zenon DEF action_modify_field_src, NEXT_ENTRY
  <2>4. {"ACTION_MODIFY_FIELD_WIDTH", "ACTION_MODIFY_FIELD_SRC_TYPE_VALUE"} \subseteq Closers_3
    BY Zenon DEF Closers_0, Closers_1, Closers_2, Closers_3
  <2>5. /\ Meets(<<action_modify_field_src, NEXT_ENTRY("ACTION_MODIFY_FIELD_SRC_TYPE_VALUE")>>, Closers_3)
    BY <2>3, <2>4, MeetsLists, Zenon
  <2>6. {"ACTION_MODIFY_FIELD_SRC_TYPE"} \subseteq modify_field_actions_names
    BY Zenon DEF modify_field_actions_names
  <2> QED
    BY <2>1, <2>2, <2>5, <2>6, Zenon
<1>4. \A t \in {"SET"} : t \in Tokens /\ Meets(token_list[t].next, Closers_3)
  <2>1. \A t \in set_tokens_names : t \in Tokens /\ RowOf(t, set_tokens)
    BY RowsApart, Zenon DEF Tokens
  <2>2. /\ token_list["SET"].next = <<NEXT_ENTRY_3("SET_RAW_ENCAP", "SET_RAW_DECAP", "SET_SAMPLE_ACTIONS")>>
    BY <2>1, SMT DEF set_tokens, set_tokens_names, RowOf, Each, Token, Call, Place, Conf
  <2>3. /\ "SET_RAW_ENCAP" \in NEXT_ENTRY_3("SET_RAW_ENCAP", "SET_RAW_DECAP", "SET_SAMPLE_ACTIONS")
    BY Zenon DEF NEXT_ENTRY_3
  <2>4. {"SET_RAW_ENCAP"} \subseteq Closers_3
    BY Zenon DEF Closers_0, Closers_1, Closers_2, Closers_3
  <2>5. /\ Meets(<<NEXT_ENTRY_3("SET_RAW_ENCAP", "SET_RAW_DECAP", "SET_SAMPLE_ACTIONS")>>, Closers_3)
    BY <2>3, <2>4, MeetsLists, Zenon
  <2>6. {"SET"} \subseteq set_tokens_names
    BY Zenon DEF set_tokens_names
  <2> QED
    BY <2>1, <2>2, <2>5, <2>6, Zenon
<1>5. \A t \in {"ITEM_POL_METER"} : t \in Tokens /\ Meets(token_list[t].next, Closers_3)
  <2>1. \A t \in indirect_policy_tokens_names : t \in Tokens /\ RowOf(t, indirect_policy_tokens)
    BY RowsApart, Zenon DEF Tokens
  <2>2. /\ token_list["ITEM_POL_METER"].next = <<NEXT_ENTRY("ITEM_POL_POLICY")>>
    BY <2>1, SMT DEF indirect_policy_tokens, indirect_policy_tokens_names, RowOf, Each, Token, Word, Call
  <2>3. /\ "ITEM_POL_POLICY" \in NEXT_ENTRY("ITEM_POL_POLICY")
    BY Zenon DEF NEXT_ENTRY
  <2>4. {"ITEM_POL_POLICY"} \subseteq Closers_3
    BY Zenon DEF Closers_0, Closers_1, Closers_2, Closers_3
  <2>5. /\ Meets(<<NEXT_ENTRY("ITEM_POL_POLICY")>>, Closers_3)
    BY <2>3, <2>4, MeetsLists, Zenon
  <2>6. {"ITEM_POL_METER"} \subseteq indirect_policy_tokens_names
    BY Zenon DEF indirect_policy_tokens_names
  <2> QED
    BY <2>1, <2>2, <2>5, <2>6, Zenon
<1> QED
  BY <1>1, <1>2, <1>3, <1>4, <1>5, Zenon DEF Closers_4

(* The tokens that take five.                                              *)
LEMMA ClosersLayer_5 ==
  \A t \in Closers_5 \ Closers_4 : t \in Tokens /\ Meets(token_list[t].next, Closers_4)
<1>1. \A t \in {"ACTION_MODIFY_FIELD_DST_TYPE"} : t \in Tokens /\ Meets(token_list[t].next,
          Closers_4)
  <2>1. \A t \in modify_field_actions_names : t \in Tokens /\ RowOf(t, modify_field_actions)
    BY RowsApart, Zenon DEF Tokens
  <2>2. /\ token_list["ACTION_MODIFY_FIELD_DST_TYPE"].next = <<action_modify_field_dst, NEXT_ENTRY("ACTION_MODIFY_FIELD_DST_TYPE_VALUE")>>
    BY <2>1, SMT DEF modify_field_actions, modify_field_actions_names, RowOf, Each, Token, Call, Place, Conf
  <2>3. /\ "ACTION_MODIFY_FIELD_SRC_TYPE" \in action_modify_field_dst
        /\ "ACTION_MODIFY_FIELD_DST_TYPE_VALUE" \in NEXT_ENTRY("ACTION_MODIFY_FIELD_DST_TYPE_VALUE")
    BY Zenon DEF action_modify_field_dst, NEXT_ENTRY
  <2>4. {"ACTION_MODIFY_FIELD_SRC_TYPE", "ACTION_MODIFY_FIELD_DST_TYPE_VALUE"} \subseteq Closers_4
    BY Zenon DEF Closers_0, Closers_1, Closers_2, Closers_3, Closers_4
  <2>5. /\ Meets(<<action_modify_field_dst, NEXT_ENTRY("ACTION_MODIFY_FIELD_DST_TYPE_VALUE")>>, Closers_4)
    BY <2>3, <2>4, MeetsLists, Zenon
  <2>6. {"ACTION_MODIFY_FIELD_DST_TYPE"} \subseteq modify_field_actions_names
    BY Zenon DEF modify_field_actions_names
  <2> QED
    BY <2>1, <2>2, <2>5, <2>6, Zenon
<1>2. \A t \in {"ITEM_POL_PORT"} : t \in Tokens /\ Meets(token_list[t].next, Closers_4)
  <2>1. \A t \in indirect_policy_tokens_names : t \in Tokens /\ RowOf(t, indirect_policy_tokens)
    BY RowsApart, Zenon DEF Tokens
  <2>2. /\ token_list["ITEM_POL_PORT"].next = <<NEXT_ENTRY("ITEM_POL_METER")>>
    BY <2>1, SMT DEF indirect_policy_tokens, indirect_policy_tokens_names, RowOf, Each, Token, Word, Call
  <2>3. /\ "ITEM_POL_METER" \in NEXT_ENTRY("ITEM_POL_METER")
    BY Zenon DEF NEXT_ENTRY
  <2>4. {"ITEM_POL_METER"} \subseteq Closers_4
    BY Zenon DEF Closers_0, Closers_1, Closers_2, Closers_3, Closers_4
  <2>5. /\ Meets(<<NEXT_ENTRY("ITEM_POL_METER")>>, Closers_4)
    BY <2>3, <2>4, MeetsLists, Zenon
  <2>6. {"ITEM_POL_PORT"} \subseteq indirect_policy_tokens_names
    BY Zenon DEF indirect_policy_tokens_names
  <2> QED
    BY <2>1, <2>2, <2>5, <2>6, Zenon
<1> QED
  BY <1>1, <1>2, Zenon DEF Closers_5

(* The tokens that take six.                                               *)
LEMMA ClosersLayer_6 ==
  \A t \in Closers_6 \ Closers_5 : t \in Tokens /\ Meets(token_list[t].next, Closers_5)
<1>1. \A t \in {"ACTION_MODIFY_FIELD_OP"} : t \in Tokens /\ Meets(token_list[t].next,
          Closers_5)
  <2>1. \A t \in modify_field_actions_names : t \in Tokens /\ RowOf(t, modify_field_actions)
    BY RowsApart, Zenon DEF Tokens
  <2>2. /\ token_list["ACTION_MODIFY_FIELD_OP"].next = <<NEXT_ENTRY("ACTION_MODIFY_FIELD_DST_TYPE"), NEXT_ENTRY("ACTION_MODIFY_FIELD_OP_VALUE")>>
    BY <2>1, SMT DEF modify_field_actions, modify_field_actions_names, RowOf, Each, Token, Call, Place, Conf
  <2>3. /\ "ACTION_MODIFY_FIELD_DST_TYPE" \in NEXT_ENTRY("ACTION_MODIFY_FIELD_DST_TYPE")
        /\ "ACTION_MODIFY_FIELD_OP_VALUE" \in NEXT_ENTRY("ACTION_MODIFY_FIELD_OP_VALUE")
    BY Zenon DEF NEXT_ENTRY
  <2>4. {"ACTION_MODIFY_FIELD_DST_TYPE", "ACTION_MODIFY_FIELD_OP_VALUE"} \subseteq Closers_5
    BY Zenon DEF Closers_0, Closers_1, Closers_2, Closers_3, Closers_4, Closers_5
  <2>5. /\ Meets(<<NEXT_ENTRY("ACTION_MODIFY_FIELD_DST_TYPE"), NEXT_ENTRY("ACTION_MODIFY_FIELD_OP_VALUE")>>, Closers_5)
    BY <2>3, <2>4, MeetsLists, Zenon
  <2>6. {"ACTION_MODIFY_FIELD_OP"} \subseteq modify_field_actions_names
    BY Zenon DEF modify_field_actions_names
  <2> QED
    BY <2>1, <2>2, <2>5, <2>6, Zenon
<1> QED
  BY <1>1, Zenon DEF Closers_6

(* More tokens to end with leave more tokens to begin with.                *)
LEMMA ExtendMore ==
  ASSUME NEW A, NEW B, A \subseteq B
  PROVE  Extend(A) \subseteq Extend(B)
BY Zenon DEF Extend

(* A line can be finished from every token named above.                    *)
LEMMA ClosersClose ==
  ASSUME Untyped = {"ITEM_CONNTRACK"}
  PROVE  Closers \subseteq Closing
<1>1. ASSUME NEW C, NEW D, C \subseteq Extend(C) \/ C = {"END"}, C \subseteq D,
             "ITEM_CONNTRACK" \notin D,
             \A t \in D \ C : t \in Tokens /\ Meets(token_list[t].next, C)
      PROVE  D \subseteq Extend(C)
  <2>1. {"END"} \subseteq Extend(C)
    BY Zenon DEF Extend
  <2>2. D \ C \subseteq Extend(C)
    BY <1>1, Zenon DEF Extend, Meets, Tokens
  <2> QED
    BY <1>1, <2>1, <2>2, Zenon
<1>2. "ITEM_CONNTRACK" \notin Closers_6
  BY Zenon DEF Closers_0, Closers_1, Closers_2, Closers_3, Closers_4, Closers_5, Closers_6
<1>3. /\ Closers_0 = {"END"} /\ Closers_0 \subseteq Closers_1 /\ Closers_1 \subseteq Closers_2
      /\ Closers_2 \subseteq Closers_3 /\ Closers_3 \subseteq Closers_4
      /\ Closers_4 \subseteq Closers_5 /\ Closers_5 \subseteq Closers_6
  BY Zenon DEF Closers_0, Closers_1, Closers_2, Closers_3, Closers_4, Closers_5, Closers_6
<1>4. Closers_1 \subseteq Extend(Closers_0)
  BY <1>1, <1>2, <1>3, ClosersLayer_1, Zenon
<1>5. Closers_1 \subseteq Extend(Closers_1)
  BY <1>3, <1>4, ExtendMore, Zenon
<1>6. Closers_2 \subseteq Extend(Closers_1)
  BY <1>1, <1>2, <1>3, <1>5, ClosersLayer_2, Zenon
<1>7. Closers_2 \subseteq Extend(Closers_2)
  BY <1>3, <1>6, ExtendMore, Zenon
<1>8. Closers_3 \subseteq Extend(Closers_2)
  BY <1>1, <1>2, <1>3, <1>7, ClosersLayer_3, Zenon
<1>9. Closers_3 \subseteq Extend(Closers_3)
  BY <1>3, <1>8, ExtendMore, Zenon
<1>10. Closers_4 \subseteq Extend(Closers_3)
  BY <1>1, <1>2, <1>3, <1>9, ClosersLayer_4, Zenon
<1>11. Closers_4 \subseteq Extend(Closers_4)
  BY <1>3, <1>10, ExtendMore, Zenon
<1>12. Closers_5 \subseteq Extend(Closers_4)
  BY <1>1, <1>2, <1>3, <1>11, ClosersLayer_5, Zenon
<1>13. Closers_5 \subseteq Extend(Closers_5)
  BY <1>3, <1>12, ExtendMore, Zenon
<1>14. Closers_6 \subseteq Extend(Closers_5)
  BY <1>1, <1>2, <1>3, <1>13, ClosersLayer_6, Zenon
<1>15. Closers_6 \subseteq Extend(Closers_6)
  BY <1>3, <1>14, ExtendMore, Zenon
<1> DEFINE E_1 == Extend({"END"})
<1> DEFINE E_2 == Extend(E_1)
<1> DEFINE E_3 == Extend(E_2)
<1> DEFINE E_4 == Extend(E_3)
<1> DEFINE E_5 == Extend(E_4)
<1> DEFINE E_6 == Extend(E_5)
<1> DEFINE E_7 == Extend(E_6)
<1>16. Closing = Extend(E_7)
  BY Zenon DEF Closing
<1>17. Closers_1 \subseteq E_1
  BY <1>3, <1>4, Zenon
<1> HIDE DEF E_1
<1>18. Closers_2 \subseteq E_2
  BY <1>6, <1>17, ExtendMore, Zenon
<1> HIDE DEF E_2
<1>19. Closers_3 \subseteq E_3
  BY <1>8, <1>18, ExtendMore, Zenon
<1> HIDE DEF E_3
<1>20. Closers_4 \subseteq E_4
  BY <1>10, <1>19, ExtendMore, Zenon
<1> HIDE DEF E_4
<1>21. Closers_5 \subseteq E_5
  BY <1>12, <1>20, ExtendMore, Zenon
<1> HIDE DEF E_5
<1>22. Closers_6 \subseteq E_6
  BY <1>14, <1>21, ExtendMore, Zenon
<1> HIDE DEF E_6
<1>23. Closers_6 \subseteq E_7
  BY <1>15, <1>22, ExtendMore, Zenon
<1> HIDE DEF E_7
<1>24. Closers_6 \subseteq Closing
  BY <1>15, <1>16, <1>23, ExtendMore, Zenon
<1>25. Closers \subseteq Closers_6
  BY SMT DEF Closers, Closers_0, Closers_1, Closers_2, Closers_3, Closers_4, Closers_5, Closers_6
<1> QED
  BY <1>24, <1>25, Zenon

(* Every list on the stack has one of them.                                *)
LEMMA StackCloses ==
  ASSUME Untyped = {"ITEM_CONNTRACK"}, Typed, Grammatical
  PROVE  CanEnd
<1> SUFFICES ASSUME NEW i \in DOMAIN next
             PROVE  List(next[i]) \cap Closing # {}
  BY Zenon DEF CanEnd
<1>1. next[i] \in OnStack
  BY SMT DEF Typed
<1>2. next[i].by \in Tokens
  BY <1>1, SMT DEF OnStack, Tokens
<1>3. CASE next[i].n = 0
  <2>1. "COMMON_PREFIX" \in Closers
    BY Zenon DEF Closers
  <2> QED
    BY <1>3, <2>1, ClosersClose, Zenon DEF List
<1>4. CASE next[i].n # 0
  <2>1. next[i].n \in DOMAIN token_list[next[i].by].next
    BY <1>4, Zenon DEF Grammatical, Named
  <2> DEFINE lists == token_list[next[i].by].next
  <2>2. lists \in Seq(Listed)
    BY <1>2, WellFormedTable, Zenon DEF WellFormed
  <2>3. next[i].n \in DOMAIN lists
    BY <2>1
  <2> HIDE DEF lists
  <2>4. lists[next[i].n] \in Listed
    BY <2>2, <2>3, SMT
  <2>5. List(next[i]) = lists[next[i].n]
    BY <1>4, Zenon DEF List, lists
  <2> QED
    BY <2>4, <2>5, ClosersClose, Zenon DEF Listed
<1> QED
  BY <1>3, <1>4

-----------------------------------------------------------------------------
(* The theorems.                                                           *)

(* The invariant implies each property.                                    *)
LEMMA InvariantImplies ==
  ASSUME IInv
  PROVE  /\ TypeOK /\ ObjectsFit /\ EntriesSound /\ DispatchReady
         /\ Untyped = {"ITEM_CONNTRACK"} => LinesComplete
<1>1. Typed /\ Ends /\ Grammatical
  BY Zenon DEF IInv
<1>2. TypeOK
  BY <1>1, TypedOK, Zenon
<1>3. \A t \in Expected : Fits(t)
  <2>1. CASE phase = "reading"
    BY <1>1, <2>1, SituationFits, Zenon DEF IInv
  <2>2. CASE phase # "reading"
    BY <2>2, Zenon DEF Expected
  <2> QED
    BY <2>1, <2>2
<1>4. StoresFit
  BY <1>3, Zenon DEF Fits, StoresOf, StoresFit
<1>5. CastsFit
  BY <1>3, Zenon DEF Fits, CastsOf, CastsFit
<1>6. EntriesSound
  BY <1>3, Zenon DEF Fits, DataOf, KindOf, DataOfLastEntry, KindMatches, EntriesSound
<1>7. DispatchReady
  BY Zenon DEF IInv, Dispatched, DispatchReady
<1>8. Untyped = {"ITEM_CONNTRACK"} => LinesComplete
  BY <1>1, StackCloses, Zenon DEF IInv, NothingMissing, LinesComplete
<1> QED
  BY <1>2, <1>4, <1>5, <1>6, <1>7, <1>8, Zenon DEF ObjectsFit

\* The lines considered: without the item "conntrack", which has no entry of
\* its own, so that its field is taken for one of the item before it.
NoConntrack == "ITEM_CONNTRACK" \in Untyped

(* Every line goes from one situation to the next (cmd_flow_parse),        *)
(* whatever its words and for any number of entries of the two stacks.     *)
THEOREM SituationsHold == NoConntrack => (Spec => []IInv)
<1> SUFFICES ASSUME NoConntrack PROVE Spec => []IInv
  OBVIOUS
<1>1. Init => IInv
  BY FirstSituation, Zenon DEF Init, Start
<1>2. IInv /\ [Next]_vars => IInv'
  BY InvariantKept, Zenon DEF NoConntrack
<1> QED
  BY <1>1, <1>2, PTL DEF Spec

(* The stacks stay within their arrays and hold lists and arguments of the *)
(* table; no command terminates more lists of entries than it has.         *)
THEOREM ParserTypeCorrect == NoConntrack => (Spec => []TypeOK)
<1>1. IInv => TypeOK
  BY InvariantImplies, Zenon
<1> QED
  BY <1>1, SituationsHold, PTL

(* parse_int and the other values store with the arguments of their own    *)
(* keyword, into the structure ctx->object points at, and a callback that  *)
(* casts that pointer finds the structure it expects.                      *)
THEOREM ObjectsAlwaysFit == NoConntrack => (Spec => []ObjectsFit)
<1>1. IInv => ObjectsFit
  BY InvariantImplies, Zenon
<1> QED
  BY <1>1, SituationsHold, PTL

(* parse_vc appends items to the pattern and actions to the actions;       *)
(* parse_vc_spec and parse_vc_conf find the data of the last entry.        *)
THEOREM EntriesAlwaysSound == NoConntrack => (Spec => []EntriesSound)
<1>1. IInv => EntriesSound
  BY InvariantImplies, Zenon
<1> QED
  BY <1>1, SituationsHold, PTL

(* What is dispatched is a case of cmd_flow_parsed whose lists of entries  *)
(* have been terminated.                                                   *)
THEOREM DispatchAlwaysReady == NoConntrack => (Spec => []DispatchReady)
<1>1. IInv => DispatchReady
  BY InvariantImplies, Zenon
<1> QED
  BY <1>1, SituationsHold, PTL

(* No line ends before all it needs was read, and from every prefix of one *)
(* the grammar of token_list leads to an end.                              *)
THEOREM LinesAlwaysComplete ==
  Untyped = {"ITEM_CONNTRACK"} => (Spec => []LinesComplete)
<1> SUFFICES ASSUME Untyped = {"ITEM_CONNTRACK"} PROVE Spec => []LinesComplete
  OBVIOUS
<1>1. IInv => LinesComplete
  BY InvariantImplies, Zenon
<1>2. NoConntrack
  BY Zenon DEF NoConntrack
<1> QED
  BY <1>1, <1>2, SituationsHold, PTL
===============================================================================
