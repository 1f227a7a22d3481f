----------------------------- MODULE FlowParser -----------------------------
(***************************************************************************)
(* The parser of the flow commands: one line is read token by token        *)
(* against a stack of token lists, and values are stored through a stack   *)
(* of arguments, each an offset into the object of the context.            *)
(*                                                                         *)
(* A line is a nondeterministic choice among the tokens the top list       *)
(* offers, which covers every well-formed line; an ill-formed one leaves   *)
(* nothing behind (the context is initialised for the next line).  So TLC  *)
(* reports a deadlock where a legal prefix can neither go on nor end.      *)
(*                                                                         *)
(* A pointer is named by the structure it points at.  Left out: the text   *)
(* and the values, the mask (objmask), completion, and the room in the     *)
(* output buffer, which a line of 512 characters cannot use up.            *)
(***************************************************************************)
EXTENDS FlowTokens, Integers, SequencesExt

CONSTANTS
  CTX_STACK_SIZE,   \* the entries of each of the two stacks
  Untyped           \* the tokens the lines considered do not contain

ASSUME StackAssumption == CTX_STACK_SIZE \in Nat \ {0}

VARIABLES
  curr,      \* the token read last
  next,      \* stack of lists: [by, n] is the n-th list of token by, 0 the list of prefix
  args,      \* stack of arguments: [by, n] is the n-th of token by
  object,    \* the structure ctx->object points at
  objdata,   \* the structure whose size is in ctx->objdata, "none" for 0
  out,       \* the output buffer
  phase      \* "reading" a line, "done" (dispatched) or "refused"

vars == <<curr, next, args, object, objdata, out, phase>>

-----------------------------------------------------------------------------
(* The context and the output buffer.                                      *)

\* command; the structure last reserved at out->args.vc.data; which of
\* args.vc.pattern and args.vc.actions new entries go to; the entries so far
\* (is there an item, how many lists of each kind were terminated).
EmptyBuffer ==
  [command |-> "ZERO", data |-> "none", area |-> "none",
   items |-> FALSE, item_ends |-> 0, action_ends |-> 0]

\* cmd_flow_context_init, and the first list of the entry token.
cmd_flow_tok(entry) ==
  /\ curr' = entry
  /\ next' = <<[by |-> entry, n |-> 1]>>
  /\ args' = <<>>
  /\ object' = "none" /\ objdata' = "none"
  /\ out' = EmptyBuffer
  /\ phase' = "reading"

\* The tokens of a list on the stack, and the structure an argument is in.
List(entry) == IF entry.n = 0 THEN {"COMMON_PREFIX"} ELSE token_list[entry.by].next[entry.n]
Of(arg) == token_list[arg.by].args[arg.n]

Expected == IF phase = "reading" /\ next # <<>> THEN List(Last(next)) ELSE {}

\* Mutant: one entry more than the array has.
PushOver(t, token, lists, left) ==
  LET nx == Front(lists) \o [i \in DOMAIN token.next |-> [by |-> t, n |-> i]]
      ar == left \o [i \in DOMAIN token.args |-> [by |-> t, n |-> i]]
  IN /\ curr' = t /\ next' = nx
     /\ args' = IF Len(ar) <= CTX_STACK_SIZE + 1 THEN ar ELSE <<>>
     /\ phase' = IF Len(ar) <= CTX_STACK_SIZE + 1 THEN "reading" ELSE "refused"

\* A token is accepted: its list is popped, then its own lists and arguments
\* are pushed; "lists" and "left" are the stacks its callback leaves.
Push(t, token, lists, left) ==
  LET nx == Front(lists) \o [i \in DOMAIN token.next |-> [by |-> t, n |-> i]]
      ar == left \o [i \in DOMAIN token.args |-> [by |-> t, n |-> i]]
      fits == Len(nx) <= CTX_STACK_SIZE /\ Len(ar) <= CTX_STACK_SIZE
  IN /\ curr' = t
     /\ next' = IF fits THEN nx ELSE <<>>
     /\ args' = IF fits THEN ar ELSE <<>>
     /\ phase' = IF fits THEN "reading" ELSE "refused"

Accept(t, token) == Push(t, token, next, args)

PointAt(struct) == object' = struct /\ objdata' = "none"

-----------------------------------------------------------------------------
(* The commands.                                                           *)

parse_default(t, token) ==
  /\ token.call = "parse_default" /\ Accept(t, token)
  /\ UNCHANGED <<object, objdata, out>>

parse_init(t, token) ==
  /\ token.call = "parse_init" /\ Accept(t, token)
  /\ out' = EmptyBuffer /\ PointAt("buffer")

\* The first keyword of a command sets it and points at the buffer.
Command(t) == out' = [out EXCEPT !.command = t] /\ PointAt("buffer")
FirstIs(t, command) == out.command = "ZERO" /\ t = command

parse_ia(t, token) ==
  /\ token.call = "parse_ia" /\ Accept(t, token)
  /\ \/ FirstIs(t, "INDIRECT_ACTION") /\ Command(t)
     \/ /\ out.command # "ZERO"
        /\ \/ /\ t \in {"INDIRECT_ACTION_CREATE", "INDIRECT_ACTION_UPDATE"}
              /\ out' = [out EXCEPT !.command = t, !.area = "actions"]
              /\ PointAt("buffer")
           \/ t = "INDIRECT_ACTION_QUERY" /\ Command(t)
           \/ /\ t \in {"INDIRECT_ACTION_INGRESS", "INDIRECT_ACTION_EGRESS",
                        "INDIRECT_ACTION_TRANSFER"}
              /\ UNCHANGED <<object, objdata, out>>

parse_ia_destroy(t, token) ==
  /\ token.call = "parse_ia_destroy" /\ Accept(t, token)
  /\ IF out.command \in {"ZERO", "INDIRECT_ACTION"}
     THEN t = "INDIRECT_ACTION_DESTROY" /\ Command(t)
     ELSE PointAt("action_id") /\ UNCHANGED out

\* Mutant: the command stays that of the keyword policy.
parse_mp_keyword(t, token) ==
  /\ token.call = "parse_mp" /\ Accept(t, token)
  /\ \/ FirstIs(t, "ITEM_POL_POLICY") /\ Command(t)
     \/ /\ t = "ACTION_POL_G"
        /\ out' = [out EXCEPT !.area = "actions"]
        /\ PointAt("buffer")

parse_mp(t, token) ==
  /\ token.call = "parse_mp" /\ Accept(t, token)
  /\ \/ FirstIs(t, "ITEM_POL_POLICY") /\ Command(t)
     \/ /\ out.command # "ZERO" /\ t = "ACTION_POL_G"
        /\ out' = [out EXCEPT !.command = t, !.area = "actions"]
        /\ PointAt("buffer")

parse_destroy(t, token) ==
  /\ token.call = "parse_destroy" /\ Accept(t, token)
  /\ \/ FirstIs(t, "DESTROY") /\ Command(t)
     \/ out.command # "ZERO" /\ PointAt("rule") /\ UNCHANGED out

parse_list(t, token) ==
  /\ token.call = "parse_list" /\ Accept(t, token)
  /\ \/ FirstIs(t, "LIST") /\ Command(t)
     \/ out.command # "ZERO" /\ PointAt("group") /\ UNCHANGED out

\* The commands whose keyword is followed by values only.
CommandOnly(t, token, command) ==
  /\ Accept(t, token)
  /\ \/ FirstIs(t, command) /\ Command(t)
     \/ out.command # "ZERO" /\ UNCHANGED <<object, objdata, out>>

parse_flush(t, token) == token.call = "parse_flush" /\ CommandOnly(t, token, "FLUSH")
parse_query(t, token) == token.call = "parse_query" /\ CommandOnly(t, token, "QUERY")
parse_aged(t, token) == token.call = "parse_aged" /\ CommandOnly(t, token, "AGED")
parse_isolate(t, token) == token.call = "parse_isolate" /\ CommandOnly(t, token, "ISOLATE")

parse_dump(t, token) ==
  /\ token.call = "parse_dump" /\ Accept(t, token)
  /\ \/ FirstIs(t, "DUMP")
     \/ out.command # "ZERO" /\ t \in {"DUMP_ALL", "DUMP_ONE"}
  /\ Command(t)

parse_flex(t, token) ==
  /\ token.call = "parse_flex" /\ Accept(t, token)
  /\ \/ FirstIs(t, "FLEX") /\ Command(t)
     \/ /\ out.command # "ZERO" /\ t \in next_flex_item
        /\ out' = [out EXCEPT !.command = t]
        /\ UNCHANGED <<object, objdata>>

parse_tunnel(t, token) ==
  /\ token.call = "parse_tunnel" /\ Accept(t, token)
  /\ \/ FirstIs(t, "TUNNEL") /\ Command(t)
     \/ /\ out.command # "ZERO"
        /\ \/ /\ t \in {"TUNNEL_CREATE", "TUNNEL_DESTROY", "TUNNEL_LIST"}
              /\ out' = [out EXCEPT !.command = t]
              /\ UNCHANGED <<object, objdata>>
           \/ /\ t \in {"TUNNEL_CREATE_TYPE", "TUNNEL_DESTROY_ID"}
              /\ object' = "tunnel_ops"
              /\ UNCHANGED <<objdata, out>>

parse_set_init(t, token) ==
  /\ token.call = "parse_set_init" /\ t = "SET" /\ Accept(t, token)
  /\ out' = [EmptyBuffer EXCEPT !.command = t]
  /\ PointAt("first_entry")

parse_set_raw_encap_decap(t, token) ==
  /\ token.call = "parse_set_raw_encap_decap" /\ out.command # "ZERO" /\ Accept(t, token)
  /\ out' = [out EXCEPT !.command = t, !.area = "pattern"]
  /\ PointAt("buffer")

\* Mutant: entries go to the pattern, as for raw_encap.
parse_set_sample_action_pattern(t, token) ==
  /\ token.call = "parse_set_sample_action" /\ out.command # "ZERO" /\ Accept(t, token)
  /\ out' = [out EXCEPT !.command = t, !.area = "pattern"]
  /\ PointAt("buffer")

parse_set_sample_action(t, token) ==
  /\ token.call = "parse_set_sample_action" /\ out.command # "ZERO" /\ Accept(t, token)
  /\ out' = [out EXCEPT !.command = t, !.area = "actions"]
  /\ PointAt("buffer")

-----------------------------------------------------------------------------
(* Rules: attributes, items and actions.                                   *)

\* The rest of parse_vc: an item is appended to the pattern, an action once
\* there is a list of actions, and a region of its data is reserved.
Append_entry(t, token) ==
  LET struct == token.priv
      data == IF struct = "void" THEN out.data ELSE struct
  IN /\ struct # "none" /\ out.area # "none"
     /\ out' = IF out.area = "pattern"
               THEN [out EXCEPT !.data = data, !.items = TRUE,
                                !.item_ends = @ + (IF t = "ITEM_END" THEN 1 ELSE 0)]
               ELSE [out EXCEPT !.data = data,
                                !.action_ends = @ + (IF t = "ACTION_END" THEN 1 ELSE 0)]
     /\ object' = IF out.area = "pattern" THEN "item" ELSE "action"
     /\ objdata' = IF struct = "void" THEN "none" ELSE struct

vc_attributes == next_vc_attr \ {"ITEM_PATTERN"}
vc_tunnels == {"VC_TUNNEL_SET", "VC_TUNNEL_MATCH"}

vc(t, token) ==
  \/ FirstIs(t, "VALIDATE") /\ Command(t)
  \/ FirstIs(t, "CREATE") /\ Command(t)
  \/ /\ out.command # "ZERO" /\ t \in vc_attributes
     /\ PointAt(IF t \in vc_tunnels THEN "tunnel_ops" ELSE "attr")
     /\ UNCHANGED out
  \/ /\ out.command # "ZERO" /\ t = "ITEM_PATTERN"
     /\ out' = [out EXCEPT !.area = "pattern"] /\ PointAt("first_entry")
  \/ /\ out.command # "ZERO" /\ t = "ACTIONS"
     /\ out' = [out EXCEPT !.area = "actions"] /\ PointAt("first_entry")
  \/ /\ out.command # "ZERO"
     /\ t \notin vc_attributes \cup {"ITEM_PATTERN", "ACTIONS"}
     /\ Append_entry(t, token)

parse_vc(t, token) == token.call = "parse_vc" /\ vc(t, token) /\ Accept(t, token)

\* is, spec, last, mask and prefix: the object becomes a part of the data of
\* the last item; after prefix, the value expected is a prefix length.
parse_vc_spec(t, token) ==
  /\ token.call = "parse_vc_spec"
  /\ out.items
  /\ IF t = "ITEM_PARAM_PREFIX"
     THEN /\ Len(next) >= 2
          /\ Push(t, token, [next EXCEPT ![Len(next) - 1].n = 0], args)
     ELSE Accept(t, token)
  /\ object' = out.data
  /\ UNCHANGED <<objdata, out>>

parse_vc_conf(t, token) ==
  /\ token.call = "parse_vc_conf" /\ Accept(t, token)
  /\ object' = out.data
  /\ UNCHANGED <<objdata, out>>

\* The message type goes to the header at out->args.vc.data; its argument
\* only tells the byte order.
MessageType(t, token) ==
  /\ args # <<>>
  /\ Push(t, token, next, Front(args))
  /\ UNCHANGED <<object, objdata, out>>

parse_vc_item_ecpri_type(t, token) == token.call = "parse_vc_item_ecpri_type" /\ MessageType(t, token)
parse_vc_item_l2tpv2_type(t, token) == token.call = "parse_vc_item_l2tpv2_type" /\ MessageType(t, token)

\* The actions with a configuration of testpmd's own: parse_vc, then the
\* object is the configuration instead of the action.
Configured(t, token) ==
  /\ out.command # "ZERO" /\ out.area = "actions" /\ Accept(t, token)
  /\ out' = [out EXCEPT !.data = token.priv]
  /\ object' = token.priv
  /\ objdata' = token.priv

parse_vc_action_rss(t, token) == token.call = "parse_vc_action_rss" /\ Configured(t, token)
parse_vc_action_vxlan_encap(t, token) == token.call = "parse_vc_action_vxlan_encap" /\ Configured(t, token)
parse_vc_action_nvgre_encap(t, token) == token.call = "parse_vc_action_nvgre_encap" /\ Configured(t, token)
parse_vc_action_l2_encap(t, token) == token.call = "parse_vc_action_l2_encap" /\ Configured(t, token)
parse_vc_action_l2_decap(t, token) == token.call = "parse_vc_action_l2_decap" /\ Configured(t, token)
parse_vc_action_mplsogre_encap(t, token) ==
  token.call = "parse_vc_action_mplsogre_encap" /\ Configured(t, token)
parse_vc_action_mplsogre_decap(t, token) ==
  token.call = "parse_vc_action_mplsogre_decap" /\ Configured(t, token)
parse_vc_action_mplsoudp_encap(t, token) ==
  token.call = "parse_vc_action_mplsoudp_encap" /\ Configured(t, token)
parse_vc_action_mplsoudp_decap(t, token) ==
  token.call = "parse_vc_action_mplsoudp_decap" /\ Configured(t, token)
parse_vc_action_raw_encap(t, token) == token.call = "parse_vc_action_raw_encap" /\ Configured(t, token)
parse_vc_action_raw_decap(t, token) == token.call = "parse_vc_action_raw_decap" /\ Configured(t, token)
parse_vc_action_sample(t, token) == token.call = "parse_vc_action_sample" /\ Configured(t, token)

\* parse_vc and the registration of a dynamic field.
parse_vc_action_set_meta(t, token) ==
  token.call = "parse_vc_action_set_meta" /\ out.command # "ZERO" /\ Append_entry(t, token) /\ Accept(t, token)

\* A word of the configuration the object points at.
Setting(t, token) == Accept(t, token) /\ UNCHANGED <<object, objdata, out>>

parse_vc_action_meter_color_type(t, token) ==
  token.call = "parse_vc_action_meter_color_type" /\ Setting(t, token)
parse_vc_action_rss_func(t, token) == token.call = "parse_vc_action_rss_func" /\ Setting(t, token)
parse_vc_modify_field_op(t, token) == token.call = "parse_vc_modify_field_op" /\ Setting(t, token)
parse_vc_modify_field_id(t, token) == token.call = "parse_vc_modify_field_id" /\ Setting(t, token)
parse_vc_action_conntrack_update(t, token) ==
  token.call = "parse_vc_action_conntrack_update" /\ Setting(t, token)

\* An index, stored through an argument of the callback itself.
parse_vc_action_raw_encap_index(t, token) ==
  token.call = "parse_vc_action_raw_encap_index" /\ Len(args) < CTX_STACK_SIZE /\ Setting(t, token)
parse_vc_action_raw_decap_index(t, token) ==
  token.call = "parse_vc_action_raw_decap_index" /\ Len(args) < CTX_STACK_SIZE /\ Setting(t, token)
parse_vc_action_sample_index(t, token) ==
  token.call = "parse_vc_action_sample_index" /\ Len(args) < CTX_STACK_SIZE /\ Setting(t, token)

\* Types and queues go on until "end": the list of the token is pushed again
\* above the one about to be popped, which is then the one that stays.
Again(t, token) ==
  /\ Len(next) < CTX_STACK_SIZE
  /\ Push(t, token, Append(next, Last(next)), args)

parse_vc_action_rss_type(t, token) ==
  /\ token.call = "parse_vc_action_rss_type"
  /\ Accept(t, token) \/ Again(t, token)
  /\ UNCHANGED <<object, objdata, out>>

parse_vc_action_rss_queue(t, token) ==
  /\ token.call = "parse_vc_action_rss_queue"
  /\ Accept(t, token) \/ (Len(args) < CTX_STACK_SIZE /\ Again(t, token))
  /\ UNCHANGED <<object, objdata, out>>

-----------------------------------------------------------------------------
(* Values.                                                                 *)

\* The callback takes n arguments off the stack and stores through them.
Store(t, token, n) ==
  /\ Len(args) >= n
  /\ Push(t, token, next, SubSeq(args, 1, Len(args) - n))
  /\ UNCHANGED <<object, objdata, out>>

parse_prefix(t, token) == token.call = "parse_prefix" /\ Store(t, token, 1)
parse_int(t, token) == token.call = "parse_int" /\ Store(t, token, 1)
parse_boolean(t, token) == token.call = "parse_boolean" /\ Store(t, token, 1)
parse_string0(t, token) == token.call = "parse_string0" /\ Store(t, token, 1)
parse_mac_addr(t, token) == token.call = "parse_mac_addr" /\ Store(t, token, 1)
parse_ipv4_addr(t, token) == token.call = "parse_ipv4_addr" /\ Store(t, token, 1)
parse_ipv6_addr(t, token) == token.call = "parse_ipv6_addr" /\ Store(t, token, 1)
parse_port(t, token) == token.call = "parse_port" /\ Store(t, token, 1)
parse_flex_handle(t, token) == token.call = "parse_flex_handle" /\ Store(t, token, 1)
parse_action(t, token) == token.call = "parse_action" /\ Store(t, token, 1)
parse_string(t, token) == token.call = "parse_string" /\ Store(t, token, 3)
parse_hex(t, token) == token.call = "parse_hex" /\ Store(t, token, 3)

\* The identifier goes to a variable of the callback, its handle to the action.
parse_ia_id2ptr(t, token) ==
  /\ token.call = "parse_ia_id2ptr"
  /\ Len(args) >= 1
  /\ Push(t, token, next, Front(args))
  /\ objdata' = "none"
  /\ UNCHANGED <<object, out>>

-----------------------------------------------------------------------------
(* The cases of the dispatch, with the terminated lists of items and of    *)
(* actions each of them reads.                                             *)

cmd_set_raw_parsed == {"SET_RAW_ENCAP", "SET_RAW_DECAP", "SET_SAMPLE_ACTIONS"}

cmd_flow_parsed ==
  [command \in {"VALIDATE", "CREATE", "INDIRECT_ACTION_CREATE", "INDIRECT_ACTION_UPDATE",
                "INDIRECT_ACTION_DESTROY", "INDIRECT_ACTION_QUERY", "ACTION_POL_G", "DESTROY",
                "FLUSH", "DUMP_ONE", "DUMP_ALL", "QUERY", "LIST", "ISOLATE", "AGED",
                "TUNNEL_CREATE", "TUNNEL_DESTROY", "TUNNEL_LIST", "FLEX_ITEM_CREATE",
                "FLEX_ITEM_DESTROY"} \cup cmd_set_raw_parsed |->
     CASE command \in {"VALIDATE", "CREATE"} -> <<1, 1>>
       [] command \in {"INDIRECT_ACTION_CREATE", "INDIRECT_ACTION_UPDATE",
                       "SET_SAMPLE_ACTIONS"} -> <<0, 1>>
       [] command = "ACTION_POL_G" -> <<0, 3>>
       [] OTHER -> <<0, 0>>]

-----------------------------------------------------------------------------
(* The specification.                                                      *)

parse_command(t, token) ==
  \/ parse_default(t, token) \/ parse_init(t, token) \/ parse_ia(t, token) \/ parse_ia_destroy(t, token)
  \/ parse_mp(t, token) \/ parse_destroy(t, token) \/ parse_list(t, token) \/ parse_flush(t, token)
  \/ parse_query(t, token) \/ parse_aged(t, token) \/ parse_isolate(t, token) \/ parse_dump(t, token)
  \/ parse_flex(t, token) \/ parse_tunnel(t, token) \/ parse_set_init(t, token)
  \/ parse_set_raw_encap_decap(t, token) \/ parse_set_sample_action(t, token)

parse_rule(t, token) ==
  \/ parse_vc(t, token) \/ parse_vc_spec(t, token) \/ parse_vc_conf(t, token)
  \/ parse_vc_item_ecpri_type(t, token) \/ parse_vc_item_l2tpv2_type(t, token)
  \/ parse_vc_action_rss(t, token) \/ parse_vc_action_vxlan_encap(t, token)
  \/ parse_vc_action_nvgre_encap(t, token) \/ parse_vc_action_l2_encap(t, token)
  \/ parse_vc_action_l2_decap(t, token) \/ parse_vc_action_mplsogre_encap(t, token)
  \/ parse_vc_action_mplsogre_decap(t, token) \/ parse_vc_action_mplsoudp_encap(t, token)
  \/ parse_vc_action_mplsoudp_decap(t, token) \/ parse_vc_action_raw_encap(t, token)
  \/ parse_vc_action_raw_decap(t, token) \/ parse_vc_action_sample(t, token)
  \/ parse_vc_action_set_meta(t, token) \/ parse_vc_action_meter_color_type(t, token)
  \/ parse_vc_action_rss_func(t, token) \/ parse_vc_modify_field_op(t, token)
  \/ parse_vc_modify_field_id(t, token) \/ parse_vc_action_conntrack_update(t, token)
  \/ parse_vc_action_raw_encap_index(t, token) \/ parse_vc_action_raw_decap_index(t, token)
  \/ parse_vc_action_sample_index(t, token) \/ parse_vc_action_rss_type(t, token)
  \/ parse_vc_action_rss_queue(t, token)

parse_value(t, token) ==
  \/ parse_prefix(t, token) \/ parse_int(t, token) \/ parse_boolean(t, token) \/ parse_string0(t, token)
  \/ parse_mac_addr(t, token) \/ parse_ipv4_addr(t, token) \/ parse_ipv6_addr(t, token)
  \/ parse_port(t, token) \/ parse_flex_handle(t, token) \/ parse_action(t, token)
  \/ parse_string(t, token) \/ parse_hex(t, token) \/ parse_ia_id2ptr(t, token)

\* A candidate of the top list accepts the next word ("END" matches none).
cmd_flow_parse ==
  \E t \in Expected \ (Untyped \cup {"END"}) :
    LET token == token_list[t]
    IN parse_command(t, token) \/ parse_rule(t, token) \/ parse_value(t, token)

\* The line ends where nothing more is expected or its list has an END.
EndOfLine ==
  /\ phase = "reading" /\ out.command # "ZERO"
  /\ next = <<>> \/ "END" \in Expected
  /\ phase' = "done"
  /\ UNCHANGED <<curr, next, args, object, objdata, out>>

\* The next line, a flow command or a set command.
NextLine == phase # "reading" /\ \E entry \in {"ZERO", "START_SET"} : cmd_flow_tok(entry)

Init ==
  /\ curr = "ZERO"
  /\ next = <<[by |-> "ZERO", n |-> 1]>>
  /\ args = <<>>
  /\ object = "none" /\ objdata = "none"
  /\ out = EmptyBuffer
  /\ phase = "reading"

Next == cmd_flow_parse \/ EndOfLine \/ NextLine

Spec == Init /\ [][Next]_vars
-----------------------------------------------------------------------------
(* Properties.                                                             *)

Structs ==
  {"none", "buffer", "attr", "tunnel_ops", "first_entry", "item", "action", "action_id",
   "rule", "group"} \cup {token_list[t].priv : t \in DOMAIN token_list}

OnStack == [by : DOMAIN token_list, n : 0..CTX_STACK_SIZE]

\* The variables keep their types; no stack outgrows its array, and no rule
\* has more terminated lists than the grammar of its command has.
TypeOK ==
  /\ curr \in DOMAIN token_list
  /\ next \in Seq(OnStack) /\ Len(next) <= CTX_STACK_SIZE
  /\ args \in Seq(OnStack) /\ Len(args) <= CTX_STACK_SIZE
  /\ object \in Structs /\ objdata \in Structs
  /\ out \in [command : DOMAIN token_list, data : Structs,
              area : {"none", "pattern", "actions"}, items : BOOLEAN,
              item_ends : 0..1, action_ends : 0..3]
  /\ phase \in {"reading", "done", "refused"}

\* The number of arguments a callback takes.
Takes(callback) ==
  CASE callback \in {"parse_string", "parse_hex"} -> 3
    [] callback \in {"parse_int", "parse_prefix", "parse_boolean", "parse_string0",
         "parse_mac_addr", "parse_ipv4_addr", "parse_ipv6_addr", "parse_port",
         "parse_flex_handle", "parse_action", "parse_ia_id2ptr",
         "parse_vc_item_ecpri_type", "parse_vc_item_l2tpv2_type"} -> 1
    [] OTHER -> 0

\* What the arguments of a callback are offsets into.
Target(callback) ==
  CASE callback = "parse_ia_id2ptr" -> "id"
    [] callback \in {"parse_vc_item_ecpri_type", "parse_vc_item_l2tpv2_type"} -> out.data
    [] OTHER -> object

\* A value is stored with the arguments of the keyword it belongs to, never
\* with what an earlier token left on the stack, and each is an offset into
\* the very structure the object points at: no value, however the rule is
\* put together, is written over another structure (push_args and pop_args
\* have no check, the offset is added to an untyped pointer).
StoresFit ==
  \A t \in Expected \ (Untyped \cup {"END"}) :
    LET callback == token_list[t].call
        n == Takes(callback)
    IN /\ Len(args) >= n
       /\ \A i \in Len(args) - n + 1 .. Len(args) :
            args[i].by = Last(next).by /\ Of(args[i]) \in {Target(callback), "none"}

\* The structure a callback casts the object to.
Casts ==
  [callback \in {"parse_vc_action_rss_func", "parse_vc_action_rss_type",
                 "parse_vc_action_rss_queue", "parse_vc_modify_field_op",
                 "parse_vc_modify_field_id", "parse_vc_action_meter_color_type",
                 "parse_ia_id2ptr", "parse_vc_action_raw_encap_index",
                 "parse_vc_action_raw_decap_index", "parse_vc_action_sample_index"} |->
     CASE callback \in {"parse_vc_modify_field_op", "parse_vc_modify_field_id"} ->
            "action_modify_field"
       [] callback \in {"parse_vc_action_meter_color_type", "parse_ia_id2ptr"} -> "action"
       [] callback = "parse_vc_action_raw_encap_index" -> "action_raw_encap_data"
       [] callback = "parse_vc_action_raw_decap_index" -> "action_raw_decap_data"
       [] callback = "parse_vc_action_sample_index" -> "action_sample_data"
       [] OTHER -> "action_rss_data"]

\* A callback that casts the object of the context, set by an earlier token,
\* only follows tokens that left it pointing at that structure; the color of
\* a meter and the update of a connection go to the last action's own data.
CastsFit ==
  \A t \in Expected :
    LET callback == token_list[t].call
    IN /\ callback \in DOMAIN Casts => object = Casts[callback]
       /\ callback = "parse_vc_action_meter_color_type" => out.data = "action_meter_color"
       /\ callback = "parse_vc_action_conntrack_update" => out.data = "modify_conntrack"

\* Whatever a token writes to is the structure it takes it for.
ObjectsFit == StoresFit /\ CastsFit

\* is, spec, last, mask and prefix, and the fields of an action, are offered
\* only while the data reserved last is that of the last item or action:
\* parse_vc_spec and parse_vc_conf take out->args.vc.data for it unchecked.
DataOfLastEntry ==
  \A t \in Expected \ Untyped :
    /\ token_list[t].call = "parse_vc_spec" =>
         out.items /\ out.area = "pattern" /\ objdata = out.data
    /\ token_list[t].call = "parse_vc_conf" =>
         out.area = "actions" /\ objdata = out.data

\* parse_vc takes any token for an item until there is a list of actions,
\* and for an action from then on: the grammar must agree with it, or a type
\* of one enumeration is stored as one of the other.
KindMatches ==
  /\ Expected \cap (next_item \ {"END_SET"}) # {} => out.area = "pattern"
  /\ Expected \cap (next_action \cup next_action_sample) # {} => out.area = "actions"

\* An item and an action is stored where its kind belongs, and what is said
\* of it goes to its own data.
EntriesSound == DataOfLastEntry /\ KindMatches

\* The line does not end before every token list pushed on the way has been
\* consumed: the list with END is the only one that may be left.
NothingMissing == phase = "done" => Len(next) <= 1

\* The tokens from which a line can be finished: all they push can be
\* consumed (eight rounds reach every token: the longest chain has seven).
Extend(closing) ==
  {"END"} \cup {t \in DOMAIN token_list \ Untyped :
                  \A i \in DOMAIN token_list[t].next : token_list[t].next[i] \cap closing # {}}
Closing ==
  LET Twice(closing) == Extend(Extend(closing))
  IN Twice(Twice(Twice(Twice({"END"}))))

\* Every prefix of a line can be completed: each list on the stack offers a
\* token from which the line can be brought to its end.
CanEnd == \A i \in DOMAIN next : List(next[i]) \cap Closing # {}

\* No line is stuck, none ends too early.
LinesComplete == NothingMissing /\ CanEnd

\* A line that ends is one of the cases of cmd_flow_parsed or of
\* cmd_set_raw_parsed (flex init has none), and the lists that case walks up
\* to their END entry have one: the pattern and the actions of a rule, the
\* actions of an indirect action, those of the three colors of a policy.
\* "end_set", which the grammar of every pattern offers, is left out.
DispatchReady ==
  phase = "done" /\ curr # "END_SET" =>
    /\ out.command \in DOMAIN cmd_flow_parsed \cup {"FLEX_ITEM_INIT"}
    /\ out.command \in DOMAIN cmd_flow_parsed =>
         /\ out.item_ends >= cmd_flow_parsed[out.command][1]
         /\ out.action_ends >= cmd_flow_parsed[out.command][2]

=============================================================================
