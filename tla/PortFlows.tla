----------------------------- MODULE PortFlows ------------------------------
(***************************************************************************)
(* The flow rules, the indirect actions and the tunnels of one port: the   *)
(* lists testpmd keeps of what it has asked the device for, and the device *)
(* that refuses any request.  An object of a list stands at an address,    *)
(* the device may keep that address as the context of an age action and    *)
(* hand it back when the rule or the action has aged.                      *)
(*                                                                         *)
(* Patterns, actions and their text are left out, save for what the lists  *)
(* are sorted by and for the age action.                                   *)
(***************************************************************************)
EXTENDS PortDevice, Lists

CONSTANTS
  MaxId,          \* UINT32_MAX
  NbObjects,      \* rules and indirect actions there is memory for
  Attributes,     \* of a rule: [group, priority]
  Offloads,       \* types of tunnel that can be offloaded
  MaxTunnelId,    \* bound: identifiers of tunnels
  MaxHeld         \* bound: arrays of the device a tunnel may keep

ASSUME FlowsAssumption ==
  /\ {MaxId, NbObjects} \subseteq Nat \ {0}
  /\ {MaxHeld, MaxTunnelId} \subseteq Nat
  /\ Attributes \subseteq [group : Nat, priority : Nat] /\ Attributes # {}

Objects == 1 .. NbObjects

VARIABLES
  flow_list,         \* of struct port_flow, the head first
  actions_list,      \* of struct port_indirect_action
  flow_tunnel_list,  \* of struct port_flow_tunnel
  dev_flows,         \* the rules of the device: [flow, ctx, aged]
  dev_actions        \* its indirect actions: [handle, ctx, aged]

flowVars ==
  <<flow_list, actions_list, flow_tunnel_list, dev_flows, dev_actions>>

Ids(list) == {list[i].id : i \in DOMAIN list}
Elements(list) == {list[i] : i \in DOMAIN list}
Flows == {f.flow : f \in dev_flows}
Handles == {h.handle : h \in dev_actions}

(* The addresses in use, and a new object of calloc.                       *)
Used == {o.obj : o \in Elements(flow_list) \cup Elements(actions_list)}
CanAllocate == Used # Objects
NewObject == Fresh(Objects, Used)

(***************************************************************************)
(* Tunnels.  actions and items say that the tunnel holds the array a rule  *)
(* in progress is made of, held counts the arrays that the device has lent *)
(* for it and has not been given back.                                     *)
(***************************************************************************)
NewTunnelId ==
  IF flow_tunnel_list = <<>> THEN 1 ELSE Head(flow_tunnel_list).id + 1

port_flow_tunnel_create(type) ==
  /\ type \in Offloads
  /\ \A t \in Elements(flow_tunnel_list) : t.type # type
  /\ NewTunnelId <= MaxTunnelId
  /\ flow_tunnel_list' =
       <<[id      |-> NewTunnelId,
          type    |-> type,
          actions |-> FALSE,
          items   |-> FALSE,
          held    |-> 0]>> \o flow_tunnel_list
  /\ UNCHANGED <<flow_list, actions_list, dev_flows, dev_actions>>

port_flow_tunnel_destroy(id) ==
  /\ id \in Ids(flow_tunnel_list)
  /\ flow_tunnel_list' =
       Kept(flow_tunnel_list, {t \in Elements(flow_tunnel_list) : t.id # id})
  /\ UNCHANGED <<flow_list, actions_list, dev_flows, dev_actions>>

(* struct tunnel_ops of a command; no tunnel has the identifier 0.         *)
NoTunnel == [id |-> 0, actions |-> FALSE, items |-> FALSE]
Enabled(ops) == ops.id # 0
TunnelOps ==
  {NoTunnel} \cup
  {ops \in [id : Ids(flow_tunnel_list) \cup {MaxTunnelId + 1},
            actions : BOOLEAN, items : BOOLEAN] : ops.actions \/ ops.items}

port_flow_locate_tunnel_id(id) ==
  {t \in Elements(flow_tunnel_list) : t.id = id}

(* How port_flow_tunnel_offload_cmd_prep can end: well, or at the step     *)
(* that fails.                                                             *)
PrepAnswers(ops) ==
  IF ~Enabled(ops) THEN {"ok"}
  ELSE IF port_flow_locate_tunnel_id(ops.id) = {} THEN {"locate"}
  ELSE IF ~open THEN {IF ops.actions THEN "decap" ELSE "match"}
  ELSE {"ok"}
       \cup (IF ops.actions THEN {"decap", "decap_nomem"} ELSE {})
       \cup (IF ops.items THEN {"match", "match_nomem"} ELSE {})

(* The tunnel when the preparation has ended that way.  Nothing undoes the *)
(* actions when the items fail, and without memory for the actions a NULL  *)
(* array is given back in place of the device's.                           *)
port_flow_tunnel_offload_cmd_prep(pft, ops, answer) ==
  LET lent == ops.actions /\ answer # "decap"
      made == lent /\ answer # "decap_nomem"
      both == ops.items /\ answer \notin {"decap", "decap_nomem", "match"}
  IN [pft EXCEPT
        !.actions = IF lent THEN made ELSE @,
        !.items   = IF both THEN answer # "match_nomem" ELSE @,
        !.held    = @ + (IF lent THEN 1 ELSE 0)
                      + (IF both /\ answer # "match_nomem" THEN 1 ELSE 0)]

(* Mutant: the pointer to the actions is left behind.                      *)
port_flow_tunnel_offload_cmd_release_actions(pft, ops) ==
  [pft EXCEPT !.items = IF ops.items THEN FALSE ELSE @,
              !.held  = @ - (IF ops.actions THEN 1 ELSE 0)
                          - (IF ops.items THEN 1 ELSE 0)]

port_flow_tunnel_offload_cmd_release(pft, ops) ==
  [pft EXCEPT !.actions = IF ops.actions THEN FALSE ELSE @,
              !.items   = IF ops.items THEN FALSE ELSE @,
              !.held    = @ - (IF ops.actions THEN 1 ELSE 0)
                            - (IF ops.items THEN 1 ELSE 0)]

(* The tunnels when op has been done to the one that the command names.    *)
WithTunnel(ops, Op(_)) ==
  [i \in DOMAIN flow_tunnel_list |->
     IF flow_tunnel_list[i].id = ops.id THEN Op(flow_tunnel_list[i])
     ELSE flow_tunnel_list[i]]
Prepared(ops, answer) ==
  WithTunnel(ops,
    LAMBDA pft : port_flow_tunnel_offload_cmd_prep(pft, ops, answer))
Released(ops) ==
  WithTunnel(ops,
    LAMBDA pft : port_flow_tunnel_offload_cmd_release(
                   port_flow_tunnel_offload_cmd_prep(pft, ops, "ok"), ops))
MayLeak == \A t \in Elements(flow_tunnel_list) : t.held <= MaxHeld - 2

(* A command whose tunnel cannot be prepared goes no further.              *)
PrepFails(ops, answer) ==
  /\ answer \in PrepAnswers(ops) \ {"ok"} /\ MayLeak
  /\ flow_tunnel_list' = Prepared(ops, answer)
  /\ Fault(IF flow_tunnel_list' # flow_tunnel_list THEN {"prepare"} ELSE {})
  /\ UNCHANGED <<flow_list, actions_list, dev_flows, dev_actions, open, dead>>

(* The rule a command with a tunnel asks for is made of the arrays that    *)
(* the tunnel holds: of those of another command, if they are still there. *)
AsGiven(ops) ==
  \A t \in port_flow_locate_tunnel_id(ops.id) :
    (t.actions => ops.actions) /\ (t.items => ops.items)

(***************************************************************************)
(* Flow rules.                                                             *)
(***************************************************************************)
port_flow_validate(ops, answer) ==
  \/ PrepFails(ops, answer)
  \/ /\ answer = "ok" /\ "ok" \in PrepAnswers(ops)
     /\ flow_tunnel_list' = Released(ops)
     /\ UNCHANGED <<flow_list, actions_list, dev_flows, dev_actions>>
     /\ UNCHANGED deviceVars

NewId == IF flow_list = <<>> THEN 0 ELSE Head(flow_list).id + 1

(* The tunnel is not given back when the rule cannot be copied.            *)
ConvFails(ops) ==
  /\ "ok" \in PrepAnswers(ops) /\ Enabled(ops) /\ MayLeak
  /\ flow_tunnel_list' = Prepared(ops, "ok")
  /\ Fault({"conv"})
  /\ UNCHANGED <<flow_list, actions_list, dev_flows, dev_actions, open, dead>>

CreateRefused(ops) ==
  /\ "ok" \in PrepAnswers(ops) /\ Enabled(ops)
  /\ flow_tunnel_list' = Released(ops)
  /\ UNCHANGED <<flow_list, actions_list, dev_flows, dev_actions>>
  /\ UNCHANGED deviceVars

port_flow_create(attr, age, ops, answer) ==
  /\ NewId <= MaxId
  /\ \/ PrepFails(ops, answer)
     \/ answer = "conv" /\ ConvFails(ops)
     \/ answer = "refused" /\ CreateRefused(ops)
     \/ /\ answer = "ok" /\ "ok" \in PrepAnswers(ops)
        /\ open /\ CanAllocate /\ Flows # Objects
        /\ LET flow == Fresh(Objects, Flows)
           IN /\ flow_list' =
                   <<[id |-> NewId, obj |-> NewObject, flow |-> flow,
                      attr |-> attr, given |-> AsGiven(ops)]>> \o flow_list
              /\ dev_flows' = dev_flows \cup
                   {[flow |-> flow, ctx |-> IF age THEN NewObject ELSE NULL,
                     aged |-> FALSE]}
        /\ flow_tunnel_list' = Released(ops)
        /\ UNCHANGED <<actions_list, dev_actions>>
        /\ UNCHANGED deviceVars

(* The rules taken off the list and off the device.                        *)
TakeOff(rules) ==
  /\ flow_list' = Kept(flow_list, Elements(flow_list) \ rules)
  /\ dev_flows' =
       {f \in dev_flows : f.flow \notin {r.flow : r \in rules}}

(* The device may refuse any of the rules that are named, which stays; the *)
(* others go.                                                              *)
port_flow_destroy(rule) ==
  /\ open
  /\ TakeOff({r \in Elements(flow_list) : r.id \in rule})
  /\ UNCHANGED <<actions_list, flow_tunnel_list, dev_actions>>
  /\ UNCHANGED deviceVars

(* Mutant: the list is left as it is.                                      *)
Flush_listed(left) ==
  /\ flow_list' = flow_list /\ dev_flows' = left
  /\ Fault(IF dev_flows' # {} THEN {"flush"} ELSE {})

(* Whatever the device says of the flush, the list is emptied.             *)
Flush(left) ==
  /\ flow_list' = <<>>
  /\ dev_flows' = IF flow_list = <<>> THEN dev_flows ELSE left
  /\ Fault(IF dev_flows' # {} THEN {"flush"} ELSE {})

port_flow_flush(left) ==
  /\ open /\ flow_list # <<>>
  /\ Flush(left)
  /\ UNCHANGED <<actions_list, flow_tunnel_list, dev_actions, open, dead>>

(* dump and query hand the device the flow of a rule, or a handle that is  *)
(* gone.                                                                   *)
CallWith(known) ==
  /\ open
  /\ IF known THEN UNCHANGED deviceVars ELSE Dies("handle")
  /\ UNCHANGED flowVars

port_flow_dump(rule) ==
  \E r \in Elements(flow_list) : r.id = rule /\ CallWith(r.flow \in Flows)

port_flow_query(rule, type) ==
  /\ type \in {"count", "rss", "age"}
  /\ \E r \in Elements(flow_list) : r.id = rule /\ CallWith(r.flow \in Flows)

(* A rule or an indirect action goes without traffic for its time.         *)
Age ==
  /\ \/ \E f \in dev_flows :
          /\ f.ctx # NULL /\ ~f.aged
          /\ dev_flows' = (dev_flows \ {f}) \cup {[f EXCEPT !.aged = TRUE]}
          /\ UNCHANGED dev_actions
     \/ \E h \in dev_actions :
          /\ h.ctx # NULL /\ ~h.aged
          /\ dev_actions' = (dev_actions \ {h}) \cup {[h EXCEPT !.aged = TRUE]}
          /\ UNCHANGED dev_flows
  /\ UNCHANGED <<flow_list, actions_list, flow_tunnel_list>>
  /\ UNCHANGED deviceVars

Contexts ==
  {x.ctx : x \in {f \in dev_flows : f.aged} \cup {h \in dev_actions : h.aged}}

(* Each context is taken for the object whose address it is; destroyed are *)
(* those that are destroyed, none if the command does not ask for it.      *)
port_flow_aged(destroyed) ==
  /\ open /\ Contexts # {}
  /\ IF Contexts \subseteq Used
     THEN /\ TakeOff({r \in Elements(flow_list) : r.obj \in destroyed})
          /\ UNCHANGED deviceVars
     ELSE Dies("context") /\ UNCHANGED <<flow_list, dev_flows>>
  /\ UNCHANGED <<actions_list, flow_tunnel_list, dev_actions>>

(* The rules of the groups, in the order in which they are printed: each   *)
(* is linked in before the first that it does not follow.                  *)
Follows(r, s) ==
  \/ r.attr.group > s.attr.group
  \/ r.attr.group = s.attr.group /\ r.attr.priority > s.attr.priority
  \/ /\ r.attr.group = s.attr.group /\ r.attr.priority = s.attr.priority
     /\ r.id > s.id
(* Mutant: the rule is linked in before the last that it does not follow.  *)
LinkIn_last(list, r) ==
  LET later == {i \in DOMAIN list : ~Follows(r, list[i])}
  IN IF later = {} THEN Append(list, r)
     ELSE InsertAt(list, Max(later), r)

LinkIn(list, r) ==
  LET later == {i \in DOMAIN list : ~Follows(r, list[i])}
  IN IF later = {} THEN Append(list, r)
     ELSE InsertAt(list, Min(later), r)
port_flow_list(group) ==
  LET rules == Kept(flow_list, {r \in Elements(flow_list) :
                                  group = {} \/ r.attr.group \in group})
      linked[n \in 0 .. Len(rules)] ==
        IF n = 0 THEN <<>> ELSE LinkIn(linked[n - 1], rules[n])
  IN linked[Len(rules)]

(***************************************************************************)
(* Indirect actions.  The identifier UINT32_MAX asks for the first that    *)
(* is free above the others.                                               *)
(***************************************************************************)
AllocatedId(id) ==
  IF id # MaxId THEN id
  ELSE IF actions_list = <<>> THEN 0 ELSE Head(actions_list).id + 1

(* Mutant: the highest identifier is not looked for.                       *)
CanAlloc_highest(id) ==
  CanAllocate /\ AllocatedId(id) \notin Ids(actions_list)

CanAlloc(id) ==
  /\ CanAllocate
  /\ id = MaxId /\ actions_list # <<>> => Head(actions_list).id # MaxId - 1
  /\ AllocatedId(id) \notin Ids(actions_list)

(* actions_list when pia has been linked in, in front of the lower ones.   *)
action_alloc(pia) ==
  LET higher == {a \in Elements(actions_list) : a.id > pia.id}
  IN Kept(actions_list, higher) \o <<pia>> \o
     Kept(actions_list, Elements(actions_list) \ higher)

(* An action that the device refuses is taken off the list again.          *)
port_action_handle_create(id, type, created) ==
  /\ open /\ CanAlloc(id)
  /\ IF created
     THEN LET handle == Fresh(Objects, Handles)
          IN /\ actions_list' =
                  action_alloc([id |-> AllocatedId(id), obj |-> NewObject,
                                type |-> type, handle |-> handle])
             /\ dev_actions' = dev_actions \cup
                  {[handle |-> handle, aged |-> FALSE,
                    ctx |-> IF type = "age" THEN NewObject ELSE NULL]}
     ELSE UNCHANGED <<actions_list, dev_actions>>
  /\ UNCHANGED <<flow_list, flow_tunnel_list, dev_flows>>
  /\ UNCHANGED deviceVars

(* Mutant: the action is freed though the device refuses to destroy it.    *)
port_action_handle_destroy_freed(actions) ==
  /\ open
  /\ actions_list' =
       Kept(actions_list, {a \in Elements(actions_list) : a.id \notin actions})
  /\ UNCHANGED <<flow_list, flow_tunnel_list, dev_flows, dev_actions>>
  /\ UNCHANGED deviceVars

port_action_handle_destroy(actions) ==
  LET gone == {a \in Elements(actions_list) : a.id \in actions}
  IN /\ open
     /\ IF \A a \in gone : a.handle \in Handles
        THEN /\ actions_list' =
                  Kept(actions_list, Elements(actions_list) \ gone)
             /\ dev_actions' = {h \in dev_actions :
                                  h.handle \notin {a.handle : a \in gone}}
             /\ UNCHANGED deviceVars
        ELSE Dies("handle") /\ UNCHANGED <<actions_list, dev_actions>>
     /\ UNCHANGED <<flow_list, flow_tunnel_list, dev_flows>>

action_get_by_id(id) == {a \in Elements(actions_list) : a.id = id}

port_action_handle_get_by_id(id) == {a.handle : a \in action_get_by_id(id)}

port_action_handle_update(id) ==
  \E handle \in port_action_handle_get_by_id(id) : CallWith(handle \in Handles)

port_action_handle_query(id) ==
  \E pia \in action_get_by_id(id) :
    pia.type \in {"age", "count"} /\ CallWith(pia.handle \in Handles)

(***************************************************************************)
(* The device goes: its rules and its indirect actions are no more.  The   *)
(* rules have been flushed before; the indirect actions and the tunnels    *)
(* stay on the lists of the port.                                          *)
(***************************************************************************)
FlowsOfClosedPort ==
  /\ flow_list' = <<>>
  /\ dev_flows' = {} /\ dev_actions' = {}
  /\ actions_list' = [i \in DOMAIN actions_list |->
                        [actions_list[i] EXCEPT !.handle = GONE]]
  /\ UNCHANGED flow_tunnel_list

ActionsKept == IF actions_list # <<>> THEN {"actions_kept"} ELSE {}
=============================================================================
