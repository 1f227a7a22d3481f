-------------------------- MODULE PortResources_proofs --------------------------
(***************************************************************************)
(* Theorems about the tables of a port, for every number of rules,         *)
(* indirect actions, tunnels, addresses and flex items: their types, and   *)
(* that they list what the device holds.                                   *)
(***************************************************************************)
EXTENDS PortResources, Operators_proofs, FiniteSetTheorems

-----------------------------------------------------------------------------
(* Lists whose identifiers descend.                                        *)

Falls(list) == \A i, j \in DOMAIN list : i < j => list[i].id > list[j].id

(* The elements of a list, by position.                                    *)
LEMMA ElementsOfSeq ==
  ASSUME NEW T, NEW list \in Seq(T)
  PROVE  /\ Len(list) \in Nat /\ DOMAIN list = 1 .. Len(list)
         /\ Elements(list) \subseteq T
         /\ Elements(list) = Range(list)
<1>1. /\ Len(list) \in Nat /\ DOMAIN list = 1 .. Len(list)
      /\ \A i \in 1 .. Len(list) : list[i] \in T
  BY LenProperties, ElementOfSeq
<1> QED
  BY <1>1 DEF Elements, Range

(* The empty list has none.                                                *)
LEMMA ElementsOfEmpty ==
  /\ Elements(<<>>) = {} /\ Falls(<<>>)
  /\ \A T : <<>> \in Seq(T)
<1>1. \A T : <<>> \in Seq(T)
  BY EmptySeq
<1>2. Len(<<>>) = 0 /\ DOMAIN <<>> = 1 .. 0
  BY EmptySeq, LenProperties, ElementsOfSeq, <<>> \in Seq({})
<1>3. \A i \in DOMAIN <<>> : FALSE
  BY <1>2
<1> QED
  BY <1>1, <1>3 DEF Elements, Falls

(* Keeping some elements of a list keeps their order.                      *)
LEMMA KeptElements ==
  ASSUME NEW T, NEW list \in Seq(T), NEW S
  PROVE  /\ Kept(list, S) \in Seq(T)
         /\ Elements(Kept(list, S)) = Elements(list) \cap S
         /\ Falls(list) => Falls(Kept(list, S))
<1> DEFINE s == Kept(list, S)
<1>1. s \in Seq(T)
  BY KeptEmbeds
<1>2. Range(s) = Range(list) \cap S
  BY KeptRange
<1>3. PICK f : Embeds(list, S, Len(list), s, f)
  BY KeptEmbeds
<1> HIDE DEF s
<1>4. Elements(s) = Elements(list) \cap S
  BY <1>1, <1>2, ElementsOfSeq
<1>5. ASSUME Falls(list) PROVE Falls(s)
  <2>1. /\ DOMAIN s = 1 .. Len(s) /\ DOMAIN list = 1 .. Len(list)
    BY <1>1, ElementsOfSeq
  <2>2. /\ \A i \in 1 .. Len(s) : f[i] \in 1 .. Len(list) /\ s[i] = list[f[i]]
        /\ \A i, j \in 1 .. Len(s) : i < j => f[i] < f[j]
    BY <1>3 DEF Embeds
  <2> QED
    BY <1>5, <2>1, <2>2 DEF Falls
<1> QED
  BY <1>1, <1>4, <1>5 DEF s
(* One list after another.                                                 *)
LEMMA JoinedElements ==
  ASSUME NEW T, NEW s \in Seq(T), NEW t \in Seq(T)
  PROVE  /\ s \o t \in Seq(T)
         /\ Elements(s \o t) = Elements(s) \cup Elements(t)
         /\ Falls(s) /\ Falls(t)
              /\ (\A x \in Elements(s), y \in Elements(t) : x.id > y.id)
              => Falls(s \o t)
<1> DEFINE u == s \o t
<1>1. /\ u \in Seq(T) /\ Len(u) = Len(s) + Len(t)
      /\ \A i \in 1 .. Len(s) + Len(t) :
           u[i] = IF i <= Len(s) THEN s[i] ELSE t[i - Len(s)]
  BY ConcatProperties
<1> HIDE DEF u
<1>2. /\ Len(s) \in Nat /\ Len(t) \in Nat
      /\ DOMAIN s = 1 .. Len(s) /\ DOMAIN t = 1 .. Len(t)
      /\ DOMAIN u = 1 .. Len(s) + Len(t)
  BY <1>1, ElementsOfSeq
<1>3. \A i \in DOMAIN s : i \in DOMAIN u /\ u[i] = s[i]
  BY <1>1, <1>2
<1>4. \A i \in DOMAIN t : Len(s) + i \in DOMAIN u /\ u[Len(s) + i] = t[i]
  BY <1>1, <1>2
<1>5. \A i \in DOMAIN u :
        \/ i \in DOMAIN s /\ u[i] = s[i]
        \/ i - Len(s) \in DOMAIN t /\ u[i] = t[i - Len(s)] /\ i > Len(s)
  BY <1>1, <1>2
<1>6. Elements(u) = Elements(s) \cup Elements(t)
  <2>1. ASSUME NEW x \in Elements(u) PROVE x \in Elements(s) \cup Elements(t)
    BY <1>5 DEF Elements
  <2>2. ASSUME NEW x \in Elements(s) PROVE x \in Elements(u)
    BY <1>3 DEF Elements
  <2>3. ASSUME NEW x \in Elements(t) PROVE x \in Elements(u)
    <3>1. PICK i \in DOMAIN t : x = t[i]
      BY <2>3 DEF Elements
    <3>2. Len(s) + i \in DOMAIN u /\ u[Len(s) + i] = x
      BY <1>4, <3>1
    <3> QED
      BY <3>2 DEF Elements
  <2> QED
    BY <2>1, <2>2, <2>3
<1>7. ASSUME Falls(s), Falls(t),
             \A x \in Elements(s), y \in Elements(t) : x.id > y.id
      PROVE  Falls(u)
  <2> SUFFICES ASSUME NEW i \in DOMAIN u, NEW j \in DOMAIN u, i < j
               PROVE  u[i].id > u[j].id
    BY DEF Falls
  <2>1. CASE j \in DOMAIN s
    <3>1. i \in DOMAIN s
      BY <2>1, <1>2
    <3> QED
      BY <2>1, <3>1, <1>3, <1>7 DEF Falls
  <2>2. CASE i \in DOMAIN s /\ j \notin DOMAIN s
    <3>1. u[i] = s[i] /\ j - Len(s) \in DOMAIN t /\ u[j] = t[j - Len(s)]
      BY <2>2, <1>3, <1>5
    <3>2. u[i] \in Elements(s) /\ u[j] \in Elements(t)
      BY <2>2, <3>1 DEF Elements
    <3> QED
      BY <3>2, <1>7
  <2>3. CASE i \notin DOMAIN s
    <3>1. j \notin DOMAIN s
      BY <2>3, <1>2
    <3>2. /\ i - Len(s) \in DOMAIN t /\ u[i] = t[i - Len(s)]
          /\ j - Len(s) \in DOMAIN t /\ u[j] = t[j - Len(s)]
      BY <2>3, <3>1, <1>5
    <3>3. i - Len(s) < j - Len(s)
      BY <1>2
    <3> QED
      BY <3>2, <3>3, <1>7 DEF Falls
  <2> QED
    BY <2>1, <2>2, <2>3
<1> QED
  BY <1>1, <1>6, <1>7 DEF u

(* A list of one element.                                                  *)
LEMMA OneElement ==
  ASSUME NEW T, NEW x \in T
  PROVE  <<x>> \in Seq(T) /\ Elements(<<x>>) = {x} /\ Falls(<<x>>)
<1>1. <<x>> \in Seq(T) /\ DOMAIN <<x>> = 1 .. 1 /\ <<x>>[1] = x
  OBVIOUS
<1>2. Elements(<<x>>) = {x}
  BY <1>1 DEF Elements
<1>3. Falls(<<x>>)
  BY <1>1 DEF Falls
<1> QED
  BY <1>1, <1>2, <1>3

(* A new element in front, with a higher identifier than the others.       *)
LEMMA PrependedElements ==
  ASSUME NEW T, NEW list \in Seq(T), NEW x \in T
  PROVE  /\ <<x>> \o list \in Seq(T)
         /\ Elements(<<x>> \o list) = Elements(list) \cup {x}
         /\ Falls(list) /\ (\A y \in Elements(list) : x.id > y.id)
              => Falls(<<x>> \o list)
<1>1. <<x>> \in Seq(T) /\ Elements(<<x>>) = {x} /\ Falls(<<x>>)
  BY OneElement
<1> HIDE DEF Elements
<1>2. /\ <<x>> \o list \in Seq(T)
      /\ Elements(<<x>> \o list) = Elements(<<x>>) \cup Elements(list)
      /\ Falls(<<x>>) /\ Falls(list)
              /\ (\A z \in Elements(<<x>>), y \in Elements(list) : z.id > y.id)
              => Falls(<<x>> \o list)
  BY <1>1, JoinedElements
<1> QED
  BY <1>1, <1>2

(* The first element of a list that descends has the highest identifier.   *)
LEMMA HeadHighest ==
  ASSUME NEW T, NEW list \in Seq(T), list # <<>>
  PROVE  /\ Head(list) \in Elements(list)
         /\ Falls(list) =>
              \A y \in Elements(list) : y = Head(list) \/ Head(list).id > y.id
<1>1. /\ Len(list) \in Nat /\ DOMAIN list = 1 .. Len(list)
      /\ 1 \in DOMAIN list /\ Head(list) = list[1]
  BY ElementsOfSeq, HeadTailProperties, EmptySeq, LenProperties
<1>2. \A i \in DOMAIN list : i = 1 \/ 1 < i
  BY <1>1
<1> QED
  BY <1>1, <1>2 DEF Elements, Falls
-----------------------------------------------------------------------------
(* What the driver and the allocator hand out.                             *)

(* A set of numbers that is not empty has a lowest.                        *)
LEMMA LowestNumber ==
  ASSUME NEW S \in SUBSET Nat, S # {}
  PROVE  Min(S) \in S /\ \A y \in S : Min(S) <= y
<1> DEFINE Has == \E x \in S : \A y \in S : x <= y
           A == {n \in Nat : (\E m \in S : m <= n) => Has}
<1>1. 0 \in A
  <2>1. ASSUME NEW m \in S, m <= 0 PROVE Has
    <3>1. \A y \in S : m <= y
      BY <2>1
    <3> QED
      BY <3>1
  <2> QED
    BY <2>1
<1>2. ASSUME NEW n \in Nat, n \in A PROVE n + 1 \in A
  <2> SUFFICES ASSUME NEW m \in S, m <= n + 1 PROVE Has
    OBVIOUS
  <2>1. CASE \E k \in S : k <= n
    BY <1>2, <2>1
  <2>2. CASE \A k \in S : ~(k <= n)
    <3>1. \A y \in S : m <= y
      BY <2>2
    <3> QED
      BY <3>1
  <2> QED
    BY <2>1, <2>2
<1> HIDE DEF A
<1>3. Nat \subseteq A
  BY <1>1, <1>2, SetInduction
<1>4. PICK n \in S : TRUE
  OBVIOUS
<1>5. Has
  BY <1>3, <1>4 DEF A
<1> QED
  BY <1>5 DEF Min

(* What is handed out is free.                                             *)
LEMMA FreshIsFree ==
  ASSUME NEW S \in SUBSET Nat, NEW used, S \ used # {}
  PROVE  Fresh(S, used) \in S /\ Fresh(S, used) \notin used
BY LowestNumber, S \ used \in SUBSET Nat DEF Fresh

LEMMA ObjectsAreNumbers ==
  /\ Objects \subseteq Nat /\ NULL \notin Objects /\ GONE \notin Objects
  /\ MaxId \in Nat \ {0}
BY FlowsAssumption DEF Objects, NULL, GONE

-----------------------------------------------------------------------------
(* Types of the entries of the tables, and how the tables move.            *)

Rule == [id : 0 .. MaxId, obj : Objects, flow : Objects,
         attr : Attributes, given : BOOLEAN]
DevFlow == [flow : Objects, ctx : Objects \cup {NULL}, aged : BOOLEAN]
Action == [id : 0 .. MaxId - 1, obj : Objects, type : {"age", "conntrack"},
           handle : Objects \cup {GONE}]
DevAction == [handle : Objects, ctx : Objects \cup {NULL}, aged : BOOLEAN]
Tunnel == [id : 1 .. MaxTunnelId, type : Offloads, actions : BOOLEAN,
           items : BOOLEAN, held : 0 .. MaxHeld]

FlowTypes == flow_list \in Seq(Rule) /\ dev_flows \subseteq DevFlow
ActionTypes == actions_list \in Seq(Action) /\ dev_actions \subseteq DevAction
TunnelTypes == flow_tunnel_list \in Seq(Tunnel)

FaultStays(fault) == fault \in faults => fault \in faults'

(* The rules: nothing happens to them; one is created; some are taken off; *)
(* all are flushed, or lost with the device; one ages.                     *)
FlowsSame ==
  flow_list' = flow_list /\ dev_flows' = dev_flows /\ FaultStays("flush")
FlowsCreated ==
  /\ NewId <= MaxId /\ CanAllocate /\ Flows # Objects /\ faults' = faults
  /\ \E attr \in Attributes, ctx \in {NewObject, NULL}, ops \in TunnelOps :
       LET flow == Fresh(Objects, Flows)
       IN /\ flow_list' =
               <<[id |-> NewId, obj |-> NewObject, flow |-> flow,
                  attr |-> attr, given |-> AsGiven(ops)]>> \o flow_list
          /\ dev_flows' =
               dev_flows \cup {[flow |-> flow, ctx |-> ctx, aged |-> FALSE]}
FlowsTaken ==
  faults' = faults /\ \E rules \in SUBSET Elements(flow_list) : TakeOff(rules)
FlowsGone ==
  /\ flow_list' = <<>> /\ dev_flows' \subseteq dev_flows
  /\ dev_flows' # {} => "flush" \in faults'
FlowsAged ==
  /\ flow_list' = flow_list /\ faults' = faults
  /\ \E f \in dev_flows :
       dev_flows' = (dev_flows \ {f}) \cup {[f EXCEPT !.aged = TRUE]}
FlowsMove ==
  FlowsSame \/ FlowsCreated \/ FlowsTaken \/ FlowsGone \/ FlowsAged

(* Creating a rule.                                                        *)
LEMMA CreateMovesFlows ==
  ASSUME FlowCreate PROVE FlowsMove
<1>0. PICK kind \in RuleKinds :
        \E answer \in PrepAnswers(kind[3]) \cup {"conv", "refused"} :
          port_flow_create(kind[1], kind[2], kind[3], answer)
  BY DEF FlowCreate
<1>1. PICK answer \in PrepAnswers(kind[3]) \cup {"conv", "refused"} :
        port_flow_create(kind[1], kind[2], kind[3], answer)
  BY <1>0
<1>2. kind[1] \in Attributes /\ kind[3] \in TunnelOps
  <2>1. (CHOOSE attr \in Attributes : TRUE) \in Attributes
    BY FlowsAssumption
  <2>2. NoTunnel \in TunnelOps
    BY DEF TunnelOps
  <2> QED
    BY <2>1, <2>2 DEF RuleKinds
<1> DEFINE ops == kind[3]
<1>3. CASE PrepFails(ops, answer)
  BY <1>3 DEF PrepFails, Fault, FlowsMove, FlowsSame, FaultStays
<1>4. CASE ConvFails(ops)
  BY <1>4 DEF ConvFails, Fault, FlowsMove, FlowsSame, FaultStays
<1>5. CASE CreateRefused(ops)
  BY <1>5 DEF CreateRefused, deviceVars, FlowsMove, FlowsSame, FaultStays
<1>6. CASE ~PrepFails(ops, answer) /\ ~ConvFails(ops) /\ ~CreateRefused(ops)
  <2>1. /\ NewId <= MaxId /\ CanAllocate /\ Flows # Objects
        /\ LET flow == Fresh(Objects, Flows)
           IN /\ flow_list' =
                   <<[id |-> NewId, obj |-> NewObject, flow |-> flow,
                      attr |-> kind[1], given |-> AsGiven(ops)]>> \o flow_list
              /\ dev_flows' = dev_flows \cup
                   {[flow |-> flow,
                     ctx |-> IF kind[2] THEN NewObject ELSE NULL,
                     aged |-> FALSE]}
        /\ faults' = faults
    BY <1>1, <1>6 DEF port_flow_create, deviceVars
  <2>2. (IF kind[2] THEN NewObject ELSE NULL) \in {NewObject, NULL}
    OBVIOUS
  <2>3. FlowsCreated
    BY <1>2, <2>1, <2>2 DEF FlowsCreated
  <2> QED
    BY <2>3 DEF FlowsMove
<1> QED
  BY <1>3, <1>4, <1>5, <1>6

(* Every step of the session is one of these for the rules.                *)
LEMMA FlowsMoves ==
  ASSUME TypeOK, [Next]_vars
  PROVE  FlowsMove
<1> USE DEF FlowsMove
<1>1. CASE FlowCreate
  BY <1>1, CreateMovesFlows
<1>2. CASE FlowValidate
  BY <1>2 DEF FlowValidate, port_flow_validate, PrepFails, Fault, deviceVars,
              FlowsSame, FaultStays
<1>3. CASE FlowDestroy
  <2>1. PICK rule \in SUBSET Ids(flow_list) :
          /\ TakeOff({r \in Elements(flow_list) : r.id \in rule})
          /\ faults' = faults
    BY <1>3 DEF FlowDestroy, port_flow_destroy, deviceVars
  <2> QED
    BY <2>1 DEF FlowsTaken
<1>4. CASE FlowFlush
  BY <1>4 DEF FlowFlush, port_flow_flush, Flush, Fault, FlowsGone
<1>5. CASE FlowUse
  BY <1>5 DEF FlowUse, port_flow_dump, port_flow_query, CallWith, Dies,
              deviceVars, flowVars, FlowsSame, FaultStays
<1>6. CASE FlowAges
  BY <1>6 DEF FlowAges, Age, deviceVars, FlowsAged, FlowsSame, FaultStays
<1>7. CASE FlowAged
  <2>1. PICK destroyed \in SUBSET Contexts : port_flow_aged(destroyed)
    BY <1>7 DEF FlowAged
  <2>2. CASE Contexts \subseteq Used
    <3>1. /\ TakeOff({r \in Elements(flow_list) : r.obj \in destroyed})
          /\ faults' = faults
      BY <2>1, <2>2 DEF port_flow_aged, deviceVars
    <3> QED
      BY <3>1 DEF FlowsTaken
  <2>3. CASE ~(Contexts \subseteq Used)
    BY <2>1, <2>3 DEF port_flow_aged, Dies, FlowsSame, FaultStays
  <2> QED
    BY <2>2, <2>3
<1>8. CASE TunnelCreate \/ TunnelDestroy
  BY <1>8 DEF TunnelCreate, TunnelDestroy, port_flow_tunnel_create,
              port_flow_tunnel_destroy, deviceVars, FlowsSame, FaultStays
<1>9. CASE ActionCreate \/ ActionDestroy
  BY <1>9 DEF ActionCreate, ActionDestroy, port_action_handle_create,
              port_action_handle_destroy, deviceVars, Dies, FlowsSame,
              FaultStays
<1>10. CASE ActionUse
  BY <1>10 DEF ActionUse, port_action_handle_update, port_action_handle_query,
               CallWith, Dies, deviceVars, flowVars, FlowsSame, FaultStays
<1>11. CASE McastAdd \/ McastRemove
  BY <1>11 DEF McastAdd, McastRemove, mcast_addr_add, mcast_addr_remove,
               flowVars, deviceVars, Fault, Dies, FlowsSame, FaultStays
<1>12. CASE FlexCreate \/ FlexDestroy \/ FlexPattern
  BY <1>12 DEF FlexCreate, FlexDestroy, FlexPattern, flex_item_create,
               flex_item_destroy, flex_pattern_parsed_fn, flowVars,
               deviceVars, Fault, Dies, FlowsSame, FaultStays
<1>13. CASE ClosePort \/ DetachPort
  BY <1>13 DEF ClosePort, DetachPort, FlowsOfClosedPort, FlowsGone
<1>14. CASE AttachPort \/ Ended \/ UNCHANGED vars
  BY <1>14 DEF AttachPort, Ended, vars, flowVars, deviceVars, FlowsSame,
               FaultStays
<1> QED
  BY <1>1, <1>2, <1>3, <1>4, <1>5, <1>6, <1>7, <1>8, <1>9, <1>10, <1>11,
     <1>12, <1>13, <1>14 DEF Next

(* The rules listed and those of the device are the same; each has its own *)
(* identifier and its own flow; and the context of a flow is the object of *)
(* its rule.                                                               *)
Matched(f, r) == r.flow = f.flow /\ (f.ctx # NULL => r.obj = f.ctx)
FlowsInv ==
  /\ Falls(flow_list)
  /\ \A r, s \in Elements(flow_list) : r.flow = s.flow => r = s
  /\ \A r \in Elements(flow_list) : \E f \in dev_flows : f.flow = r.flow
  /\ "flush" \notin faults =>
       \A f \in dev_flows : \E r \in Elements(flow_list) : Matched(f, r)

(* A new object of calloc.                                                 *)
LEMMA NewObjectFree ==
  ASSUME FlowTypes, ActionTypes, CanAllocate
  PROVE  NewObject \in Objects /\ NewObject \notin Used
<1>1. /\ Elements(flow_list) \subseteq Rule
      /\ Elements(actions_list) \subseteq Action
  BY ElementsOfSeq DEF FlowTypes, ActionTypes
<1>2. Used \subseteq Objects
  BY <1>1 DEF Used, Rule, Action
<1>3. Objects \ Used # {}
  BY <1>2 DEF CanAllocate
<1> QED
  BY <1>3, FreshIsFree, ObjectsAreNumbers DEF NewObject

(* What a new rule is made of.                                             *)
LEMMA NewRule ==
  ASSUME FlowTypes, ActionTypes, FlowsInv,
         CanAllocate, Flows # Objects, NewId <= MaxId
  PROVE  /\ NewId \in 0 .. MaxId /\ NewObject \in Objects
         /\ Fresh(Objects, Flows) \in Objects
         /\ \A f \in dev_flows : f.flow # Fresh(Objects, Flows)
         /\ \A r \in Elements(flow_list) : NewId > r.id
<1>1. Flows \subseteq Objects
  BY DEF Flows, FlowTypes, DevFlow
<1>2. /\ Fresh(Objects, Flows) \in Objects
      /\ Fresh(Objects, Flows) \notin Flows
  BY <1>1, FreshIsFree, ObjectsAreNumbers, Objects \ Flows # {}
<1>3. NewObject \in Objects
  BY NewObjectFree
<1>4. /\ Elements(flow_list) \subseteq Rule
      /\ flow_list # <<>> =>
           /\ Head(flow_list) \in Elements(flow_list)
           /\ \A y \in Elements(flow_list) :
                y = Head(flow_list) \/ Head(flow_list).id > y.id
  BY ElementsOfSeq, HeadHighest DEF FlowTypes, FlowsInv
<1>5. \A r \in Elements(flow_list) : r.id \in Nat
  BY <1>4, ObjectsAreNumbers DEF Rule
<1>6. NewId \in 0 .. MaxId
  BY <1>4, <1>5, ObjectsAreNumbers DEF NewId
<1>7. \A r \in Elements(flow_list) : NewId > r.id
  <2>1. CASE flow_list = <<>>
    BY <2>1, ElementsOfEmpty
  <2>2. CASE flow_list # <<>>
    BY <2>2, <1>4, <1>5 DEF NewId
  <2> QED
    BY <2>1, <2>2
<1> QED
  BY <1>2, <1>3, <1>6, <1>7 DEF Flows

(* The types and the invariant of the rules are kept by every move.        *)
LEMMA FlowsStep ==
  ASSUME FlowTypes, ActionTypes, FlowsInv, FlowsMove
  PROVE  FlowTypes' /\ FlowsInv'
<1>1. CASE FlowsSame
  BY <1>1 DEF FlowsSame, FaultStays, FlowTypes, FlowsInv
<1>2. CASE FlowsCreated
  <2>1. PICK attr \in Attributes, ctx \in {NewObject, NULL}, ops \in TunnelOps :
          LET flow == Fresh(Objects, Flows)
          IN /\ flow_list' =
                  <<[id |-> NewId, obj |-> NewObject, flow |-> flow,
                     attr |-> attr, given |-> AsGiven(ops)]>> \o flow_list
             /\ dev_flows' =
                  dev_flows \cup {[flow |-> flow, ctx |-> ctx, aged |-> FALSE]}
    BY <1>2 DEF FlowsCreated
  <2> DEFINE flow == Fresh(Objects, Flows)
             given == AsGiven(ops)
             rule == [id |-> NewId, obj |-> NewObject, flow |-> flow,
                      attr |-> attr, given |-> given]
             new == [flow |-> flow, ctx |-> ctx, aged |-> FALSE]
  <2>2. /\ NewId \in 0 .. MaxId /\ NewObject \in Objects /\ flow \in Objects
        /\ \A f \in dev_flows : f.flow # flow
        /\ \A r \in Elements(flow_list) : NewId > r.id
    BY <1>2, NewRule DEF FlowsCreated
  <2>3. given \in BOOLEAN
    BY DEF AsGiven
  <2>4. flow_list' = <<rule>> \o flow_list /\ dev_flows' = dev_flows \cup {new}
    BY <2>1
  <2> HIDE DEF given, flow
  <2>5. rule \in Rule
    BY <2>2, <2>3 DEF Rule
  <2>6. /\ rule.id = NewId /\ rule.obj = NewObject /\ rule.flow = flow
        /\ new \in DevFlow /\ new.flow = flow /\ new.ctx \in {NewObject, NULL}
    BY <2>2 DEF DevFlow
  <2> HIDE DEF rule, new
  <2>7. /\ flow_list' \in Seq(Rule)
        /\ Elements(flow_list') = Elements(flow_list) \cup {rule}
        /\ Falls(flow_list')
    BY <2>2, <2>4, <2>5, <2>6, PrependedElements DEF FlowTypes, FlowsInv
  <2>8. FlowTypes'
    BY <2>4, <2>6, <2>7 DEF FlowTypes
  <2>9. \A r \in Elements(flow_list) : r.flow # flow
    BY <2>2 DEF FlowsInv
  <2>10. \A r, s \in Elements(flow_list') : r.flow = s.flow => r = s
    BY <2>6, <2>7, <2>9 DEF FlowsInv
  <2>11. \A r \in Elements(flow_list') : \E f \in dev_flows' : f.flow = r.flow
    BY <2>4, <2>6, <2>7 DEF FlowsInv
  <2>12. "flush" \notin faults' =>
           \A f \in dev_flows' : \E r \in Elements(flow_list') : Matched(f, r)
    <3>1. Matched(new, rule)
      BY <2>6 DEF Matched
    <3>2. "flush" \notin faults' =>
            \A f \in dev_flows : \E r \in Elements(flow_list) : Matched(f, r)
      BY <1>2 DEF FlowsCreated, FlowsInv
    <3> QED
      BY <2>4, <2>7, <3>1, <3>2
  <2> QED
    BY <2>7, <2>8, <2>10, <2>11, <2>12 DEF FlowsInv
<1>3. CASE FlowsTaken
  <2>1. PICK rules \in SUBSET Elements(flow_list) : TakeOff(rules)
    BY <1>3 DEF FlowsTaken
  <2>2. /\ flow_list' \in Seq(Rule)
        /\ Elements(flow_list') = Elements(flow_list) \ rules
        /\ Falls(flow_list')
    BY <2>1, KeptElements DEF TakeOff, FlowTypes, FlowsInv
  <2>3. \A f : f \in dev_flows' <=>
                 f \in dev_flows /\ \A r \in rules : r.flow # f.flow
    BY <2>1 DEF TakeOff
  <2>4. FlowTypes'
    BY <2>2, <2>3 DEF FlowTypes
  <2>5. \A r \in Elements(flow_list') : \E f \in dev_flows' : f.flow = r.flow
    BY <2>2, <2>3 DEF FlowsInv
  <2>6. "flush" \notin faults' =>
           \A f \in dev_flows' : \E r \in Elements(flow_list') : Matched(f, r)
    BY <1>3, <2>2, <2>3 DEF FlowsTaken, FlowsInv, Matched
  <2> QED
    BY <2>2, <2>4, <2>5, <2>6 DEF FlowsInv
<1>4. CASE FlowsGone
  BY <1>4, ElementsOfEmpty DEF FlowsGone, FlowTypes, FlowsInv
<1>5. CASE FlowsAged
  <2>1. PICK f \in dev_flows :
          dev_flows' = (dev_flows \ {f}) \cup {[f EXCEPT !.aged = TRUE]}
    BY <1>5 DEF FlowsAged
  <2> DEFINE g == [f EXCEPT !.aged = TRUE]
  <2>2. g \in DevFlow /\ g.flow = f.flow /\ g.ctx = f.ctx
    BY DEF FlowTypes, DevFlow
  <2> HIDE DEF g
  <2>3. flow_list' = flow_list /\ dev_flows' = (dev_flows \ {f}) \cup {g}
    BY <1>5, <2>1 DEF FlowsAged, g
  <2>4. \A r : Matched(g, r) <=> Matched(f, r)
    BY <2>2 DEF Matched
  <2> QED
    BY <1>5, <2>2, <2>3, <2>4 DEF FlowsAged, FlowTypes, FlowsInv
<1> QED
  BY <1>1, <1>2, <1>3, <1>4, <1>5 DEF FlowsMove

-----------------------------------------------------------------------------
(* The indirect actions: nothing happens to them; one is created; some are *)
(* destroyed; one ages; their device is closed.                            *)
ActionsSame ==
  /\ actions_list' = actions_list /\ dev_actions' = dev_actions
  /\ FaultStays("actions_kept")
ActionsCreated ==
  \E id \in 0 .. MaxId, type \in {"age", "conntrack"} :
    LET handle == Fresh(Objects, Handles)
    IN /\ CanAlloc(id) /\ faults' = faults
       /\ actions_list' =
            action_alloc([id |-> AllocatedId(id), obj |-> NewObject,
                          type |-> type, handle |-> handle])
       /\ dev_actions' = dev_actions \cup
            {[handle |-> handle, aged |-> FALSE,
              ctx |-> IF type = "age" THEN NewObject ELSE NULL]}
ActionsDestroyed ==
  /\ faults' = faults
  /\ \E gone \in SUBSET Elements(actions_list) :
       /\ \A a \in gone : a.handle \in Handles
       /\ actions_list' = Kept(actions_list, Elements(actions_list) \ gone)
       /\ dev_actions' = {h \in dev_actions :
                            h.handle \notin {a.handle : a \in gone}}
ActionsAged ==
  /\ actions_list' = actions_list /\ faults' = faults
  /\ \E h \in dev_actions :
       dev_actions' = (dev_actions \ {h}) \cup {[h EXCEPT !.aged = TRUE]}
ActionsClosed ==
  /\ dev_actions' = {}
  /\ actions_list' = [i \in DOMAIN actions_list |->
                        [actions_list[i] EXCEPT !.handle = GONE]]
  /\ actions_list # <<>> => "actions_kept" \in faults'
ActionsMove ==
  \/ ActionsSame \/ ActionsCreated \/ ActionsDestroyed \/ ActionsAged
  \/ ActionsClosed

(* Every step of the session is one of these for the indirect actions.     *)
LEMMA ActionsMoves ==
  ASSUME TypeOK, [Next]_vars
  PROVE  ActionsMove
<1> USE DEF ActionsMove, ActionsSame, FaultStays
<1>1. CASE FlowCreate
  BY <1>1 DEF FlowCreate, port_flow_create, PrepFails, ConvFails,
              CreateRefused, Fault, deviceVars
<1>2. CASE FlowValidate
  BY <1>2 DEF FlowValidate, port_flow_validate, PrepFails, Fault, deviceVars
<1>3. CASE FlowDestroy
  BY <1>3 DEF FlowDestroy, port_flow_destroy, deviceVars
<1>4. CASE FlowFlush
  BY <1>4 DEF FlowFlush, port_flow_flush, Flush, Fault
<1>5. CASE FlowUse
  BY <1>5 DEF FlowUse, port_flow_dump, port_flow_query, CallWith, Dies,
              deviceVars, flowVars
<1>6. CASE FlowAges
  BY <1>6 DEF FlowAges, Age, deviceVars, ActionsAged
<1>7. CASE FlowAged
  BY <1>7 DEF FlowAged, port_flow_aged, deviceVars, Dies
<1>8. CASE TunnelCreate \/ TunnelDestroy
  BY <1>8 DEF TunnelCreate, TunnelDestroy, port_flow_tunnel_create,
              port_flow_tunnel_destroy, deviceVars
<1>9. CASE ActionCreate
  BY <1>9 DEF ActionCreate, port_action_handle_create, deviceVars,
              ActionsCreated
<1>10. CASE ActionDestroy
  <2>1. PICK actions \in SUBSET Ids(actions_list) :
          port_action_handle_destroy(actions)
    BY <1>10 DEF ActionDestroy
  <2> DEFINE gone == {a \in Elements(actions_list) : a.id \in actions}
  <2>2. CASE \A a \in gone : a.handle \in Handles
    <3>1. /\ actions_list' = Kept(actions_list, Elements(actions_list) \ gone)
          /\ dev_actions' = {h \in dev_actions :
                               h.handle \notin {a.handle : a \in gone}}
          /\ faults' = faults
      BY <2>1, <2>2 DEF port_action_handle_destroy, deviceVars
    <3>2. gone \in SUBSET Elements(actions_list)
      OBVIOUS
    <3> HIDE DEF gone
    <3>3. ActionsDestroyed
      BY <2>2, <3>1, <3>2 DEF ActionsDestroyed
    <3> QED
      BY <3>3
  <2>3. CASE ~(\A a \in gone : a.handle \in Handles)
    BY <2>1, <2>3 DEF port_action_handle_destroy, Dies
  <2> QED
    BY <2>2, <2>3
<1>11. CASE ActionUse
  BY <1>11 DEF ActionUse, port_action_handle_update, port_action_handle_query,
               CallWith, Dies, deviceVars, flowVars
<1>12. CASE McastAdd \/ McastRemove
  BY <1>12 DEF McastAdd, McastRemove, mcast_addr_add, mcast_addr_remove,
               flowVars, deviceVars, Fault, Dies
<1>13. CASE FlexCreate \/ FlexDestroy \/ FlexPattern
  BY <1>13 DEF FlexCreate, FlexDestroy, FlexPattern, flex_item_create,
               flex_item_destroy, flex_pattern_parsed_fn, flowVars,
               deviceVars, Fault, Dies
<1>14. CASE ClosePort \/ DetachPort
  BY <1>14 DEF ClosePort, DetachPort, FlowsOfClosedPort, ActionsClosed,
               ActionsKept
<1>15. CASE AttachPort \/ Ended \/ UNCHANGED vars
  BY <1>15 DEF AttachPort, Ended, vars, flowVars, deviceVars
<1> QED
  BY <1>1, <1>2, <1>3, <1>4, <1>5, <1>6, <1>7, <1>8, <1>9, <1>10, <1>11,
     <1>12, <1>13, <1>14, <1>15 DEF Next

(* Each indirect action listed has its own identifier, object and handle;  *)
(* its handle is one of the device, unless its device is no more; and the  *)
(* device has no others.                                                   *)
ActionsInv ==
  /\ Falls(actions_list)
  /\ \A a, b \in Elements(actions_list) : a.obj = b.obj => a = b
  /\ \A a, b \in Elements(actions_list) :
       a.handle = b.handle /\ a.handle # GONE => a = b
  /\ \A a \in Elements(actions_list) :
       a.handle # GONE => \E h \in dev_actions : h.handle = a.handle
  /\ \A h \in dev_actions : \E a \in Elements(actions_list) :
       a.handle = h.handle /\ (h.ctx # NULL => a.obj = h.ctx)
  /\ "actions_kept" \notin faults =>
       \A a \in Elements(actions_list) : a.handle # GONE

(* There are no more handles than objects of indirect actions, so the      *)
(* device has one left when there is memory for one more object.           *)
LEMMA HandleLeft ==
  ASSUME FlowTypes, ActionTypes, ActionsInv, CanAllocate
  PROVE  /\ Fresh(Objects, Handles) \in Objects
         /\ Fresh(Objects, Handles) \notin Handles
<1>1. Elements(actions_list) \subseteq Action
  BY ElementsOfSeq DEF ActionTypes
<1>2. ASSUME Objects \ Handles = {} PROVE FALSE
  <2> DEFINE g == [o \in Objects |->
                     CHOOSE a \in Elements(actions_list) : a.handle = o]
             f == [o \in Objects |-> g[o].obj]
  <2>1. \A o \in Objects : \E a \in Elements(actions_list) : a.handle = o
    BY <1>2 DEF Handles, ActionsInv
  <2>2. \A o \in Objects : g[o] \in Elements(actions_list) /\ g[o].handle = o
    BY <2>1
  <2> HIDE DEF g
  <2>3. f \in [Objects -> Objects]
    BY <2>2, <1>1 DEF Action
  <2>4. \A o, p \in Objects : f[o] = f[p] => o = p
    BY <2>2 DEF ActionsInv
  <2>5. \A o \in Objects : f[o] \in Used
    BY <2>2 DEF Used
  <2> HIDE DEF f
  <2>6. f \in Injection(Objects, Objects)
    BY <2>3, <2>4 DEF Injection, IsInjective
  <2>7. IsFiniteSet(Objects)
    BY FS_Interval, FlowsAssumption DEF Objects
  <2>8. f \in Surjection(Objects, Objects)
    BY <2>6, <2>7, FS_Injection
  <2>9. NewObject \in Objects /\ NewObject \notin Used
    BY NewObjectFree
  <2> QED
    BY <2>3, <2>5, <2>8, <2>9 DEF Surjection
<1> QED
  BY <1>2, FreshIsFree, ObjectsAreNumbers

(* The list with a new action in its place.                                *)
LEMMA AllocatedElements ==
  ASSUME ActionTypes, ActionsInv, NEW pia \in Action,
         \A a \in Elements(actions_list) : a.id # pia.id
  PROVE  /\ action_alloc(pia) \in Seq(Action)
         /\ Elements(action_alloc(pia)) = Elements(actions_list) \cup {pia}
         /\ Falls(action_alloc(pia))
<1> DEFINE E == Elements(actions_list)
           higher == {a \in E : a.id > pia.id}
           s == Kept(actions_list, higher)
           t == Kept(actions_list, E \ higher)
<1>1. /\ s \in Seq(Action) /\ Elements(s) = E \cap higher /\ Falls(s)
      /\ t \in Seq(Action) /\ Elements(t) = E \cap (E \ higher) /\ Falls(t)
  BY KeptElements DEF ActionTypes, ActionsInv
<1>2. /\ <<pia>> \in Seq(Action) /\ Elements(<<pia>>) = {pia}
      /\ Falls(<<pia>>)
  BY OneElement
<1>3. E \subseteq Action /\ pia.id \in Nat /\ \A a \in E : a.id \in Nat
  <2>1. E \subseteq Action
    BY ElementsOfSeq DEF ActionTypes
  <2> QED
    BY <2>1, ObjectsAreNumbers DEF Action
<1>4. action_alloc(pia) = s \o <<pia>> \o t
  BY DEF action_alloc
<1>5. /\ Elements(s) = higher /\ Elements(t) = E \ higher
  BY <1>1
<1>6. \A x \in Elements(s) : x.id > pia.id
  BY <1>5
<1>7. \A y \in Elements(t) : pia.id > y.id
  BY <1>3, <1>5
<1>8. higher \cup (E \ higher) = E
  OBVIOUS
<1> HIDE DEF higher, s, t, E
<1> DEFINE u == s \o <<pia>>
<1>9. u \in Seq(Action) /\ Elements(u) = higher \cup {pia} /\ Falls(u)
  <2>1. \A x \in Elements(s), y \in Elements(<<pia>>) : x.id > y.id
    BY <1>2, <1>6
  <2>2. /\ u \in Seq(Action)
        /\ Elements(u) = Elements(s) \cup Elements(<<pia>>)
        /\ Falls(s) /\ Falls(<<pia>>)
             /\ (\A x \in Elements(s), y \in Elements(<<pia>>) : x.id > y.id)
             => Falls(u)
    BY <1>1, <1>2, JoinedElements
  <2> QED
    BY <1>1, <1>2, <1>5, <2>1, <2>2
<1> HIDE DEF u
<1>10. \A x \in Elements(u), y \in Elements(t) : x.id > y.id
  <2>1. \A x \in higher, y \in E \ higher : x.id > y.id
    BY <1>3, <1>5, <1>6, <1>7 DEF higher
  <2> QED
    BY <1>5, <1>7, <1>9, <2>1
<1>11. /\ u \o t \in Seq(Action)
       /\ Elements(u \o t) = higher \cup {pia} \cup (E \ higher)
       /\ Falls(u \o t)
  <2>1. /\ u \o t \in Seq(Action)
        /\ Elements(u \o t) = Elements(u) \cup Elements(t)
        /\ Falls(u) /\ Falls(t)
             /\ (\A x \in Elements(u), y \in Elements(t) : x.id > y.id)
             => Falls(u \o t)
    BY <1>1, <1>9, JoinedElements
  <2> QED
    BY <1>1, <1>5, <1>9, <1>10, <2>1
<1> QED
  BY <1>4, <1>8, <1>11 DEF E, u

(* The identifier given to a new action, and one that is not in use.       *)
LEMMA NewActionId ==
  ASSUME ActionTypes, ActionsInv, NEW id \in 0 .. MaxId, CanAlloc(id)
  PROVE  /\ AllocatedId(id) \in 0 .. MaxId - 1
         /\ \A a \in Elements(actions_list) : a.id # AllocatedId(id)
<1>1. Elements(actions_list) \subseteq Action
  BY ElementsOfSeq DEF ActionTypes
<1>2. AllocatedId(id) \in 0 .. MaxId - 1
  <2>1. CASE actions_list = <<>>
    BY <2>1, ObjectsAreNumbers DEF AllocatedId
  <2>2. CASE actions_list # <<>>
    <3>1. Head(actions_list).id \in 0 .. MaxId - 1
      BY <2>2, <1>1, HeadHighest DEF ActionTypes, Action
    <3> QED
      BY <2>2, <3>1, ObjectsAreNumbers DEF AllocatedId, CanAlloc
  <2> QED
    BY <2>1, <2>2
<1>3. \A a \in Elements(actions_list) : a.id # AllocatedId(id)
  BY DEF CanAlloc, Ids, Elements
<1> QED
  BY <1>2, <1>3

(* The types and the invariant of the indirect actions are kept by every   *)
(* move.                                                                   *)
LEMMA ActionsStep ==
  ASSUME FlowTypes, ActionTypes, ActionsInv, ActionsMove
  PROVE  ActionTypes' /\ ActionsInv'
<1>1. CASE ActionsSame
  BY <1>1 DEF ActionsSame, FaultStays, ActionTypes, ActionsInv
<1>2. CASE ActionsCreated
  <2>1. PICK id \in 0 .. MaxId, type \in {"age", "conntrack"} :
    LET handle == Fresh(Objects, Handles)
    IN /\ CanAlloc(id) /\ faults' = faults
       /\ actions_list' =
            action_alloc([id |-> AllocatedId(id), obj |-> NewObject,
                          type |-> type, handle |-> handle])
       /\ dev_actions' = dev_actions \cup
            {[handle |-> handle, aged |-> FALSE,
              ctx |-> IF type = "age" THEN NewObject ELSE NULL]}
    BY <1>2 DEF ActionsCreated
  <2> DEFINE handle == Fresh(Objects, Handles)
             pia == [id |-> AllocatedId(id), obj |-> NewObject,
                     type |-> type, handle |-> handle]
             new == [handle |-> handle, aged |-> FALSE,
                     ctx |-> IF type = "age" THEN NewObject ELSE NULL]
  <2>2. CanAlloc(id) /\ CanAllocate
    BY <2>1 DEF CanAlloc
  <2>3. /\ AllocatedId(id) \in 0 .. MaxId - 1
        /\ \A a \in Elements(actions_list) : a.id # AllocatedId(id)
    BY <2>2, NewActionId
  <2>4. handle \in Objects /\ handle \notin Handles
    BY <2>2, HandleLeft
  <2>5. NewObject \in Objects /\ NewObject \notin Used
    BY <2>2, NewObjectFree
  <2>6. /\ actions_list' = action_alloc(pia)
        /\ dev_actions' = dev_actions \cup {new}
    BY <2>1
  <2> HIDE DEF handle
  <2>7. /\ pia \in Action /\ pia.id = AllocatedId(id) /\ pia.obj = NewObject
        /\ pia.handle = handle
    BY <2>3, <2>4, <2>5 DEF Action
  <2>8. /\ new \in DevAction /\ new.handle = handle
        /\ new.ctx \in {NewObject, NULL}
    BY <2>4, <2>5 DEF DevAction
  <2> HIDE DEF pia, new
  <2>9. /\ actions_list' \in Seq(Action)
        /\ Elements(actions_list') = Elements(actions_list) \cup {pia}
        /\ Falls(actions_list')
    BY <2>3, <2>6, <2>7, AllocatedElements
  <2>10. ActionTypes'
    BY <2>6, <2>8, <2>9 DEF ActionTypes
  <2>11. \A a \in Elements(actions_list) : a.obj # NewObject /\ a.handle # handle
    <3>1. \A a \in Elements(actions_list) : a.obj # NewObject
      BY <2>5 DEF Used
    <3>2. \A a \in Elements(actions_list) : a.handle # handle
      BY <2>4, ObjectsAreNumbers DEF ActionsInv, Handles
    <3> QED
      BY <3>1, <3>2
  <2>12. /\ \A a, b \in Elements(actions_list') : a.obj = b.obj => a = b
         /\ \A a, b \in Elements(actions_list') :
              a.handle = b.handle /\ a.handle # GONE => a = b
    BY <2>7, <2>9, <2>11 DEF ActionsInv
  <2>13. \A a \in Elements(actions_list') :
           a.handle # GONE => \E h \in dev_actions' : h.handle = a.handle
    BY <2>6, <2>7, <2>8, <2>9 DEF ActionsInv
  <2>14. \A h \in dev_actions' : \E a \in Elements(actions_list') :
           a.handle = h.handle /\ (h.ctx # NULL => a.obj = h.ctx)
    BY <2>6, <2>7, <2>8, <2>9 DEF ActionsInv
  <2>15. "actions_kept" \notin faults' =>
           \A a \in Elements(actions_list') : a.handle # GONE
    BY <2>1, <2>4, <2>7, <2>9, ObjectsAreNumbers DEF ActionsInv
  <2> QED
    BY <2>9, <2>10, <2>12, <2>13, <2>14, <2>15 DEF ActionsInv
<1>3. CASE ActionsDestroyed
  <2>1. PICK gone \in SUBSET Elements(actions_list) :
          /\ \A a \in gone : a.handle \in Handles
          /\ actions_list' = Kept(actions_list, Elements(actions_list) \ gone)
          /\ dev_actions' = {h \in dev_actions :
                               h.handle \notin {a.handle : a \in gone}}
    BY <1>3 DEF ActionsDestroyed
  <2>2. /\ actions_list' \in Seq(Action)
        /\ Elements(actions_list') = Elements(actions_list) \ gone
        /\ Falls(actions_list')
    BY <2>1, KeptElements DEF ActionTypes, ActionsInv
  <2>3. \A h : h \in dev_actions' <=>
                 h \in dev_actions /\ \A a \in gone : a.handle # h.handle
    BY <2>1
  <2>4. ActionTypes'
    BY <2>2, <2>3 DEF ActionTypes
  <2>5. \A a \in Elements(actions_list') :
          a.handle # GONE => \E h \in dev_actions' : h.handle = a.handle
    BY <2>2, <2>3 DEF ActionsInv
  <2>6. \A h \in dev_actions' : \E a \in Elements(actions_list') :
          a.handle = h.handle /\ (h.ctx # NULL => a.obj = h.ctx)
    BY <2>2, <2>3 DEF ActionsInv
  <2>7. faults' = faults
    BY <1>3 DEF ActionsDestroyed
  <2> QED
    BY <2>2, <2>4, <2>5, <2>6, <2>7 DEF ActionsInv
<1>4. CASE ActionsAged
  <2>1. PICK h \in dev_actions :
          dev_actions' = (dev_actions \ {h}) \cup {[h EXCEPT !.aged = TRUE]}
    BY <1>4 DEF ActionsAged
  <2> DEFINE g == [h EXCEPT !.aged = TRUE]
  <2>2. g \in DevAction /\ g.handle = h.handle /\ g.ctx = h.ctx
    BY DEF ActionTypes, DevAction
  <2> HIDE DEF g
  <2>3. /\ actions_list' = actions_list /\ faults' = faults
        /\ dev_actions' = (dev_actions \ {h}) \cup {g}
    BY <1>4, <2>1 DEF ActionsAged, g
  <2> QED
    BY <2>2, <2>3 DEF ActionTypes, ActionsInv
<1>5. CASE ActionsClosed
  <2> DEFINE Gone(a) == [a EXCEPT !.handle = GONE]
             E == Elements(actions_list)
             F == Elements(actions_list')
  <2>1. /\ Len(actions_list) \in Nat
        /\ DOMAIN actions_list = 1 .. Len(actions_list)
        /\ E \subseteq Action
    BY ElementsOfSeq DEF ActionTypes
  <2>2. \A i \in DOMAIN actions_list : actions_list[i] \in E
    BY DEF Elements
  <2>3. \A a \in Action : /\ Gone(a) \in Action /\ Gone(a).handle = GONE
                          /\ Gone(a).id = a.id /\ Gone(a).obj = a.obj
    BY DEF Action
  <2>4. /\ dev_actions' = {}
        /\ actions_list' = [i \in DOMAIN actions_list |-> Gone(actions_list[i])]
        /\ actions_list # <<>> => "actions_kept" \in faults'
    BY <1>5 DEF ActionsClosed
  <2> HIDE DEF E, Gone
  <2>5. /\ actions_list' \in [1 .. Len(actions_list) -> Action]
        /\ DOMAIN actions_list' = DOMAIN actions_list
        /\ \A i \in DOMAIN actions_list :
             actions_list'[i] = Gone(actions_list[i])
    BY <2>1, <2>2, <2>3, <2>4
  <2>6. actions_list' \in Seq(Action)
    BY <2>1, <2>5, IsASeq
  <2>7. \A b : b \in F <=> \E a \in E : b = Gone(a)
    <3>1. \A b : b \in F <=>
                   \E i \in DOMAIN actions_list : b = Gone(actions_list[i])
      BY <2>5 DEF Elements
    <3>2. \A a : a \in E <=> \E i \in DOMAIN actions_list : a = actions_list[i]
      BY DEF E, Elements
    <3> QED
      BY <3>1, <3>2
  <2>8. Falls(actions_list')
    <3>1. \A i \in DOMAIN actions_list :
            actions_list'[i].id = actions_list[i].id
      BY <2>1, <2>2, <2>3, <2>5
    <3> QED
      BY <2>5, <3>1 DEF ActionsInv, Falls
  <2>9. \A a, b \in F : a.obj = b.obj => a = b
    BY <2>1, <2>3, <2>7 DEF ActionsInv, E
  <2>10. \A a \in F : a.handle = GONE
    BY <2>1, <2>3, <2>7
  <2>11. actions_list = <<>> => F = {}
    <3>1. actions_list = <<>> => E = {}
      BY ElementsOfEmpty DEF E
    <3> QED
      BY <3>1, <2>7
  <2> HIDE DEF F
  <2> QED
    BY <2>4, <2>6, <2>8, <2>9, <2>10, <2>11 DEF ActionTypes, ActionsInv, F
<1> QED
  BY <1>1, <1>2, <1>3, <1>4, <1>5 DEF ActionsMove

-----------------------------------------------------------------------------
(* The tunnels: nothing happens to them; one is created; one is destroyed; *)
(* one is prepared for a command that goes no further; one is prepared and *)
(* released.                                                               *)
TunnelFaultsStay == FaultStays("prepare") /\ FaultStays("conv")
Leaks == faults' \cap {"prepare", "conv"} # {}

TunnelsSame == flow_tunnel_list' = flow_tunnel_list /\ TunnelFaultsStay
TunnelsCreated ==
  \E type \in Offloads : port_flow_tunnel_create(type) /\ TunnelFaultsStay
TunnelsTaken ==
  \E id \in Ids(flow_tunnel_list) :
    port_flow_tunnel_destroy(id) /\ TunnelFaultsStay
TunnelsPrepared ==
  \E ops \in TunnelOps : \E answer \in PrepAnswers(ops) :
    /\ MayLeak /\ flow_tunnel_list' = Prepared(ops, answer)
    /\ TunnelFaultsStay /\ (flow_tunnel_list' # flow_tunnel_list => Leaks)
TunnelsReleased ==
  \E ops \in TunnelOps :
    flow_tunnel_list' = Released(ops) /\ TunnelFaultsStay
TunnelsMove ==
  \/ TunnelsSame \/ TunnelsCreated \/ TunnelsTaken \/ TunnelsPrepared
  \/ TunnelsReleased

(* The commands that make a rule, or only validate it.                     *)
LEMMA CreateMovesTunnels ==
  ASSUME FlowCreate \/ FlowValidate
  PROVE  TunnelsMove
<1> USE DEF TunnelsMove, TunnelFaultsStay, FaultStays
<1>1. PICK ops \in TunnelOps :
        \/ \E answer \in PrepAnswers(ops) : PrepFails(ops, answer)
        \/ ConvFails(ops)
        \/ flow_tunnel_list' = Released(ops) /\ UNCHANGED deviceVars
  <2>1. CASE FlowCreate
    <3>1. PICK kind \in RuleKinds :
            \E answer \in PrepAnswers(kind[3]) \cup {"conv", "refused"} :
              port_flow_create(kind[1], kind[2], kind[3], answer)
      BY <2>1 DEF FlowCreate
    <3>2. NoTunnel \in TunnelOps
      BY DEF TunnelOps
    <3>3. kind[3] \in TunnelOps
      BY <3>2 DEF RuleKinds
    <3>4. \/ \E answer \in PrepAnswers(kind[3]) : PrepFails(kind[3], answer)
          \/ ConvFails(kind[3])
          \/ flow_tunnel_list' = Released(kind[3]) /\ UNCHANGED deviceVars
      BY <3>1 DEF port_flow_create, PrepFails, CreateRefused
    <3> QED
      BY <3>3, <3>4
  <2>2. CASE FlowValidate
    BY <2>2 DEF FlowValidate, port_flow_validate
  <2> QED
    BY <2>1, <2>2
<1>2. ASSUME NEW answer \in PrepAnswers(ops), PrepFails(ops, answer)
      PROVE  TunnelsPrepared
  <2>1. /\ MayLeak /\ flow_tunnel_list' = Prepared(ops, answer)
        /\ faults' = faults \cup (IF flow_tunnel_list' # flow_tunnel_list
                                  THEN {"prepare"} ELSE {})
    BY <1>2 DEF PrepFails, Fault
  <2> QED
    BY <2>1 DEF TunnelsPrepared, Leaks
<1>3. CASE ConvFails(ops)
  <2>1. /\ MayLeak /\ flow_tunnel_list' = Prepared(ops, "ok")
        /\ faults' = faults \cup {"conv"} /\ "ok" \in PrepAnswers(ops)
    BY <1>3 DEF ConvFails, Fault
  <2> QED
    BY <2>1 DEF TunnelsPrepared, Leaks
<1> QED
  BY <1>1, <1>2, <1>3 DEF TunnelsReleased, deviceVars

(* Every step of the session is one of these for the tunnels.              *)
LEMMA TunnelsMoves ==
  ASSUME TypeOK, [Next]_vars
  PROVE  TunnelsMove
<1> USE DEF TunnelsMove, TunnelsSame, TunnelFaultsStay, FaultStays
<1>1. CASE FlowCreate \/ FlowValidate
  BY <1>1, CreateMovesTunnels
<1>2. CASE FlowDestroy \/ FlowFlush
  BY <1>2 DEF FlowDestroy, FlowFlush, port_flow_destroy, port_flow_flush,
              Flush, Fault, deviceVars
<1>3. CASE FlowUse \/ ActionUse
  BY <1>3 DEF FlowUse, ActionUse, port_flow_dump, port_flow_query,
              port_action_handle_update, port_action_handle_query, CallWith,
              Dies, deviceVars, flowVars
<1>4. CASE FlowAges \/ FlowAged
  BY <1>4 DEF FlowAges, FlowAged, Age, port_flow_aged, Dies, deviceVars
<1>5. CASE TunnelCreate
  BY <1>5 DEF TunnelCreate, TunnelsCreated, deviceVars
<1>6. CASE TunnelDestroy
  BY <1>6 DEF TunnelDestroy, TunnelsTaken, deviceVars
<1>7. CASE ActionCreate \/ ActionDestroy
  BY <1>7 DEF ActionCreate, ActionDestroy, port_action_handle_create,
              port_action_handle_destroy, deviceVars, Dies
<1>8. CASE McastAdd \/ McastRemove
  BY <1>8 DEF McastAdd, McastRemove, mcast_addr_add, mcast_addr_remove,
              flowVars, deviceVars, Fault, Dies
<1>9. CASE FlexCreate \/ FlexDestroy \/ FlexPattern
  BY <1>9 DEF FlexCreate, FlexDestroy, FlexPattern, flex_item_create,
              flex_item_destroy, flex_pattern_parsed_fn, flowVars,
              deviceVars, Fault, Dies
<1>10. CASE ClosePort \/ DetachPort
  BY <1>10 DEF ClosePort, DetachPort, FlowsOfClosedPort
<1>11. CASE AttachPort \/ Ended \/ UNCHANGED vars
  BY <1>11 DEF AttachPort, Ended, vars, flowVars, deviceVars
<1> QED
  BY <1>1, <1>2, <1>3, <1>4, <1>5, <1>6, <1>7, <1>8, <1>9, <1>10, <1>11
     DEF Next

(* No two tunnels have one identifier or one type, and after a command     *)
(* none holds anything, unless a command has failed half way.              *)
Empty(t) == ~t.actions /\ ~t.items /\ t.held = 0
TunnelsInv ==
  /\ Falls(flow_tunnel_list)
  /\ \A t, u \in Elements(flow_tunnel_list) : t.type = u.type => t = u
  /\ faults \cap {"prepare", "conv"} = {} =>
       \A t \in Elements(flow_tunnel_list) : Empty(t)

(* The tunnels of the port after something was done to the one that a      *)
(* command names.                                                          *)
LEMMA WithTunnelElements ==
  ASSUME NEW list \in Seq(Tunnel), NEW G,
         \A t \in Elements(list) : G[t] \in Tunnel /\ G[t].id = t.id
                                     /\ G[t].type = t.type
  PROVE  LET s == [i \in DOMAIN list |-> G[list[i]]]
         IN /\ s \in Seq(Tunnel)
            /\ \A u : u \in Elements(s) <=> \E t \in Elements(list) : u = G[t]
            /\ Falls(list) => Falls(s)
<1> DEFINE s == [i \in DOMAIN list |-> G[list[i]]]
<1>1. /\ Len(list) \in Nat /\ DOMAIN list = 1 .. Len(list)
      /\ \A i \in DOMAIN list : list[i] \in Elements(list)
  BY ElementsOfSeq DEF Elements
<1>2. /\ DOMAIN s = DOMAIN list /\ s \in [1 .. Len(list) -> Tunnel]
      /\ \A i \in DOMAIN list : s[i] = G[list[i]] /\ s[i].id = list[i].id
  BY <1>1
<1> HIDE DEF s
<1>3. s \in Seq(Tunnel)
  BY <1>1, <1>2, IsASeq
<1>4. \A u : u \in Elements(s) <=> \E t \in Elements(list) : u = G[t]
  BY <1>2 DEF Elements
<1>5. Falls(list) => Falls(s)
  BY <1>2 DEF Falls
<1> QED
  BY <1>3, <1>4, <1>5 DEF s

(* Preparing a tunnel only adds arrays to it, and releasing it gives them  *)
(* back.                                                                   *)
LEMMA PreparedTunnel ==
  ASSUME NEW t \in Tunnel, t.held <= MaxHeld - 2, NEW ops, NEW answer,
         ops.actions \in BOOLEAN, ops.items \in BOOLEAN
  PROVE  LET u == port_flow_tunnel_offload_cmd_prep(t, ops, answer)
         IN u \in Tunnel /\ u.id = t.id /\ u.type = t.type
<1> DEFINE lent == ops.actions /\ answer # "decap"
           made == lent /\ answer # "decap_nomem"
           both == ops.items /\ answer \notin {"decap", "decap_nomem", "match"}
           actions == IF lent THEN made ELSE t.actions
           items == IF both THEN answer # "match_nomem" ELSE t.items
           held == t.held + (IF lent THEN 1 ELSE 0)
                     + (IF both /\ answer # "match_nomem" THEN 1 ELSE 0)
           u == [t EXCEPT !.actions = actions, !.items = items, !.held = held]
<1>1. actions \in BOOLEAN /\ items \in BOOLEAN
  BY DEF Tunnel
<1>2. held \in 0 .. MaxHeld
  BY FlowsAssumption DEF Tunnel
<1>3. u = port_flow_tunnel_offload_cmd_prep(t, ops, answer)
  BY DEF port_flow_tunnel_offload_cmd_prep
<1> HIDE DEF actions, items, held
<1>4. u \in Tunnel /\ u.id = t.id /\ u.type = t.type
  BY <1>1, <1>2 DEF Tunnel
<1> QED
  BY <1>3, <1>4

(* What a tunnel is after it has been prepared and released.               *)
LEMMA ReleasedTunnel ==
  ASSUME NEW t \in Tunnel, NEW ops,
         ops.actions \in BOOLEAN, ops.items \in BOOLEAN
  PROVE  LET u == port_flow_tunnel_offload_cmd_release(
                    port_flow_tunnel_offload_cmd_prep(t, ops, "ok"), ops)
         IN /\ u \in Tunnel /\ u.id = t.id /\ u.type = t.type
            /\ Empty(t) => Empty(u)
<1> DEFINE v == port_flow_tunnel_offload_cmd_prep(t, ops, "ok")
           u == port_flow_tunnel_offload_cmd_release(v, ops)
           n == (IF ops.actions THEN 1 ELSE 0) + (IF ops.items THEN 1 ELSE 0)
           actions == IF ops.actions THEN FALSE ELSE t.actions
           items == IF ops.items THEN FALSE ELSE t.items
<1>1. /\ t.held \in 0 .. MaxHeld /\ n \in 0 .. 2
      /\ t.actions \in BOOLEAN /\ t.items \in BOOLEAN
      /\ MaxHeld \in Nat
  BY FlowsAssumption DEF Tunnel
<1>2. v = [t EXCEPT !.actions = IF ops.actions THEN TRUE ELSE @,
                    !.items = IF ops.items THEN TRUE ELSE @,
                    !.held = t.held + (IF ops.actions THEN 1 ELSE 0)
                               + (IF ops.items THEN 1 ELSE 0)]
  BY DEF port_flow_tunnel_offload_cmd_prep
<1>3. u = [id |-> t.id, type |-> t.type, actions |-> actions,
           items |-> items, held |-> t.held]
  <2> DEFINE A == IF ops.actions THEN TRUE ELSE t.actions
             I == IF ops.items THEN TRUE ELSE t.items
             H == t.held + (IF ops.actions THEN 1 ELSE 0)
                    + (IF ops.items THEN 1 ELSE 0)
  <2>1. t = [id |-> t.id, type |-> t.type, actions |-> t.actions,
             items |-> t.items, held |-> t.held]
    BY DEF Tunnel
  <2>2. v = [id |-> t.id, type |-> t.type, actions |-> A, items |-> I,
             held |-> H]
    BY <1>2, <2>1, Zenon
  <2>3. u = [v EXCEPT !.actions = IF ops.actions THEN FALSE ELSE v.actions,
                      !.items = IF ops.items THEN FALSE ELSE v.items,
                      !.held = v.held - (IF ops.actions THEN 1 ELSE 0)
                                 - (IF ops.items THEN 1 ELSE 0)]
    BY DEF port_flow_tunnel_offload_cmd_release
  <2>4. H - (IF ops.actions THEN 1 ELSE 0) - (IF ops.items THEN 1 ELSE 0)
          = t.held
    BY <1>1
  <2>5. /\ (IF ops.actions THEN FALSE ELSE A) = actions
        /\ (IF ops.items THEN FALSE ELSE I) = items
    OBVIOUS
  <2> HIDE DEF A, I, H, u, v, actions, items
  <2>6. v.actions = A /\ v.items = I /\ v.held = H
    BY <2>2
  <2>7. u = [id |-> v.id, type |-> v.type, actions |-> actions,
             items |-> items, held |-> t.held]
    BY <2>2, <2>3, <2>4, <2>5, <2>6
  <2> QED
    BY <2>2, <2>7
<1>4. actions \in BOOLEAN /\ items \in BOOLEAN
  BY <1>1
<1>5. (~t.actions => ~actions) /\ (~t.items => ~items)
  OBVIOUS
<1> HIDE DEF u, v, n, actions, items
<1>6. /\ u \in Tunnel /\ u.id = t.id /\ u.type = t.type
      /\ u.actions = actions /\ u.items = items /\ u.held = t.held
  BY <1>1, <1>3, <1>4 DEF Tunnel
<1>7. Empty(t) => Empty(u)
  BY <1>5, <1>6 DEF Empty
<1> QED
  BY <1>6, <1>7 DEF u, v

(* The options of a command that are about tunnels.                        *)
LEMMA OptionsOfTunnels ==
  ASSUME NEW ops \in TunnelOps
  PROVE  ops.actions \in BOOLEAN /\ ops.items \in BOOLEAN
<1>1. CASE ops = NoTunnel
  BY <1>1 DEF NoTunnel
<1>2. CASE ops \in [id : Ids(flow_tunnel_list) \cup {MaxTunnelId + 1},
                    actions : BOOLEAN, items : BOOLEAN]
  BY <1>2
<1> QED
  BY <1>1, <1>2 DEF TunnelOps

(* The types and the invariant of the tunnels are kept by every move.      *)
LEMMA TunnelsStep ==
  ASSUME TunnelTypes, TunnelsInv, TunnelsMove
  PROVE  TunnelTypes' /\ TunnelsInv'
<1> DEFINE E == Elements(flow_tunnel_list)
           F == Elements(flow_tunnel_list')
           quiet == faults \cap {"prepare", "conv"} = {}
           quiet1 == faults' \cap {"prepare", "conv"} = {}
<1>0. /\ E \subseteq Tunnel
      /\ \A i \in DOMAIN flow_tunnel_list : flow_tunnel_list[i] \in E
      /\ quiet1 => quiet
  <2>1. E \subseteq Tunnel
    BY ElementsOfSeq DEF TunnelTypes
  <2>2. \A i \in DOMAIN flow_tunnel_list : flow_tunnel_list[i] \in E
    BY DEF Elements
  <2>3. TunnelFaultsStay
    BY DEF TunnelsMove, TunnelsSame, TunnelsCreated, TunnelsTaken,
           TunnelsPrepared, TunnelsReleased
  <2> QED
    BY <2>1, <2>2, <2>3 DEF TunnelFaultsStay, FaultStays
<1>1. CASE TunnelsSame
  BY <1>0, <1>1 DEF TunnelsSame, TunnelTypes, TunnelsInv
<1>2. CASE TunnelsCreated
  <2>1. PICK type \in Offloads : port_flow_tunnel_create(type)
    BY <1>2 DEF TunnelsCreated
  <2> DEFINE new == [id |-> NewTunnelId, type |-> type, actions |-> FALSE,
                     items |-> FALSE, held |-> 0]
  <2>2. /\ flow_tunnel_list' = <<new>> \o flow_tunnel_list
        /\ NewTunnelId <= MaxTunnelId /\ \A t \in E : t.type # type
    BY <2>1 DEF port_flow_tunnel_create
  <2>3. /\ NewTunnelId \in 1 .. MaxTunnelId
        /\ \A t \in E : NewTunnelId > t.id
    <3>1. CASE flow_tunnel_list = <<>>
      BY <3>1, <2>2, ElementsOfEmpty, FlowsAssumption DEF NewTunnelId
    <3>2. CASE flow_tunnel_list # <<>>
      <4>1. /\ Head(flow_tunnel_list) \in E
            /\ \A t \in E : \/ t = Head(flow_tunnel_list)
                            \/ Head(flow_tunnel_list).id > t.id
        BY <3>2, HeadHighest DEF TunnelTypes, TunnelsInv
      <4>2. \A t \in E : t.id \in 1 .. MaxTunnelId /\ t.id \in Nat
        BY <1>0, FlowsAssumption DEF Tunnel
      <4>3. NewTunnelId = Head(flow_tunnel_list).id + 1
        BY <3>2 DEF NewTunnelId
      <4> DEFINE h == Head(flow_tunnel_list).id
      <4>4. h \in Nat /\ h >= 1 /\ NewTunnelId = h + 1
        BY <4>1, <4>2, <4>3, FlowsAssumption
      <4>5. \A t \in E : t.id = h \/ h > t.id
        BY <4>1
      <4> HIDE DEF E, h
      <4>6. NewTunnelId \in 1 .. MaxTunnelId
        BY <2>2, <4>4, FlowsAssumption
      <4>7. \A t \in E : h + 1 > t.id
        BY <4>2, <4>4, <4>5
      <4> QED
        BY <4>4, <4>6, <4>7
    <3> QED
      BY <3>1, <3>2
  <2>4. new \in Tunnel /\ new.id = NewTunnelId /\ new.type = type /\ Empty(new)
    BY <2>3, FlowsAssumption DEF Tunnel, Empty
  <2> HIDE DEF new
  <2>5. /\ flow_tunnel_list' \in Seq(Tunnel)
        /\ F = E \cup {new} /\ Falls(flow_tunnel_list')
    BY <2>2, <2>3, <2>4, PrependedElements DEF TunnelTypes, TunnelsInv
  <2> HIDE DEF F
  <2>6. TunnelTypes'
    BY <2>5 DEF TunnelTypes
  <2>7. \A t, u \in F : t.type = u.type => t = u
    BY <2>2, <2>4, <2>5 DEF TunnelsInv
  <2>8. quiet1 => \A t \in F : Empty(t)
    BY <1>0, <2>4, <2>5 DEF TunnelsInv
  <2> QED
    BY <2>5, <2>6, <2>7, <2>8 DEF TunnelsInv, F
<1>3. CASE TunnelsTaken
  <2>1. PICK id \in Ids(flow_tunnel_list) : port_flow_tunnel_destroy(id)
    BY <1>3 DEF TunnelsTaken
  <2>2. flow_tunnel_list' = Kept(flow_tunnel_list, {t \in E : t.id # id})
    BY <2>1 DEF port_flow_tunnel_destroy
  <2>3. /\ flow_tunnel_list' \in Seq(Tunnel)
        /\ F = E \cap {t \in E : t.id # id} /\ Falls(flow_tunnel_list')
    BY <2>2, KeptElements DEF TunnelTypes, TunnelsInv
  <2> HIDE DEF F
  <2>4. F \subseteq E
    BY <2>3
  <2> QED
    BY <1>0, <2>3, <2>4 DEF TunnelTypes, TunnelsInv, F
<1>4. CASE TunnelsPrepared
  <2>1. PICK ops \in TunnelOps :
          \E answer \in PrepAnswers(ops) :
            /\ MayLeak /\ flow_tunnel_list' = Prepared(ops, answer)
            /\ flow_tunnel_list' # flow_tunnel_list => Leaks
    BY <1>4 DEF TunnelsPrepared
  <2>2. PICK answer \in PrepAnswers(ops) :
            /\ MayLeak /\ flow_tunnel_list' = Prepared(ops, answer)
            /\ flow_tunnel_list' # flow_tunnel_list => Leaks
    BY <2>1
  <2> DEFINE Made(t) == port_flow_tunnel_offload_cmd_prep(t, ops, answer)
             G == [t \in E |-> IF t.id = ops.id THEN Made(t) ELSE t]
  <2>3. \A t \in E : /\ Made(t) \in Tunnel /\ Made(t).id = t.id
                     /\ Made(t).type = t.type
    BY <1>0, <2>2, OptionsOfTunnels, PreparedTunnel DEF MayLeak
  <2>4. flow_tunnel_list' =
          [i \in DOMAIN flow_tunnel_list |->
             IF flow_tunnel_list[i].id = ops.id THEN Made(flow_tunnel_list[i])
             ELSE flow_tunnel_list[i]]
    BY <2>2 DEF Prepared, WithTunnel
  <2> HIDE DEF Made
  <2>5. flow_tunnel_list' =
          [i \in DOMAIN flow_tunnel_list |-> G[flow_tunnel_list[i]]]
    BY <1>0, <2>4
  <2>6. \A t \in E : G[t] \in Tunnel /\ G[t].id = t.id /\ G[t].type = t.type
    BY <1>0, <2>3
  <2> HIDE DEF G
  <2>7. /\ flow_tunnel_list' \in Seq(Tunnel)
        /\ \A u : u \in F <=> \E t \in E : u = G[t]
        /\ Falls(flow_tunnel_list')
    BY <2>5, <2>6, WithTunnelElements, SMTT(30) DEF TunnelTypes, TunnelsInv
  <2>8. quiet1 => flow_tunnel_list' = flow_tunnel_list
    BY <2>2 DEF Leaks
  <2>9. \A t, u \in F : t.type = u.type => t = u
    BY <2>6, <2>7 DEF TunnelsInv
  <2>10. quiet1 => \A t \in F : Empty(t)
    BY <1>0, <2>8 DEF TunnelsInv
  <2> HIDE DEF F
  <2> QED
    BY <2>7, <2>9, <2>10 DEF TunnelTypes, TunnelsInv, F
<1>5. CASE TunnelsReleased
  <2>1. PICK ops \in TunnelOps : flow_tunnel_list' = Released(ops)
    BY <1>5 DEF TunnelsReleased
  <2> DEFINE Made(t) == port_flow_tunnel_offload_cmd_release(
                          port_flow_tunnel_offload_cmd_prep(t, ops, "ok"), ops)
             G == [t \in E |-> IF t.id = ops.id THEN Made(t) ELSE t]
  <2>2. \A t \in E : /\ Made(t) \in Tunnel /\ Made(t).id = t.id
                     /\ Made(t).type = t.type
                     /\ Empty(t) => Empty(Made(t))
    BY <1>0, OptionsOfTunnels, ReleasedTunnel
  <2>3. flow_tunnel_list' =
          [i \in DOMAIN flow_tunnel_list |->
             IF flow_tunnel_list[i].id = ops.id THEN Made(flow_tunnel_list[i])
             ELSE flow_tunnel_list[i]]
    BY <2>1 DEF Released, WithTunnel
  <2> HIDE DEF Made
  <2>4. flow_tunnel_list' =
          [i \in DOMAIN flow_tunnel_list |-> G[flow_tunnel_list[i]]]
    BY <1>0, <2>3
  <2>5. \A t \in E : /\ G[t] \in Tunnel /\ G[t].id = t.id
                     /\ G[t].type = t.type
                     /\ Empty(t) => Empty(G[t])
    BY <1>0, <2>2
  <2> HIDE DEF G
  <2>6. /\ flow_tunnel_list' \in Seq(Tunnel)
        /\ \A u : u \in F <=> \E t \in E : u = G[t]
        /\ Falls(flow_tunnel_list')
    BY <2>4, <2>5, WithTunnelElements, SMTT(30) DEF TunnelTypes, TunnelsInv
  <2>7. \A t, u \in F : t.type = u.type => t = u
    BY <2>5, <2>6 DEF TunnelsInv
  <2>8. quiet1 => \A t \in F : Empty(t)
    BY <1>0, <2>5, <2>6 DEF TunnelsInv
  <2> HIDE DEF F
  <2> QED
    BY <2>6, <2>7, <2>8 DEF TunnelTypes, TunnelsInv, F
<1> QED
  BY <1>1, <1>2, <1>3, <1>4, <1>5 DEF TunnelsMove

(* A rule is made of what its command gave, as the tunnels hold nothing of *)
(* another command.                                                        *)
GivenInv ==
  faults \cap {"prepare", "conv"} = {} =>
    \A r \in Elements(flow_list) : r.given

(* Every move of the rules and of the tunnels keeps this.                  *)
LEMMA GivenStep ==
  ASSUME FlowTypes, ActionTypes, FlowsInv, TunnelsInv, GivenInv,
         FlowsMove, TunnelsMove
  PROVE  GivenInv'
<1>1. TunnelFaultsStay
  BY DEF TunnelsMove, TunnelsSame, TunnelsCreated, TunnelsTaken,
         TunnelsPrepared, TunnelsReleased
<1> SUFFICES ASSUME faults' \cap {"prepare", "conv"} = {}
             PROVE  \A r \in Elements(flow_list') : r.given
  BY DEF GivenInv
<1>2. faults \cap {"prepare", "conv"} = {}
  BY <1>1 DEF TunnelFaultsStay, FaultStays
<1>3. \A r \in Elements(flow_list) : r.given
  BY <1>2 DEF GivenInv
<1>4. CASE FlowsCreated
  <2>1. PICK attr \in Attributes, ctx \in {NewObject, NULL}, ops \in TunnelOps :
          flow_list' = <<[id |-> NewId, obj |-> NewObject,
                          flow |-> Fresh(Objects, Flows),
                          attr |-> attr, given |-> AsGiven(ops)]>> \o flow_list
    BY <1>4 DEF FlowsCreated
  <2>2. AsGiven(ops) = TRUE
    BY <1>2 DEF AsGiven, port_flow_locate_tunnel_id, TunnelsInv, Empty
  <2> DEFINE new == [id |-> NewId, obj |-> NewObject,
                     flow |-> Fresh(Objects, Flows),
                     attr |-> attr, given |-> TRUE]
  <2>3. /\ NewId \in 0 .. MaxId /\ NewObject \in Objects
        /\ Fresh(Objects, Flows) \in Objects
    BY <1>4, NewRule DEF FlowsCreated
  <2>4. new \in Rule /\ new.given
    BY <2>3 DEF Rule
  <2>5. flow_list' = <<new>> \o flow_list
    BY <2>1, <2>2
  <2> HIDE DEF new
  <2>6. Elements(flow_list') = Elements(flow_list) \cup {new}
    BY <2>4, <2>5, PrependedElements DEF FlowTypes
  <2> QED
    BY <1>3, <2>4, <2>6
<1>5. CASE FlowsTaken
  <2>1. PICK rules \in SUBSET Elements(flow_list) :
          flow_list' = Kept(flow_list, Elements(flow_list) \ rules)
    BY <1>5 DEF FlowsTaken, TakeOff
  <2>2. Elements(flow_list') \subseteq Elements(flow_list)
    BY <2>1, KeptElements DEF FlowTypes
  <2> QED
    BY <1>3, <2>2
<1>6. CASE FlowsGone
  BY <1>6, ElementsOfEmpty DEF FlowsGone
<1>7. CASE FlowsSame \/ FlowsAged
  BY <1>3, <1>7 DEF FlowsSame, FlowsAged
<1> QED
  BY <1>4, <1>5, <1>6, <1>7 DEF FlowsMove

-----------------------------------------------------------------------------
(* The pool of multicast addresses.                                        *)

(* Removing one of the elements of a list: the others move up.             *)
LEMMA RemovedAt ==
  ASSUME NEW T, NEW list \in Seq(T), NEW k \in 1 .. Len(list)
  PROVE  /\ RemoveAt(list, k) \in Seq(T)
         /\ Len(RemoveAt(list, k)) = Len(list) - 1
         /\ \A j \in 1 .. Len(list) - 1 :
              RemoveAt(list, k)[j] = IF j < k THEN list[j] ELSE list[j + 1]
<1> DEFINE front == SubSeq(list, 1, k - 1)
           back == SubSeq(list, k + 1, Len(list))
<1>1. /\ Len(list) \in Nat /\ k \in Nat
      /\ \A j \in 1 .. Len(list) : list[j] \in T
  BY LenProperties, ElementOfSeq
<1>2. /\ front \in Seq(T) /\ Len(front) = k - 1
      /\ \A j \in 1 .. k - 1 : front[j] = list[j]
  <2>1. \A j \in 1 .. k - 1 : list[j] \in T
    BY <1>1
  <2>2. /\ front \in Seq(T) /\ Len(front) = IF 1 <= k - 1 THEN k - 1 ELSE 0
        /\ \A j \in 1 .. k - 1 - 1 + 1 : front[j] = list[1 + j - 1]
    BY <1>1, <2>1, SubSeqProperties
  <2> HIDE DEF front
  <2> QED
    BY <1>1, <2>2
<1>3. /\ back \in Seq(T) /\ Len(back) = Len(list) - k
      /\ \A j \in 1 .. Len(list) - k : back[j] = list[k + j]
  <2>1. \A j \in k + 1 .. Len(list) : list[j] \in T
    BY <1>1
  <2>2. /\ back \in Seq(T)
        /\ Len(back) = IF k + 1 <= Len(list) THEN Len(list) - (k + 1) + 1 ELSE 0
        /\ \A j \in 1 .. Len(list) - (k + 1) + 1 :
             back[j] = list[(k + 1) + j - 1]
    BY <1>1, <2>1, SubSeqProperties
  <2> HIDE DEF back
  <2> QED
    BY <1>1, <2>2
<1>4. RemoveAt(list, k) = front \o back
  BY DEF RemoveAt
<1> HIDE DEF front, back
<1>5. /\ front \o back \in Seq(T)
      /\ Len(front \o back) = Len(front) + Len(back)
      /\ \A j \in 1 .. Len(front) + Len(back) :
           (front \o back)[j] = IF j <= Len(front) THEN front[j]
                                ELSE back[j - Len(front)]
  BY <1>2, <1>3, ConcatProperties
<1>6. ASSUME NEW j \in 1 .. Len(list) - 1
      PROVE  (front \o back)[j] = IF j < k THEN list[j] ELSE list[j + 1]
  <2>1. CASE j < k
    BY <1>1, <1>2, <1>3, <1>5, <2>1
  <2>2. CASE ~(j < k)
    <3>1. (front \o back)[j] = back[j - (k - 1)]
      BY <1>1, <1>2, <1>3, <1>5, <2>2
    <3>2. j - (k - 1) \in 1 .. Len(list) - k /\ k + (j - (k - 1)) = j + 1
      BY <1>1, <2>2
    <3> QED
      BY <1>3, <2>2, <3>1, <3>2
  <2> QED
    BY <2>1, <2>2
<1> QED
  BY <1>1, <1>2, <1>3, <1>4, <1>5, <1>6

(* No element of a list without repetition stands twice in it: the one     *)
(* that is removed is gone, the others are not.                            *)
LEMMA RemovedElements ==
  ASSUME NEW T, NEW list \in Seq(T), NEW k \in 1 .. Len(list),
         IsInjective(list)
  PROVE  /\ RemoveAt(list, k) \in Seq(T)
         /\ Len(RemoveAt(list, k)) = Len(list) - 1
         /\ Elements(RemoveAt(list, k)) = Elements(list) \ {list[k]}
         /\ IsInjective(RemoveAt(list, k))
<1> DEFINE s == RemoveAt(list, k)
<1>1. /\ s \in Seq(T) /\ Len(s) = Len(list) - 1
      /\ \A j \in 1 .. Len(list) - 1 :
           s[j] = IF j < k THEN list[j] ELSE list[j + 1]
  BY RemovedAt
<1> HIDE DEF s
<1>2. /\ Len(list) \in Nat /\ DOMAIN list = 1 .. Len(list) /\ k \in Nat
      /\ DOMAIN s = 1 .. Len(list) - 1
  BY <1>1, ElementsOfSeq
<1>3. \A i, j \in 1 .. Len(list) : list[i] = list[j] => i = j
  BY <1>2 DEF IsInjective
<1>4. \A j \in DOMAIN s : s[j] \in Elements(list) /\ s[j] # list[k]
  <2> SUFFICES ASSUME NEW j \in DOMAIN s
               PROVE  s[j] \in Elements(list) /\ s[j] # list[k]
    OBVIOUS
  <2>1. PICK i \in 1 .. Len(list) : i # k /\ s[j] = list[i]
    BY <1>1, <1>2
  <2> QED
    BY <1>2, <1>3, <2>1 DEF Elements
<1>5. ASSUME NEW i \in DOMAIN list, i # k
      PROVE  \E j \in DOMAIN s : s[j] = list[i]
  <2>1. CASE i < k
    BY <1>1, <1>2, <2>1
  <2>2. CASE i > k
    <3>1. i - 1 \in DOMAIN s /\ s[i - 1] = list[i]
      BY <1>1, <1>2, <2>2
    <3> QED
      BY <3>1
  <2> QED
    BY <1>2, <1>5, <2>1, <2>2
<1>6. Elements(s) = Elements(list) \ {list[k]}
  <2>1. ASSUME NEW x \in Elements(s) PROVE x \in Elements(list) \ {list[k]}
    BY <1>4 DEF Elements
  <2>2. ASSUME NEW x \in Elements(list) \ {list[k]} PROVE x \in Elements(s)
    BY <1>5 DEF Elements
  <2> QED
    BY <2>1, <2>2
<1>7. IsInjective(s)
  <2> SUFFICES ASSUME NEW i \in DOMAIN s, NEW j \in DOMAIN s, s[i] = s[j]
               PROVE  i = j
    BY DEF IsInjective
  <2> DEFINE at(x) == IF x < k THEN x ELSE x + 1
  <2>1. /\ at(i) \in 1 .. Len(list) /\ s[i] = list[at(i)]
        /\ at(j) \in 1 .. Len(list) /\ s[j] = list[at(j)]
    BY <1>1, <1>2
  <2>2. at(i) = at(j)
    BY <1>3, <2>1
  <2> QED
    BY <1>2, <2>2
<1> QED
  BY <1>1, <1>6, <1>7 DEF s

(* A new element at the end.                                               *)
LEMMA AppendedElements ==
  ASSUME NEW T, NEW list \in Seq(T), NEW x \in T
  PROVE  /\ Append(list, x) \in Seq(T)
         /\ Len(Append(list, x)) = Len(list) + 1
         /\ Elements(Append(list, x)) = Elements(list) \cup {x}
         /\ IsInjective(list) /\ x \notin Elements(list)
              => IsInjective(Append(list, x))
<1> DEFINE s == Append(list, x)
<1>1. /\ s \in Seq(T) /\ Len(s) = Len(list) + 1
      /\ \A i \in 1 .. Len(list) : s[i] = list[i]
      /\ s[Len(list) + 1] = x
  BY AppendProperties
<1> HIDE DEF s
<1>2. /\ Len(list) \in Nat /\ DOMAIN list = 1 .. Len(list)
      /\ DOMAIN s = 1 .. Len(list) + 1
  BY <1>1, ElementsOfSeq
<1>3. \A i \in DOMAIN s : \/ i \in DOMAIN list /\ s[i] = list[i]
                          \/ i = Len(list) + 1 /\ s[i] = x
  BY <1>1, <1>2
<1>4. Elements(s) = Elements(list) \cup {x}
  <2>1. \A i \in DOMAIN list : i \in DOMAIN s /\ s[i] = list[i]
    BY <1>1, <1>2
  <2>2. Len(list) + 1 \in DOMAIN s
    BY <1>2
  <2> QED
    BY <1>1, <1>3, <2>1, <2>2 DEF Elements
<1>5. IsInjective(list) /\ x \notin Elements(list) => IsInjective(s)
  BY <1>3 DEF IsInjective, Elements
<1> QED
  BY <1>1, <1>4, <1>5 DEF s

(* The pool has memory for a multiple of MCAST_POOL_INC entries, for those *)
(* that it holds at least.                                                 *)
HasRoom(entries, size) ==
  /\ \E k \in Nat : size = k * McastPoolInc
  /\ entries <= size

McastTypes ==
  mc_addr_pool \in Seq(MacAddrs) /\ mc_pool_size \in Nat
    /\ dev_mc \subseteq MacAddrs
McastInv ==
  /\ HasRoom(Len(mc_addr_pool), mc_pool_size)
  /\ IsInjective(mc_addr_pool)
  /\ faults \cap {"mc_nomem", "mc_kept"} = {} =>
       ToSet(mc_addr_pool) = dev_mc

(* The moves of the pool: nothing happens to it, the device is given the   *)
(* same addresses again at most; only its memory grows; an address is      *)
(* added; one is removed; one is removed and recorded again; the device is *)
(* closed.                                                                 *)
McastFaultsStay == FaultStays("mc_nomem") /\ FaultStays("mc_kept")
McastSame ==
  /\ mc_addr_pool' = mc_addr_pool /\ mc_pool_size' = mc_pool_size
  /\ dev_mc' = dev_mc \/ dev_mc' = ToSet(mc_addr_pool)
  /\ McastFaultsStay
McastSized ==
  /\ mc_addr_pool' = mc_addr_pool /\ dev_mc' = dev_mc
  /\ mc_pool_size' = IF Len(mc_addr_pool) = 0 THEN 0
                     ELSE mcast_addr_pool_extend(ThePool)
  /\ McastFaultsStay
McastAdded ==
  \E mc_addr \in MacAddrs \ ToSet(mc_addr_pool) :
    /\ mc_addr_pool' = Append(mc_addr_pool, mc_addr)
    /\ mc_pool_size' = mcast_addr_pool_extend(ThePool)
    /\ dev_mc' = ToSet(mc_addr_pool') /\ McastFaultsStay
McastRemoved ==
  \E i \in 1 .. Len(mc_addr_pool) :
    /\ mc_addr_pool' = RemoveAt(mc_addr_pool, i)
    /\ mc_pool_size' = IF Len(mc_addr_pool) = 1 THEN 0 ELSE mc_pool_size
    /\ \/ dev_mc' = ToSet(mc_addr_pool')
       \/ dev_mc' = dev_mc /\ "mc_nomem" \in faults'
    /\ McastFaultsStay
McastMoved ==
  \E i \in 1 .. Len(mc_addr_pool) :
    LET size == IF Len(mc_addr_pool) = 1 THEN 0 ELSE mc_pool_size
        pool == [addrs |-> RemoveAt(mc_addr_pool, i), size |-> size]
    IN /\ mc_addr_pool' = Append(pool.addrs, mc_addr_pool[i])
       /\ mc_pool_size' = mcast_addr_pool_extend(pool)
       /\ dev_mc' = dev_mc /\ McastFaultsStay
McastClosed ==
  /\ mc_addr_pool' = mc_addr_pool /\ mc_pool_size' = mc_pool_size
  /\ dev_mc' = {} /\ McastFaultsStay
  /\ mc_addr_pool # <<>> => "mc_kept" \in faults'
McastMove ==
  \/ McastSame \/ McastSized \/ McastAdded \/ McastRemoved \/ McastMoved
  \/ McastClosed

(* mcast_addr_pool_extend makes room for one entry more.                   *)
LEMMA ExtendedHasRoom ==
  ASSUME NEW pool, Len(pool.addrs) \in Nat, pool.size \in Nat,
         HasRoom(Len(pool.addrs), pool.size)
  PROVE  /\ mcast_addr_pool_extend(pool) \in Nat
         /\ HasRoom(Len(pool.addrs) + 1, mcast_addr_pool_extend(pool))
<1> DEFINE n == Len(pool.addrs)
           b == McastPoolInc
<1>1. b \in Nat \ {0}
  BY PoolsAssumption
<1>2. PICK k \in Nat : pool.size = k * b
  BY DEF HasRoom
<1> HIDE DEF n
<1>3. n \in Nat /\ n <= pool.size
  BY DEF HasRoom, n
<1> HIDE DEF b
<1>4. n = b * (n \div b) + (n % b) /\ n \div b \in Nat /\ n % b \in 0 .. b - 1
  BY <1>1, <1>3
<1>5. CASE n % b = 0
  <2>1. mcast_addr_pool_extend(pool) = n + b
    BY <1>5 DEF mcast_addr_pool_extend, Grows, n, b
  <2> DEFINE q == n \div b
  <2>2. q \in Nat /\ n = b * q
    BY <1>1, <1>4, <1>5
  <2> HIDE DEF q
  <2>3. n + b = (q + 1) * b /\ q + 1 \in Nat
    BY <1>1, <2>2
  <2> QED
    BY <1>1, <1>3, <2>1, <2>3 DEF HasRoom, n, b
<1>6. CASE n % b # 0
  <2>1. mcast_addr_pool_extend(pool) = pool.size
    BY <1>6 DEF mcast_addr_pool_extend, Grows, n, b
  <2>2. ASSUME n = pool.size PROVE FALSE
    <3> DEFINE q == n \div b
               r == n % b
               d == k - q
    <3>1. q \in Nat /\ r \in 1 .. b - 1 /\ k * b = b * q + r
      BY <1>1, <1>2, <1>4, <1>6, <2>2
    <3> HIDE DEF q, r
    <3>2. d \in Int /\ r = b * d
      BY <1>1, <3>1
    <3>3. CASE d >= 1
      <4> HIDE DEF d
      <4>1. d - 1 \in Nat /\ b * (d - 1) \in Nat
        BY <1>1, <3>2, <3>3
      <4>2. b * d = b * (d - 1) + b
        BY <1>1, <3>2
      <4> QED
        BY <1>1, <3>1, <3>2, <4>1, <4>2
    <3>4. CASE d <= 0
      <4> HIDE DEF d
      <4>1. 0 - d \in Nat /\ b * (0 - d) \in Nat
        BY <1>1, <3>2, <3>4
      <4>2. b * d = 0 - (b * (0 - d))
        BY <1>1, <3>2
      <4> QED
        BY <1>1, <3>1, <3>2, <4>1, <4>2
    <3> QED
      BY <3>2, <3>3, <3>4
  <2> QED
    BY <1>2, <1>3, <2>1, <2>2 DEF HasRoom, n, b
<1> QED
  BY <1>4, <1>5, <1>6

(* "mcast_addr add" is one of these.                                       *)
LEMMA AddMovesMcast ==
  ASSUME McastTypes, McastInv, McastAdd
  PROVE  McastMove
<1> USE DEF McastMove, McastFaultsStay, FaultStays
<1>1. PICK mc_addr \in MacAddrs, memory \in BOOLEAN, accepted \in BOOLEAN :
        mcast_addr_add(mc_addr, memory, accepted)
  BY DEF McastAdd
<1> DEFINE pool == mcast_addr_pool_append(ThePool, mc_addr, memory)
           added == Len(pool.addrs) = Len(mc_addr_pool) + 1
<1>2. /\ Len(mc_addr_pool) \in Nat
      /\ Append(mc_addr_pool, mc_addr) \in Seq(MacAddrs)
      /\ Len(Append(mc_addr_pool, mc_addr)) = Len(mc_addr_pool) + 1
  BY AppendedElements, ElementsOfSeq DEF McastTypes
<1>3. /\ mc_addr \notin ToSet(mc_addr_pool)
      /\ dev_mc' = IF accepted THEN ToSet(pool.addrs) ELSE dev_mc
      /\ IF accepted THEN SetPool(pool) /\ UNCHANGED deviceVars
         ELSE IF added
         THEN /\ SetPool(mcast_addr_pool_remove(pool, Len(mc_addr_pool) + 1))
              /\ UNCHANGED deviceVars
         ELSE Dies("memmove") /\ UNCHANGED <<mc_addr_pool, mc_pool_size>>
  BY <1>1 DEF mcast_addr_add, eth_port_multicast_addr_list_set
<1>4. CASE Grows(ThePool) /\ ~memory
  <2>1. /\ pool.addrs = mc_addr_pool /\ pool.size = mc_pool_size
    BY <1>4 DEF mcast_addr_pool_append, ThePool
  <2>2. ~added
    BY <1>2, <2>1
  <2> QED
    BY <1>3, <2>1, <2>2 DEF SetPool, McastSame, Dies, deviceVars
<1>5. CASE ~(Grows(ThePool) /\ ~memory)
  <2>1. /\ pool.addrs = Append(mc_addr_pool, mc_addr)
        /\ pool.size = mcast_addr_pool_extend(ThePool)
    BY <1>5 DEF mcast_addr_pool_append, ThePool
  <2>2. added
    BY <1>2, <2>1
  <2> HIDE DEF pool, added
  <2>3. CASE accepted
    BY <1>3, <2>1, <2>3 DEF SetPool, McastAdded, deviceVars
  <2>4. CASE ~accepted
    <3>1. /\ mc_addr_pool' = RemoveAt(pool.addrs, Len(mc_addr_pool) + 1)
          /\ mc_pool_size' = IF Len(pool.addrs) = 1 THEN 0 ELSE pool.size
          /\ dev_mc' = dev_mc /\ faults' = faults
      BY <1>3, <2>2, <2>4 DEF SetPool, mcast_addr_pool_remove, deviceVars
    <3> DEFINE s == Append(mc_addr_pool, mc_addr)
               n == Len(mc_addr_pool)
    <3>2. /\ \A j \in 1 .. n : s[j] = mc_addr_pool[j]
          /\ s \in Seq(MacAddrs) /\ Len(s) = n + 1 /\ n \in Nat
      BY <1>2, AppendProperties DEF McastTypes
    <3> HIDE DEF s
    <3>3. /\ RemoveAt(s, n + 1) \in Seq(MacAddrs)
          /\ Len(RemoveAt(s, n + 1)) = n
          /\ \A j \in 1 .. n : RemoveAt(s, n + 1)[j] = s[j]
      <4>1. n + 1 \in 1 .. Len(s)
        BY <3>2
      <4>2. /\ RemoveAt(s, n + 1) \in Seq(MacAddrs)
            /\ Len(RemoveAt(s, n + 1)) = Len(s) - 1
            /\ \A j \in 1 .. Len(s) - 1 :
                 RemoveAt(s, n + 1)[j] = IF j < n + 1 THEN s[j] ELSE s[j + 1]
        BY <3>2, <4>1, RemovedAt
      <4> QED
        BY <3>2, <4>2
    <3>4. RemoveAt(s, n + 1) = mc_addr_pool
      BY <3>2, <3>3, SeqEqual DEF McastTypes
    <3>5. Len(pool.addrs) = 1 <=> n = 0
      BY <2>1, <3>2 DEF s
    <3>6. McastSized
      BY <2>1, <3>1, <3>4, <3>5 DEF McastSized, s
    <3> QED
      BY <3>6
  <2> QED
    BY <2>3, <2>4
<1> QED
  BY <1>4, <1>5

(* So is "mcast_addr remove".                                              *)
LEMMA RemoveMovesMcast ==
  ASSUME McastTypes, McastInv, McastRemove
  PROVE  McastMove
<1> USE DEF McastMove, McastFaultsStay, FaultStays
<1>1. PICK mc_addr \in MacAddrs, memory \in BOOLEAN, accepted \in BOOLEAN :
        mcast_addr_remove(mc_addr, memory, accepted)
  BY DEF McastRemove
<1>2. PICK i \in DOMAIN mc_addr_pool :
        /\ open /\ mc_addr_pool[i] = mc_addr
        /\ LET pool == mcast_addr_pool_remove(ThePool, i)
               back == mcast_addr_pool_append(pool, mc_addr, memory)
           IN /\ eth_port_multicast_addr_list_set(pool, accepted)
              /\ SetPool(IF accepted THEN pool ELSE back)
              /\ Fault(IF ~accepted /\ back = pool THEN {"mc_nomem"} ELSE {})
  BY <1>1 DEF mcast_addr_remove
<1> DEFINE size == IF Len(mc_addr_pool) = 1 THEN 0 ELSE mc_pool_size
           pool == [addrs |-> RemoveAt(mc_addr_pool, i), size |-> size]
           back == mcast_addr_pool_append(pool, mc_addr, memory)
<1>3. mcast_addr_pool_remove(ThePool, i) = pool
  BY DEF mcast_addr_pool_remove, ThePool
<1>4. i \in 1 .. Len(mc_addr_pool)
  BY <1>2, ElementsOfSeq DEF McastTypes
<1>5. /\ dev_mc' = IF accepted THEN ToSet(pool.addrs) ELSE dev_mc
      /\ SetPool(IF accepted THEN pool ELSE back)
      /\ faults' = faults \cup
           (IF ~accepted /\ back = pool THEN {"mc_nomem"} ELSE {})
  BY <1>2, <1>3 DEF eth_port_multicast_addr_list_set, Fault
<1>6. CASE accepted
  BY <1>4, <1>5, <1>6 DEF SetPool, McastRemoved
<1>7. CASE ~accepted /\ back = pool
  BY <1>4, <1>5, <1>7 DEF SetPool, McastRemoved
<1>8. CASE ~accepted /\ back # pool
  <2>1. back = [addrs |-> Append(pool.addrs, mc_addr),
                size |-> mcast_addr_pool_extend(pool)]
    BY <1>8 DEF mcast_addr_pool_append
  <2>2. /\ mc_addr_pool' = Append(pool.addrs, mc_addr_pool[i])
        /\ mc_pool_size' = mcast_addr_pool_extend(pool)
        /\ dev_mc' = dev_mc /\ faults' = faults
    BY <1>2, <1>5, <1>8, <2>1 DEF SetPool
  <2>3. McastMoved
    BY <1>4, <2>2 DEF McastMoved
  <2> QED
    BY <2>3
<1> QED
  BY <1>6, <1>7, <1>8

(* Every step of the session is one of these for the pool.                 *)
LEMMA McastMoves ==
  ASSUME McastTypes, McastInv, [Next]_vars
  PROVE  McastMove
<1> USE DEF McastMove, McastSame, McastFaultsStay, FaultStays, poolVars,
            mcastVars
<1>1. CASE FlowCreate \/ FlowValidate
  BY <1>1 DEF FlowCreate, FlowValidate, port_flow_create, port_flow_validate,
              PrepFails, ConvFails, CreateRefused, Fault, deviceVars
<1>2. CASE FlowDestroy \/ FlowFlush
  BY <1>2 DEF FlowDestroy, FlowFlush, port_flow_destroy, port_flow_flush,
              Flush, Fault, deviceVars
<1>3. CASE FlowUse \/ ActionUse
  BY <1>3 DEF FlowUse, ActionUse, port_flow_dump, port_flow_query,
              port_action_handle_update, port_action_handle_query, CallWith,
              Dies, deviceVars
<1>4. CASE FlowAges \/ FlowAged
  BY <1>4 DEF FlowAges, FlowAged, Age, port_flow_aged, Dies, deviceVars
<1>5. CASE TunnelCreate \/ TunnelDestroy
  BY <1>5 DEF TunnelCreate, TunnelDestroy, deviceVars
<1>6. CASE ActionCreate \/ ActionDestroy
  BY <1>6 DEF ActionCreate, ActionDestroy, port_action_handle_create,
              port_action_handle_destroy, deviceVars, Dies
<1>7. CASE McastAdd
  BY <1>7, AddMovesMcast
<1>8. CASE McastRemove
  BY <1>8, RemoveMovesMcast
<1>9. CASE FlexCreate \/ FlexDestroy \/ FlexPattern
  BY <1>9 DEF FlexCreate, FlexDestroy, FlexPattern, flex_item_create,
              flex_item_destroy, flex_pattern_parsed_fn, deviceVars, Fault,
              Dies
<1>10. CASE ClosePort \/ DetachPort
  <2>1. /\ mc_addr_pool' = mc_addr_pool /\ mc_pool_size' = mc_pool_size
        /\ dev_mc' = {} /\ faults \ {"flush"} \subseteq faults'
        /\ McastKept \subseteq faults'
    BY <1>10 DEF ClosePort, DetachPort
  <2> QED
    BY <2>1 DEF McastClosed, McastKept
<1>11. CASE AttachPort \/ Ended \/ UNCHANGED vars
  BY <1>11 DEF AttachPort, Ended, vars, deviceVars
<1> QED
  BY <1>1, <1>2, <1>3, <1>4, <1>5, <1>6, <1>7, <1>8, <1>9, <1>10, <1>11
     DEF Next

(* The types and the invariant of the pool are kept by every move.         *)
LEMMA McastStep ==
  ASSUME McastTypes, McastInv, McastMove
  PROVE  McastTypes' /\ McastInv'
<1> DEFINE E == Elements(mc_addr_pool)
           n == Len(mc_addr_pool)
           quiet == faults \cap {"mc_nomem", "mc_kept"} = {}
           quiet1 == faults' \cap {"mc_nomem", "mc_kept"} = {}
<1>0. /\ mc_addr_pool \in Seq(MacAddrs) /\ mc_pool_size \in Nat
      /\ dev_mc \subseteq MacAddrs /\ IsInjective(mc_addr_pool)
      /\ HasRoom(n, mc_pool_size) /\ (quiet => E = dev_mc)
      /\ E \subseteq MacAddrs /\ n \in Nat
      /\ \A s : ToSet(s) = Elements(s)
      /\ quiet1 => quiet
  <2>1. McastFaultsStay
    BY DEF McastMove, McastSame, McastSized, McastAdded, McastRemoved,
           McastMoved, McastClosed
  <2>2. E \subseteq MacAddrs /\ n \in Nat
    BY ElementsOfSeq DEF McastTypes
  <2>3. \A s : ToSet(s) = Elements(s)
    BY DEF ToSet, Elements
  <2> QED
    BY <2>1, <2>2, <2>3
       DEF McastTypes, McastInv, McastFaultsStay, FaultStays
<1>00. HasRoom(0, 0)
  <2>1. 0 = 0 * McastPoolInc
    BY PoolsAssumption
  <2> QED
    BY <2>1 DEF HasRoom
<1>01. SUFFICES /\ mc_addr_pool' \in Seq(MacAddrs)
                /\ mc_pool_size' \in Nat /\ dev_mc' \subseteq MacAddrs
                /\ HasRoom(Len(mc_addr_pool'), mc_pool_size')
                /\ IsInjective(mc_addr_pool')
                /\ quiet1 => Elements(mc_addr_pool') = dev_mc'
  BY <1>0 DEF McastTypes, McastInv
<1>1. CASE McastSame
  BY <1>0, <1>1 DEF McastSame
<1>2. /\ mcast_addr_pool_extend(ThePool) \in Nat
      /\ HasRoom(n + 1, mcast_addr_pool_extend(ThePool))
      /\ HasRoom(n, mcast_addr_pool_extend(ThePool))
  <2>1. ThePool.addrs = mc_addr_pool /\ ThePool.size = mc_pool_size
    BY DEF ThePool
  <2>2. /\ mcast_addr_pool_extend(ThePool) \in Nat
        /\ HasRoom(n + 1, mcast_addr_pool_extend(ThePool))
    BY <1>0, <2>1, ExtendedHasRoom
  <2> QED
    BY <1>0, <2>2 DEF HasRoom
<1>3. CASE McastSized
  <2>1. CASE n = 0
    BY <1>0, <1>00, <1>3, <2>1 DEF McastSized
  <2>2. CASE n # 0
    BY <1>0, <1>2, <1>3, <2>2 DEF McastSized
  <2> QED
    BY <2>1, <2>2
<1>4. CASE McastAdded
  <2>1. PICK x \in MacAddrs \ E :
          /\ mc_addr_pool' = Append(mc_addr_pool, x)
          /\ mc_pool_size' = mcast_addr_pool_extend(ThePool)
          /\ dev_mc' = Elements(mc_addr_pool')
    BY <1>0, <1>4 DEF McastAdded
  <2>2. /\ mc_addr_pool' \in Seq(MacAddrs) /\ Len(mc_addr_pool') = n + 1
        /\ Elements(mc_addr_pool') = E \cup {x}
        /\ IsInjective(mc_addr_pool')
    BY <1>0, <2>1, AppendedElements
  <2> HIDE DEF E
  <2> QED
    BY <1>0, <1>2, <2>1, <2>2
<1>5. ASSUME NEW i \in 1 .. n
      PROVE  LET t == RemoveAt(mc_addr_pool, i)
                 size == IF n = 1 THEN 0 ELSE mc_pool_size
             IN /\ t \in Seq(MacAddrs) /\ Len(t) = n - 1
                /\ Elements(t) = E \ {mc_addr_pool[i]} /\ IsInjective(t)
                /\ mc_addr_pool[i] \in E
                /\ size \in Nat /\ HasRoom(n - 1, size)
  <2> DEFINE t == RemoveAt(mc_addr_pool, i)
             size == IF n = 1 THEN 0 ELSE mc_pool_size
  <2>1. /\ t \in Seq(MacAddrs) /\ Len(t) = n - 1
        /\ Elements(t) = E \ {mc_addr_pool[i]} /\ IsInjective(t)
    BY <1>0, RemovedElements
  <2>2. mc_addr_pool[i] \in E
    BY <1>0, ElementsOfSeq DEF Elements
  <2>3. size \in Nat /\ HasRoom(n - 1, size)
    <3>1. CASE n = 1
      BY <1>00, <3>1
    <3>2. CASE n # 1
      BY <1>0, <3>2 DEF HasRoom
    <3> QED
      BY <3>1, <3>2
  <2> QED
    BY <2>1, <2>2, <2>3
<1>6. CASE McastRemoved
  <2>1. PICK i \in 1 .. n :
          /\ mc_addr_pool' = RemoveAt(mc_addr_pool, i)
          /\ mc_pool_size' = IF n = 1 THEN 0 ELSE mc_pool_size
          /\ \/ dev_mc' = Elements(mc_addr_pool')
             \/ dev_mc' = dev_mc /\ "mc_nomem" \in faults'
    BY <1>0, <1>6 DEF McastRemoved
  <2>2. /\ mc_addr_pool' \in Seq(MacAddrs) /\ Len(mc_addr_pool') = n - 1
        /\ Elements(mc_addr_pool') = E \ {mc_addr_pool[i]}
        /\ IsInjective(mc_addr_pool')
        /\ mc_pool_size' \in Nat /\ HasRoom(n - 1, mc_pool_size')
    BY <1>5, <2>1
  <2> HIDE DEF E
  <2> QED
    BY <1>0, <2>1, <2>2
<1>7. CASE McastMoved
  <2> DEFINE size == IF n = 1 THEN 0 ELSE mc_pool_size
             at(i) == [addrs |-> RemoveAt(mc_addr_pool, i), size |-> size]
  <2>1. PICK i \in 1 .. n :
          /\ mc_addr_pool' = Append(at(i).addrs, mc_addr_pool[i])
          /\ mc_pool_size' = mcast_addr_pool_extend(at(i))
          /\ dev_mc' = dev_mc
    BY <1>7 DEF McastMoved
  <2> DEFINE t == RemoveAt(mc_addr_pool, i)
             x == mc_addr_pool[i]
             pool == at(i)
  <2>2. /\ t \in Seq(MacAddrs) /\ Len(t) = n - 1
        /\ Elements(t) = E \ {x} /\ IsInjective(t) /\ x \in E
        /\ size \in Nat /\ HasRoom(n - 1, size)
    BY <1>5
  <2>3. pool.addrs = t /\ pool.size = size
    OBVIOUS
  <2> HIDE DEF size, t, x, pool
  <2>4. mc_addr_pool' = Append(t, x) /\ mc_pool_size' = mcast_addr_pool_extend(pool)
    BY <2>1, <2>3 DEF pool, x
  <2> HIDE DEF E
  <2>5. x \in MacAddrs /\ x \notin Elements(t)
    BY <1>0, <2>2
  <2>6. /\ Append(t, x) \in Seq(MacAddrs) /\ Len(Append(t, x)) = n
        /\ Elements(Append(t, x)) = E /\ IsInjective(Append(t, x))
    <3>1. /\ Append(t, x) \in Seq(MacAddrs)
          /\ Len(Append(t, x)) = Len(t) + 1
          /\ Elements(Append(t, x)) = Elements(t) \cup {x}
          /\ IsInjective(Append(t, x))
      BY <2>2, <2>5, AppendedElements
    <3> HIDE DEF n
    <3> QED
      BY <1>0, <2>2, <3>1
  <2>7. /\ mcast_addr_pool_extend(pool) \in Nat
        /\ HasRoom(n, mcast_addr_pool_extend(pool))
    <3>1. /\ Len(pool.addrs) = n - 1 /\ n - 1 \in Nat /\ pool.size \in Nat
          /\ HasRoom(Len(pool.addrs), pool.size)
      BY <1>0, <2>2, <2>3, LenProperties
    <3>2. /\ mcast_addr_pool_extend(pool) \in Nat
          /\ HasRoom(Len(pool.addrs) + 1, mcast_addr_pool_extend(pool))
      BY <3>1, ExtendedHasRoom
    <3>3. Len(pool.addrs) + 1 = n
      BY <1>0, <3>1
    <3> QED
      BY <3>2, <3>3
  <2> QED
    BY <1>0, <2>1, <2>4, <2>6, <2>7
<1>8. CASE McastClosed
  <2>1. quiet1 => mc_addr_pool = <<>>
    BY <1>8 DEF McastClosed
  <2>2. quiet1 => E = {}
    BY <2>1, ElementsOfEmpty
  <2> QED
    BY <1>0, <1>8, <2>2 DEF McastClosed
<1> QED
  BY <1>1, <1>3, <1>4, <1>6, <1>7, <1>8 DEF McastMove

-----------------------------------------------------------------------------
(* Flex items and patterns.                                                *)

FlexTypes ==
  /\ flex_items \in [FlexIds -> FlexHandles \cup {NULL, GONE}]
  /\ flex_heap \subseteq FlexIds /\ dev_flex \subseteq FlexHandles

UsedSlots == {i \in FlexIds : flex_items[i] # NULL}

(* Every slot with a handle of the device has its own, and the device has  *)
(* no others; the items that have memory are those of the slots, save what *)
(* has been lost.                                                          *)
FlexInv ==
  /\ \A i, j \in FlexIds :
       flex_items[i] = flex_items[j] /\ flex_items[i] \notin {NULL, GONE}
         => i = j
  /\ \A i \in FlexIds :
       flex_items[i] \notin {NULL, GONE} => flex_items[i] \in dev_flex
  /\ \A h \in dev_flex : \E i \in FlexIds : flex_items[i] = h
  /\ "flex_kept" \notin faults => \A i \in FlexIds : flex_items[i] # GONE
  /\ UsedSlots \subseteq flex_heap
  /\ "flex_refused" \notin faults => flex_heap \ UsedSlots \subseteq {0}
  /\ "flex_zero" \notin faults /\ "flex_refused" \notin faults =>
       flex_heap = UsedSlots

(* The moves of the items: nothing happens to them; one is created; one is *)
(* destroyed; all slots are flushed with the port; the device goes.        *)
FlexFaultsStay ==
  FaultStays("flex_kept") /\ FaultStays("flex_refused") /\ FaultStays("flex_zero")
FlexSame ==
  /\ flex_items' = flex_items /\ flex_heap' = flex_heap
  /\ dev_flex' = dev_flex /\ FlexFaultsStay
FlexCreated ==
  \E id \in FlexIds :
    LET handle == Fresh(FlexHandles, dev_flex)
    IN /\ flex_items[id] = NULL /\ FlexHandles # dev_flex
       /\ flex_items' = [flex_items EXCEPT ![id] = handle]
       /\ flex_heap' = flex_heap \cup {id}
       /\ dev_flex' = dev_flex \cup {handle} /\ FlexFaultsStay
FlexDestroyed ==
  \E id \in FlexIds :
    /\ flex_items[id] \in dev_flex
    /\ flex_items' = [flex_items EXCEPT ![id] = NULL]
    /\ flex_heap' = flex_heap \ {id}
    /\ dev_flex' = dev_flex \ {flex_items[id]} /\ FlexFaultsStay
FlexFlushed ==
  \E freed \in SUBSET UsedSlots :
    /\ flex_items' = [i \in FlexIds |-> NULL]
    /\ flex_heap' = flex_heap \ freed /\ dev_flex' = {}
    /\ FlexFaultsStay /\ FlexLost(UsedSlots \ freed) \subseteq faults'
FlexDetached ==
  /\ flex_items' = [i \in FlexIds |-> IF flex_items[i] = NULL THEN NULL ELSE GONE]
  /\ flex_heap' = flex_heap /\ dev_flex' = {}
  /\ FlexFaultsStay /\ FlexKept \subseteq faults'
FlexMove ==
  FlexSame \/ FlexCreated \/ FlexDestroyed \/ FlexFlushed \/ FlexDetached

(* Every step of the session is one of these for the items.                *)
LEMMA FlexMoves ==
  ASSUME FlexTypes, [Next]_vars
  PROVE  FlexMove
<1> USE DEF FlexMove, FlexSame, FlexFaultsStay, FaultStays, poolVars, flexVars
<1>1. CASE FlowCreate \/ FlowValidate
  BY <1>1 DEF FlowCreate, FlowValidate, port_flow_create, port_flow_validate,
              PrepFails, ConvFails, CreateRefused, Fault, deviceVars
<1>2. CASE FlowDestroy \/ FlowFlush
  BY <1>2 DEF FlowDestroy, FlowFlush, port_flow_destroy, port_flow_flush,
              Flush, Fault, deviceVars
<1>3. CASE FlowUse \/ ActionUse
  BY <1>3 DEF FlowUse, ActionUse, port_flow_dump, port_flow_query,
              port_action_handle_update, port_action_handle_query, CallWith,
              Dies, deviceVars
<1>4. CASE FlowAges \/ FlowAged
  BY <1>4 DEF FlowAges, FlowAged, Age, port_flow_aged, Dies, deviceVars
<1>5. CASE TunnelCreate \/ TunnelDestroy
  BY <1>5 DEF TunnelCreate, TunnelDestroy, deviceVars
<1>6. CASE ActionCreate \/ ActionDestroy
  BY <1>6 DEF ActionCreate, ActionDestroy, port_action_handle_create,
              port_action_handle_destroy, deviceVars, Dies
<1>7. CASE McastAdd \/ McastRemove
  BY <1>7 DEF McastAdd, McastRemove, mcast_addr_add, mcast_addr_remove,
              deviceVars, Fault, Dies
<1>8. CASE FlexCreate
  <2>1. PICK id \in 0 .. NbFlexItems, conf \in FlexConfs, created \in BOOLEAN :
          flex_item_create(id, conf, created)
    BY <1>8 DEF FlexCreate
  <2>2. id \in FlexIds /\ flex_items[id] = NULL
    BY <2>1 DEF flex_item_create, flex_parser_fetch, FLEX_PARSER_ERR, NULL
  <2> DEFINE cfg == flex_item_config(conf)
             bad == cfg = "undefined"
             good == cfg = "ok" /\ created /\ FlexHandles # dev_flex
             handle == Fresh(FlexHandles, dev_flex)
  <2>3. CASE bad
    BY <2>1, <2>3 DEF flex_item_create, Dies
  <2>4. CASE good
    <3>1. /\ flex_items' = [flex_items EXCEPT ![id] = handle]
          /\ flex_heap' = flex_heap \cup {id}
          /\ dev_flex' = dev_flex \cup {handle} /\ faults' = faults
      BY <2>1, <2>4 DEF flex_item_create, deviceVars
    <3> HIDE DEF cfg
    <3> QED
      BY <2>2, <2>4, <3>1 DEF FlexCreated
  <2>5. CASE ~bad /\ ~good
    BY <2>1, <2>5 DEF flex_item_create, deviceVars
  <2> QED
    BY <2>3, <2>4, <2>5
<1>9. CASE FlexDestroy
  BY <1>9 DEF FlexDestroy, flex_item_destroy, deviceVars, Dies, FlexDestroyed
<1>10. CASE FlexPattern
  BY <1>10 DEF FlexPattern, flex_pattern_parsed_fn, Fault
<1>11. CASE ClosePort
  <2>1. PICK refused \in SUBSET FlexIds :
          LET freed == {i \in UsedSlots : Freed(i, refused)}
          IN /\ flex_items' = port_flex_item_flush
             /\ flex_heap' = flex_heap \ freed
             /\ faults' = (faults \ {"flush"}) \cup ActionsKept \cup McastKept
                            \cup FlexLost(UsedSlots \ freed)
    BY <1>11 DEF ClosePort, UsedSlots
  <2>2. dev_flex' = {}
    BY <1>11 DEF ClosePort
  <2>3. FlexFlushed
    BY <2>1, <2>2 DEF FlexFlushed, port_flex_item_flush
  <2> QED
    BY <2>3
<1>12. CASE DetachPort
  BY <1>12 DEF DetachPort, FlexDetached
<1>13. CASE AttachPort \/ Ended \/ UNCHANGED vars
  BY <1>13 DEF AttachPort, Ended, vars, deviceVars
<1> QED
  BY <1>1, <1>2, <1>3, <1>4, <1>5, <1>6, <1>7, <1>8, <1>9, <1>10, <1>11,
     <1>12, <1>13 DEF Next

(* The types and the invariant of the items are kept by every move.        *)
LEMMA FlexStep ==
  ASSUME FlexTypes, FlexInv, FlexMove
  PROVE  FlexTypes' /\ FlexInv'
<1>0. /\ FlexHandles \subseteq Nat /\ NULL \notin FlexHandles
      /\ GONE \notin FlexHandles /\ GONE # NULL
  BY PoolsAssumption DEF FlexHandles, NULL, GONE
<1>1. CASE FlexSame
  BY <1>1 DEF FlexSame, FlexFaultsStay, FaultStays, FlexTypes, FlexInv,
              UsedSlots
<1>2. CASE FlexCreated
  <2> DEFINE handle == Fresh(FlexHandles, dev_flex)
  <2>1. PICK id \in FlexIds :
          /\ flex_items[id] = NULL /\ FlexHandles # dev_flex
          /\ flex_items' = [flex_items EXCEPT ![id] = handle]
          /\ flex_heap' = flex_heap \cup {id}
          /\ dev_flex' = dev_flex \cup {handle} /\ FlexFaultsStay
    BY <1>2 DEF FlexCreated
  <2>2. handle \in FlexHandles /\ handle \notin dev_flex
    <3>1. FlexHandles \ dev_flex # {}
      BY <2>1 DEF FlexTypes
    <3> QED
      BY <1>0, <3>1, FreshIsFree
  <2> HIDE DEF handle
  <2>3. FlexTypes'
    BY <2>1, <2>2 DEF FlexTypes
  <2>4. \A i \in FlexIds :
          flex_items'[i] = IF i = id THEN handle ELSE flex_items[i]
    BY <2>1 DEF FlexTypes
  <2>5. UsedSlots' = UsedSlots \cup {id}
    BY <1>0, <2>2, <2>4 DEF UsedSlots
  <2>6. \A i, j \in FlexIds :
          flex_items'[i] = flex_items'[j] /\ flex_items'[i] \notin {NULL, GONE}
            => i = j
    BY <2>2, <2>4 DEF FlexInv
  <2>7. /\ \A i \in FlexIds :
             flex_items'[i] \notin {NULL, GONE} => flex_items'[i] \in dev_flex'
        /\ \A h \in dev_flex' : \E i \in FlexIds : flex_items'[i] = h
    <3>1. \A i \in FlexIds :
            flex_items'[i] \notin {NULL, GONE} => flex_items'[i] \in dev_flex'
      BY <2>1, <2>4 DEF FlexInv
    <3>2. \A h \in dev_flex : \E i \in FlexIds : i # id /\ flex_items[i] = h
      BY <1>0, <2>1 DEF FlexInv, FlexTypes
    <3>3. \A h \in dev_flex' : \E i \in FlexIds : flex_items'[i] = h
      BY <2>1, <2>4, <3>2
    <3> QED
      BY <3>1, <3>3
  <2>8. "flex_kept" \notin faults' => \A i \in FlexIds : flex_items'[i] # GONE
    BY <1>0, <2>1, <2>2, <2>4 DEF FlexInv, FlexFaultsStay, FaultStays
  <2>9. /\ UsedSlots' \subseteq flex_heap'
        /\ "flex_refused" \notin faults' => flex_heap' \ UsedSlots' \subseteq {0}
        /\ "flex_zero" \notin faults' /\ "flex_refused" \notin faults' =>
             flex_heap' = UsedSlots'
    BY <2>1, <2>5 DEF FlexInv, FlexFaultsStay, FaultStays
  <2> QED
    BY <2>3, <2>6, <2>7, <2>8, <2>9 DEF FlexInv
<1>3. CASE FlexDestroyed
  <2>1. PICK id \in FlexIds :
          /\ flex_items[id] \in dev_flex
          /\ flex_items' = [flex_items EXCEPT ![id] = NULL]
          /\ flex_heap' = flex_heap \ {id}
          /\ dev_flex' = dev_flex \ {flex_items[id]} /\ FlexFaultsStay
    BY <1>3 DEF FlexDestroyed
  <2>2. FlexTypes'
    BY <2>1 DEF FlexTypes
  <2>3. \A i \in FlexIds :
          flex_items'[i] = IF i = id THEN NULL ELSE flex_items[i]
    BY <2>1 DEF FlexTypes
  <2>4. UsedSlots' = UsedSlots \ {id}
    BY <2>3 DEF UsedSlots
  <2>5. flex_items[id] \notin {NULL, GONE} /\ id \in UsedSlots
    BY <1>0, <2>1 DEF FlexTypes, UsedSlots
  <2>6. \A i, j \in FlexIds :
          flex_items'[i] = flex_items'[j] /\ flex_items'[i] \notin {NULL, GONE}
            => i = j
    BY <2>3 DEF FlexInv
  <2>7. \A i \in FlexIds :
          flex_items'[i] \notin {NULL, GONE} => flex_items'[i] \in dev_flex'
    BY <2>1, <2>3, <2>5 DEF FlexInv
  <2>8. \A h \in dev_flex' : \E i \in FlexIds : flex_items'[i] = h
    BY <2>1, <2>3 DEF FlexInv
  <2>9. "flex_kept" \notin faults' => \A i \in FlexIds : flex_items'[i] # GONE
    BY <1>0, <2>1, <2>3 DEF FlexInv, FlexFaultsStay, FaultStays
  <2>10. /\ UsedSlots' \subseteq flex_heap'
         /\ "flex_refused" \notin faults' => flex_heap' \ UsedSlots' \subseteq {0}
         /\ "flex_zero" \notin faults' /\ "flex_refused" \notin faults' =>
              flex_heap' = UsedSlots'
    BY <2>1, <2>4 DEF FlexInv, FlexFaultsStay, FaultStays
  <2> QED
    BY <2>2, <2>6, <2>7, <2>8, <2>9, <2>10 DEF FlexInv
<1>4. CASE FlexFlushed
  <2>1. PICK freed \in SUBSET UsedSlots :
          /\ flex_items' = [i \in FlexIds |-> NULL]
          /\ flex_heap' = flex_heap \ freed /\ dev_flex' = {}
          /\ FlexFaultsStay /\ FlexLost(UsedSlots \ freed) \subseteq faults'
    BY <1>4 DEF FlexFlushed
  <2>2. FlexTypes'
    BY <2>1 DEF FlexTypes
  <2>3. \A i \in FlexIds : flex_items'[i] = NULL
    BY <2>1
  <2>4. UsedSlots' = {}
    BY <2>3 DEF UsedSlots
  <2> DEFINE lost == UsedSlots \ freed
  <2>5. /\ 0 \in lost => "flex_zero" \in faults'
        /\ lost \ {0} # {} => "flex_refused" \in faults'
    BY <2>1 DEF FlexLost
  <2>6. /\ "flex_refused" \notin faults' => flex_heap' \subseteq {0}
        /\ "flex_zero" \notin faults' /\ "flex_refused" \notin faults' =>
             flex_heap' = {}
    BY <2>1, <2>5 DEF FlexInv, FlexFaultsStay, FaultStays
  <2> QED
    BY <1>0, <2>1, <2>2, <2>3, <2>4, <2>6 DEF FlexInv
<1>5. CASE FlexDetached
  <2>1. /\ flex_heap' = flex_heap /\ dev_flex' = {} /\ FlexFaultsStay
        /\ FlexKept \subseteq faults'
        /\ \A i \in FlexIds :
             flex_items'[i] = IF flex_items[i] = NULL THEN NULL ELSE GONE
    BY <1>5 DEF FlexDetached
  <2>2. FlexTypes'
    BY <1>5 DEF FlexDetached, FlexTypes
  <2>3. UsedSlots' = UsedSlots
    BY <1>0, <2>1 DEF UsedSlots
  <2>4. "flex_kept" \notin faults' => \A i \in FlexIds : flex_items'[i] # GONE
    BY <1>0, <2>1 DEF FlexKept
  <2>5. \A i \in FlexIds : flex_items'[i] \in {NULL, GONE}
    BY <2>1
  <2> QED
    BY <2>1, <2>2, <2>3, <2>4, <2>5 DEF FlexInv, FlexFaultsStay, FaultStays
<1> QED
  BY <1>1, <1>2, <1>3, <1>4, <1>5 DEF FlexMove

-----------------------------------------------------------------------------
(* The patterns of flex items.                                             *)

PatternTypes ==
  flex_patterns \in
    [FlexPatterns -> [spec : 0 .. PatternLength - 1,
                      mask : 0 .. PatternLength - 1, set : BOOLEAN]]

(* A pattern is set, or nothing happens to the patterns.                   *)
LEMMA PatternStep ==
  ASSUME PatternTypes, PatternWhole, [Next]_vars
  PROVE  PatternTypes' /\ PatternWhole'
<1>1. CASE FlexPattern
  <2>1. PICK id \in FlexPatterns, spec_data \in 0 .. PatternLength,
             mask_data \in 0 .. PatternLength, full_spec \in BOOLEAN :
          flex_pattern_parsed_fn(id, spec_data, full_spec, mask_data)
    BY <1>1 DEF FlexPattern
  <2> DEFINE spec == flex_pattern_data(spec_data)
             mask == IF full_spec THEN flex_pattern_data(mask_data) ELSE spec
             old == flex_patterns[id]
             fits == Whole(spec, mask)
             set == old.set \/ fits
             made == IF spec = 0 THEN old.mask ELSE mask
             new == [spec |-> spec, mask |-> made, set |-> set]
  <2>2. /\ flex_patterns' = [flex_patterns EXCEPT ![id] = new]
        /\ faults' = faults \cup (IF fits THEN {} ELSE {"pattern"})
    BY <2>1 DEF flex_pattern_parsed_fn, Fault
  <2>3. spec \in 0 .. PatternLength - 1 /\ mask \in 0 .. PatternLength - 1
    BY PoolsAssumption DEF flex_pattern_data
  <2>4. /\ made \in 0 .. PatternLength - 1
        /\ set \in BOOLEAN
        /\ fits => spec = made
    BY <2>3 DEF PatternTypes, Whole
  <2> HIDE DEF spec, mask, made, set, fits
  <2>5. PatternTypes'
    BY <2>2, <2>3, <2>4 DEF PatternTypes
  <2>6. PatternWhole'
    BY <2>2, <2>4 DEF PatternWhole, PatternTypes
  <2> QED
    BY <2>5, <2>6
<1>2. SUFFICES ASSUME ~FlexPattern
               PROVE  flex_patterns' = flex_patterns /\ FaultStays("pattern")
  BY <1>1 DEF PatternTypes, PatternWhole, FaultStays
<1> USE DEF FaultStays, poolVars, flexVars
<1>3. CASE FlowCreate \/ FlowValidate
  BY <1>3 DEF FlowCreate, FlowValidate, port_flow_create, port_flow_validate,
              PrepFails, ConvFails, CreateRefused, Fault, deviceVars
<1>4. CASE FlowDestroy \/ FlowFlush
  BY <1>4 DEF FlowDestroy, FlowFlush, port_flow_destroy, port_flow_flush,
              Flush, Fault, deviceVars
<1>5. CASE FlowUse \/ ActionUse
  BY <1>5 DEF FlowUse, ActionUse, port_flow_dump, port_flow_query,
              port_action_handle_update, port_action_handle_query, CallWith,
              Dies, deviceVars
<1>6. CASE FlowAges \/ FlowAged
  BY <1>6 DEF FlowAges, FlowAged, Age, port_flow_aged, Dies, deviceVars
<1>7. CASE TunnelCreate \/ TunnelDestroy
  BY <1>7 DEF TunnelCreate, TunnelDestroy, deviceVars
<1>8. CASE ActionCreate \/ ActionDestroy
  BY <1>8 DEF ActionCreate, ActionDestroy, port_action_handle_create,
              port_action_handle_destroy, deviceVars, Dies
<1>9. CASE McastAdd \/ McastRemove
  BY <1>9 DEF McastAdd, McastRemove, mcast_addr_add, mcast_addr_remove,
              deviceVars, Fault, Dies
<1>10. CASE FlexCreate \/ FlexDestroy
  BY <1>10 DEF FlexCreate, FlexDestroy, flex_item_create, flex_item_destroy,
               deviceVars, Dies
<1>11. CASE ClosePort \/ DetachPort
  BY <1>11 DEF ClosePort, DetachPort
<1>12. CASE AttachPort \/ Ended \/ UNCHANGED vars
  BY <1>12 DEF AttachPort, Ended, vars, deviceVars
<1> QED
  BY <1>2, <1>3, <1>4, <1>5, <1>6, <1>7, <1>8, <1>9, <1>10, <1>11, <1>12
     DEF Next

-----------------------------------------------------------------------------
(* The listing of the rules.                                               *)

(* A new element in the midst of a list.                                   *)
LEMMA InsertedAt ==
  ASSUME NEW T, NEW list \in Seq(T), NEW k \in 1 .. Len(list), NEW x \in T
  PROVE  /\ InsertAt(list, k, x) \in Seq(T)
         /\ Len(InsertAt(list, k, x)) = Len(list) + 1
         /\ \A j \in 1 .. Len(list) + 1 :
              InsertAt(list, k, x)[j] = IF j < k THEN list[j]
                                        ELSE IF j = k THEN x ELSE list[j - 1]
<1> DEFINE front == SubSeq(list, 1, k - 1)
           back == SubSeq(list, k, Len(list))
           head == front \o <<x>>
<1>1. /\ Len(list) \in Nat /\ k \in Nat /\ 1 <= k /\ k <= Len(list)
      /\ \A j \in 1 .. Len(list) : list[j] \in T
  BY LenProperties, ElementOfSeq
<1>2. /\ front \in Seq(T) /\ Len(front) = k - 1
      /\ \A j \in 1 .. k - 1 : front[j] = list[j]
  <2>1. \A j \in 1 .. k - 1 : list[j] \in T
    BY <1>1
  <2>2. /\ front \in Seq(T) /\ Len(front) = IF 1 <= k - 1 THEN k - 1 ELSE 0
        /\ \A j \in 1 .. k - 1 - 1 + 1 : front[j] = list[1 + j - 1]
    BY <1>1, <2>1, SubSeqProperties
  <2> HIDE DEF front
  <2> QED
    BY <1>1, <2>2
<1>3. /\ back \in Seq(T) /\ Len(back) = Len(list) - k + 1
      /\ \A j \in 1 .. Len(list) - k + 1 : back[j] = list[k + j - 1]
  <2>1. \A j \in k .. Len(list) : list[j] \in T
    BY <1>1
  <2>2. /\ back \in Seq(T)
        /\ Len(back) = IF k <= Len(list) THEN Len(list) - k + 1 ELSE 0
        /\ \A j \in 1 .. Len(list) - k + 1 : back[j] = list[k + j - 1]
    BY <1>1, <2>1, SubSeqProperties
  <2> HIDE DEF back, front, head
  <2>3. Len(back) = Len(list) - k + 1
    BY <1>1, <2>2
  <2> QED
    BY <2>2, <2>3
<1>4. InsertAt(list, k, x) = head \o back
  BY DEF InsertAt
<1>5. <<x>> \in Seq(T) /\ Len(<<x>>) = 1 /\ <<x>>[1] = x
  OBVIOUS
<1> HIDE DEF front, back
<1>6. /\ head \in Seq(T) /\ Len(head) = k
      /\ \A j \in 1 .. k : head[j] = IF j < k THEN list[j] ELSE x
  <2>1. /\ head \in Seq(T) /\ Len(head) = Len(front) + Len(<<x>>)
        /\ \A j \in 1 .. Len(front) + Len(<<x>>) :
             head[j] = IF j <= Len(front) THEN front[j]
                       ELSE <<x>>[j - Len(front)]
    BY <1>2, <1>5, ConcatProperties
  <2> HIDE DEF head
  <2>2. ASSUME NEW j \in 1 .. k PROVE head[j] = IF j < k THEN list[j] ELSE x
    <3>1. CASE j < k
      BY <1>1, <1>2, <1>5, <2>1, <3>1
    <3>2. CASE j = k
      BY <1>1, <1>2, <1>5, <2>1, <3>2
    <3> QED
      BY <1>1, <3>1, <3>2
  <2> QED
    BY <1>1, <1>2, <1>5, <2>1, <2>2
<1> HIDE DEF head
<1>7. /\ head \o back \in Seq(T)
      /\ Len(head \o back) = Len(head) + Len(back)
      /\ \A j \in 1 .. Len(head) + Len(back) :
           (head \o back)[j] = IF j <= Len(head) THEN head[j]
                               ELSE back[j - Len(head)]
  BY <1>3, <1>6, ConcatProperties
<1>8. ASSUME NEW j \in 1 .. Len(list) + 1
      PROVE  (head \o back)[j] = IF j < k THEN list[j]
                                 ELSE IF j = k THEN x ELSE list[j - 1]
  <2>1. CASE j <= k
    BY <1>1, <1>3, <1>6, <1>7, <2>1
  <2>2. CASE j > k
    <3>1. (head \o back)[j] = back[j - k]
      BY <1>1, <1>3, <1>6, <1>7, <2>2
    <3>2. j - k \in 1 .. Len(list) - k + 1 /\ k + (j - k) - 1 = j - 1
      BY <1>1, <2>2
    <3> QED
      BY <1>1, <1>3, <2>2, <3>1, <3>2
  <2>3. j <= k \/ j > k
    BY <1>1
  <2> QED
    BY <2>1, <2>2, <2>3
<1> QED
  BY <1>1, <1>3, <1>4, <1>6, <1>7, <1>8

(* Follows orders rules of different identifiers.                          *)
LEMMA FollowsOrders ==
  ASSUME NEW r \in Rule, NEW s \in Rule, NEW t \in Rule
  PROVE  /\ Follows(r, s) /\ Follows(s, t) => Follows(r, t)
         /\ r.id # s.id => Follows(r, s) \/ Follows(s, r)
<1>1. /\ r.id \in Nat /\ s.id \in Nat /\ t.id \in Nat
      /\ r.attr \in Attributes /\ s.attr \in Attributes
      /\ t.attr \in Attributes
  BY ObjectsAreNumbers DEF Rule
<1>2. \A attr \in Attributes : attr.group \in Nat /\ attr.priority \in Nat
  BY FlowsAssumption
<1>3. /\ r.attr.group \in Nat /\ s.attr.group \in Nat /\ t.attr.group \in Nat
      /\ r.attr.priority \in Nat /\ s.attr.priority \in Nat
      /\ t.attr.priority \in Nat
  BY <1>1, <1>2
<1> QED
  BY <1>1, <1>3 DEF Follows

Ordered(list) ==
  \A i, j \in DOMAIN list : i < j => Follows(list[j], list[i])

(* LinkIn puts a rule in its place.                                        *)
LEMMA LinkedIn ==
  ASSUME NEW list \in Seq(Rule), NEW r \in Rule, Ordered(list),
         \A s \in Elements(list) : s.id # r.id
  PROVE  /\ LinkIn(list, r) \in Seq(Rule)
         /\ Elements(LinkIn(list, r)) = Elements(list) \cup {r}
         /\ Ordered(LinkIn(list, r))
<1> DEFINE later == {i \in DOMAIN list : ~Follows(r, list[i])}
           k == Min(later)
<1>1. /\ Len(list) \in Nat /\ DOMAIN list = 1 .. Len(list)
      /\ \A i \in DOMAIN list : /\ list[i] \in Rule /\ list[i].id # r.id
                                /\ list[i] \in Elements(list)
  BY ElementsOfSeq DEF Elements
<1>2. CASE later = {}
  <2> DEFINE s == Append(list, r)
  <2>1. /\ s \in Seq(Rule) /\ Len(s) = Len(list) + 1
        /\ Elements(s) = Elements(list) \cup {r}
        /\ \A i \in 1 .. Len(list) : s[i] = list[i]
        /\ s[Len(list) + 1] = r
    BY AppendedElements, AppendProperties
  <2>2. LinkIn(list, r) = s
    BY <1>2 DEF LinkIn
  <2> HIDE DEF s
  <2>3. DOMAIN s = 1 .. Len(list) + 1
    BY <2>1, ElementsOfSeq
  <2>4. Ordered(s)
    BY <1>1, <1>2, <2>1, <2>3 DEF Ordered
  <2> QED
    BY <2>1, <2>2, <2>4
<1>3. CASE later # {}
  <2> DEFINE s == InsertAt(list, k, r)
  <2>1. k \in later /\ \A i \in later : k <= i
    <3>1. later \in SUBSET Nat
      BY <1>1
    <3> HIDE DEF later
    <3> QED
      BY <1>3, <3>1, LowestNumber
  <2>2. LinkIn(list, r) = s
    BY <1>3 DEF LinkIn
  <2> HIDE DEF k, s
  <2>3. k \in 1 .. Len(list) /\ ~Follows(r, list[k])
    BY <1>1, <2>1
  <2>4. \A i \in 1 .. Len(list) : i < k => Follows(r, list[i])
    <3> SUFFICES ASSUME NEW i \in 1 .. Len(list), i < k, ~Follows(r, list[i])
                 PROVE  FALSE
      OBVIOUS
    <3>1. i \in later
      BY <1>1
    <3> QED
      BY <1>1, <2>1, <2>3, <3>1
  <2>5. /\ s \in Seq(Rule) /\ Len(s) = Len(list) + 1
        /\ \A j \in 1 .. Len(list) + 1 :
             s[j] = IF j < k THEN list[j] ELSE IF j = k THEN r ELSE list[j - 1]
    BY <2>3, InsertedAt DEF s
  <2> HIDE DEF later
  <2>6. DOMAIN s = 1 .. Len(list) + 1 /\ k \in Nat
    BY <2>3, <2>5, ElementsOfSeq
  <2>7. \A j \in 1 .. Len(list) + 1 :
          \/ j < k /\ j \in 1 .. Len(list) /\ s[j] = list[j]
          \/ j = k /\ s[j] = r
          \/ j > k /\ j - 1 \in 1 .. Len(list) /\ s[j] = list[j - 1]
    BY <1>1, <2>3, <2>5
  <2>8. Elements(s) = Elements(list) \cup {r}
    <3>1. ASSUME NEW x \in Elements(s) PROVE x \in Elements(list) \cup {r}
      BY <1>1, <2>6, <2>7 DEF Elements
    <3>2. ASSUME NEW i \in DOMAIN list PROVE \E j \in DOMAIN s : s[j] = list[i]
      <4>1. CASE i < k
        BY <1>1, <2>5, <2>6, <4>1
      <4>2. CASE ~(i < k)
        <5>1. i + 1 \in DOMAIN s /\ s[i + 1] = list[i]
          BY <1>1, <2>5, <2>6, <4>2
        <5> QED
          BY <5>1
      <4> QED
        BY <4>1, <4>2
    <3>3. k \in DOMAIN s /\ s[k] = r
      BY <1>1, <2>3, <2>5, <2>6
    <3>4. ASSUME NEW x \in Elements(list) PROVE x \in Elements(s)
      <4>1. PICK i \in DOMAIN list : x = list[i]
        BY <3>4 DEF Elements
      <4> QED
        BY <3>2, <4>1 DEF Elements
    <3>5. r \in Elements(s)
      BY <3>3 DEF Elements
    <3> QED
      BY <3>1, <3>4, <3>5
  <2>9. \A i \in 1 .. Len(list) : i >= k => Follows(list[i], r)
    <3>1. Follows(list[k], r)
      BY <1>1, <2>3, FollowsOrders
    <3>2. \A i \in 1 .. Len(list) : i > k => Follows(list[i], list[k])
      BY <1>1, <2>3 DEF Ordered
    <3>3. \A i \in 1 .. Len(list) : i > k => Follows(list[i], r)
      BY <1>1, <2>3, <3>1, <3>2, FollowsOrders
    <3> QED
      BY <2>6, <3>1, <3>3
  <2>10. ASSUME NEW i \in DOMAIN s, NEW j \in DOMAIN s, i < j
         PROVE  Follows(s[j], s[i])
    <3>1. CASE j < k
      BY <1>1, <2>6, <2>7, <2>10, <3>1 DEF Ordered
    <3>2. CASE j = k
      BY <1>1, <2>4, <2>6, <2>7, <2>10, <3>2
    <3>3. CASE j > k /\ i = k
      BY <1>1, <2>6, <2>7, <2>9, <2>10, <3>3
    <3>4. CASE j > k /\ i < k
      <4>1. s[i] = list[i] /\ s[j] = list[j - 1] /\ i < j - 1
            /\ i \in DOMAIN list /\ j - 1 \in DOMAIN list
        BY <1>1, <2>6, <2>7, <2>10, <3>4
      <4> QED
        BY <4>1 DEF Ordered
    <3>5. CASE j > k /\ i > k
      <4>1. s[i] = list[i - 1] /\ s[j] = list[j - 1] /\ i - 1 < j - 1
            /\ i - 1 \in DOMAIN list /\ j - 1 \in DOMAIN list
        BY <1>1, <2>6, <2>7, <2>10, <3>5
      <4> QED
        BY <4>1 DEF Ordered
    <3> QED
      BY <2>6, <3>1, <3>2, <3>3, <3>4, <3>5
  <2>11. Ordered(s)
    BY <2>10 DEF Ordered
  <2> QED
    BY <2>2, <2>5, <2>8, <2>11
<1> QED
  BY <1>2, <1>3

(* g is the function that port_flow_list computes, for the first m rules.  *)
Links(rules, m, g) ==
  g = [n \in 0 .. m |-> IF n = 0 THEN <<>> ELSE LinkIn(g[n - 1], rules[n])]

(* There is one for every length.                                          *)
LEMMA LinksExists ==
  ASSUME NEW rules
  PROVE  \A m \in Nat : \E g : Links(rules, m, g)
<1> DEFINE F(g, n) == IF n = 0 THEN <<>> ELSE LinkIn(g[n - 1], rules[n])
           A == {m \in Nat : \E g : Links(rules, m, g)}
<1>1. 0 \in A
  <2> DEFINE g == [n \in 0 .. 0 |-> <<>>]
  <2>1. g = [n \in 0 .. 0 |-> F(g, n)]
    OBVIOUS
  <2> HIDE DEF g
  <2>2. Links(rules, 0, g)
    BY <2>1 DEF Links
  <2> QED
    BY <2>2
<1>2. ASSUME NEW m \in Nat, m \in A PROVE m + 1 \in A
  <2>1. PICK g : Links(rules, m, g)
    BY <1>2
  <2>2. g = [n \in 0 .. m |-> F(g, n)]
    BY <2>1 DEF Links
  <2> DEFINE h == [n \in 0 .. m + 1 |-> IF n = m + 1 THEN F(g, n) ELSE g[n]]
  <2>3. ASSUME NEW n \in 0 .. m + 1 PROVE h[n] = F(h, n)
    <3>1. \A k \in 0 .. m : h[k] = g[k] /\ k # m + 1
      OBVIOUS
    <3>2. n # 0 => n - 1 \in 0 .. m
      OBVIOUS
    <3>3. F(h, n) = F(g, n)
      BY <3>1, <3>2
    <3>4. CASE n = m + 1
      BY <3>3, <3>4
    <3>5. CASE n \in 0 .. m
      <4>1. g[n] = F(g, n)
        BY <2>2, <3>5
      <4> QED
        BY <3>1, <3>3, <3>5, <4>1
    <3> QED
      BY <3>4, <3>5
  <2>4. h = [n \in 0 .. m + 1 |-> F(h, n)]
    <3>1. h = [n \in 0 .. m + 1 |-> h[n]]
      OBVIOUS
    <3> HIDE DEF h
    <3> QED
      BY <2>3, <3>1
  <2> HIDE DEF h
  <2>5. Links(rules, m + 1, h)
    BY <2>4 DEF Links
  <2> QED
    BY <2>5
<1> HIDE DEF A
<1>3. Nat \subseteq A
  BY <1>1, <1>2, SetInduction
<1> QED
  BY <1>3 DEF A

(* Linking in the rules of a list one after another orders them all.       *)
LEMMA LinksOrder ==
  ASSUME NEW rules \in Seq(Rule), Falls(rules),
         NEW g, Links(rules, Len(rules), g)
  PROVE  /\ g[Len(rules)] \in Seq(Rule)
         /\ Elements(g[Len(rules)]) = Elements(rules)
         /\ Ordered(g[Len(rules)])
<1> DEFINE Done(n) == {rules[i] : i \in 1 .. n}
           Good(n) == /\ g[n] \in Seq(Rule) /\ Elements(g[n]) = Done(n)
                      /\ Ordered(g[n])
           A == {n \in Nat : n <= Len(rules) => Good(n)}
<1>1. /\ Len(rules) \in Nat /\ DOMAIN rules = 1 .. Len(rules)
      /\ \A i \in 1 .. Len(rules) : rules[i] \in Rule
  BY ElementsOfSeq, ElementOfSeq
<1>2. \A n \in 0 .. Len(rules) :
        g[n] = IF n = 0 THEN <<>> ELSE LinkIn(g[n - 1], rules[n])
  BY DEF Links
<1>3. 0 \in A
  <2>1. g[0] = <<>>
    BY <1>1, <1>2
  <2>2. Done(0) = {}
    OBVIOUS
  <2>3. Elements(<<>>) = {} /\ <<>> \in Seq(Rule)
    BY ElementsOfEmpty
  <2>4. Ordered(<<>>)
    <3>1. \A i \in DOMAIN <<>> : FALSE
      BY <2>3 DEF Elements
    <3> QED
      BY <3>1 DEF Ordered
  <2> QED
    BY <2>1, <2>2, <2>3, <2>4
<1>4. ASSUME NEW n \in Nat, n \in A PROVE n + 1 \in A
  <2> SUFFICES ASSUME n + 1 <= Len(rules) PROVE Good(n + 1)
    OBVIOUS
  <2> DEFINE list == g[n]
             r == rules[n + 1]
  <2>1. list \in Seq(Rule) /\ Elements(list) = Done(n) /\ Ordered(list)
    BY <1>1, <1>4
  <2>2. g[n + 1] = LinkIn(list, r)
    BY <1>1, <1>2
  <2>3. n + 1 \in 1 .. Len(rules) /\ r \in Rule
    BY <1>1
  <2>4. \A s \in Done(n) : s.id # r.id
    <3> SUFFICES ASSUME NEW i \in 1 .. n PROVE rules[i].id # r.id
      OBVIOUS
    <3>1. i \in DOMAIN rules /\ n + 1 \in DOMAIN rules /\ i < n + 1
      BY <1>1, <2>3
    <3>2. rules[i].id > r.id
      BY <3>1 DEF Falls
    <3>3. rules[i].id \in Nat /\ r.id \in Nat
      BY <1>1, <2>3, <3>1, ObjectsAreNumbers DEF Rule
    <3> QED
      BY <3>2, <3>3
  <2>5. Done(n + 1) = Done(n) \cup {r}
    <3>1. 1 .. n + 1 = (1 .. n) \cup {n + 1}
      OBVIOUS
    <3> QED
      BY <3>1
  <2> HIDE DEF Done, list, r
  <2>6. /\ LinkIn(list, r) \in Seq(Rule)
        /\ Elements(LinkIn(list, r)) = Elements(list) \cup {r}
        /\ Ordered(LinkIn(list, r))
    BY <2>1, <2>3, <2>4, LinkedIn
  <2> QED
    BY <2>1, <2>2, <2>5, <2>6
<1> HIDE DEF A
<1>5. Nat \subseteq A
  BY <1>3, <1>4, SetInduction
<1> HIDE DEF Good, Done
<1>6. Good(Len(rules))
  BY <1>1, <1>5 DEF A
<1>7. Elements(rules) = Done(Len(rules))
  BY <1>1 DEF Elements, Done
<1> QED
  BY <1>6, <1>7 DEF Good

(* "flow list" prints what it should.                                      *)
LEMMA ListingIsSorted ==
  ASSUME FlowTypes, FlowsInv
  PROVE  ListingSorted
<1> SUFFICES ASSUME NEW group \in SUBSET {attr.group : attr \in Attributes}
             PROVE  LET list == port_flow_list(group) IN
                    /\ Elements(list) = {r \in Elements(flow_list) :
                           group = {} \/ r.attr.group \in group}
                    /\ \A i \in 1 .. Len(list) - 1 : Follows(list[i + 1], list[i])
  BY DEF ListingSorted
<1> DEFINE chosen == {r \in Elements(flow_list) :
                        group = {} \/ r.attr.group \in group}
           rules == Kept(flow_list, chosen)
           linked[n \in 0 .. Len(rules)] ==
             IF n = 0 THEN <<>> ELSE LinkIn(linked[n - 1], rules[n])
           list == linked[Len(rules)]
<1>1. /\ rules \in Seq(Rule) /\ Elements(rules) = Elements(flow_list) \cap chosen
      /\ Falls(rules)
  BY KeptElements DEF FlowTypes, FlowsInv
<1>2. Elements(flow_list) \cap chosen = chosen
  OBVIOUS
<1>3. port_flow_list(group) = list
  BY DEF port_flow_list
<1> HIDE DEF rules, chosen
<1>4. linked = CHOOSE g : Links(rules, Len(rules), g)
  BY DEF Links
<1> HIDE DEF linked
<1>5. Len(rules) \in Nat
  BY <1>1, LenProperties
<1>6. Links(rules, Len(rules), linked)
  BY <1>4, <1>5, LinksExists
<1>7. list \in Seq(Rule) /\ Elements(list) = Elements(rules) /\ Ordered(list)
  BY <1>1, <1>6, LinksOrder
<1> HIDE DEF list
<1>8. \A i \in 1 .. Len(list) - 1 : Follows(list[i + 1], list[i])
  <2>1. Len(list) \in Nat /\ DOMAIN list = 1 .. Len(list)
    BY <1>7, ElementsOfSeq
  <2>2. \A i \in 1 .. Len(list) - 1 :
          i \in DOMAIN list /\ i + 1 \in DOMAIN list /\ i < i + 1
    BY <2>1
  <2> QED
    BY <1>7, <2>2 DEF Ordered
<1> QED
  BY <1>1, <1>2, <1>3, <1>7, <1>8 DEF chosen

-----------------------------------------------------------------------------
(* The theorems.                                                           *)

SessionTypes ==
  DeviceTypeOK /\ area \in Areas /\ attached \in 1 .. MaxAttached

(* The device, and what the session is about.                              *)
LEMMA SessionStep ==
  ASSUME SessionTypes, [Next]_vars
  PROVE  SessionTypes'
<1>1. SUFFICES /\ open' \in BOOLEAN
               /\ faults' \subseteq Faults
               /\ dead' \in {"no", "context", "handle", "memmove", "flex_conf"}
               /\ area' = area /\ attached' \in 1 .. MaxAttached
  BY DEF SessionTypes, DeviceTypeOK
<1> USE DEF SessionTypes, DeviceTypeOK, Faults, Session
<1>2. CASE FlowCreate \/ FlowValidate
  BY <1>2, ZenonT(30) DEF FlowCreate, FlowValidate, port_flow_create, port_flow_validate,
              PrepFails, ConvFails, CreateRefused, Fault, deviceVars
<1>3. CASE FlowDestroy \/ FlowFlush
  BY <1>3 DEF FlowDestroy, FlowFlush, port_flow_destroy, port_flow_flush,
              Flush, Fault, deviceVars
<1>4. CASE FlowUse \/ ActionUse
  BY <1>4 DEF FlowUse, ActionUse, port_flow_dump, port_flow_query,
              port_action_handle_update, port_action_handle_query, CallWith,
              Dies, deviceVars
<1>5. CASE FlowAges \/ FlowAged
  BY <1>5 DEF FlowAges, FlowAged, Age, port_flow_aged, Dies, deviceVars
<1>6. CASE TunnelCreate \/ TunnelDestroy
  BY <1>6 DEF TunnelCreate, TunnelDestroy, deviceVars
<1>7. CASE ActionCreate \/ ActionDestroy
  BY <1>7 DEF ActionCreate, ActionDestroy, port_action_handle_create,
              port_action_handle_destroy, deviceVars, Dies
<1>8. CASE McastAdd \/ McastRemove
  BY <1>8, ZenonT(30) DEF McastAdd, McastRemove, mcast_addr_add, mcast_addr_remove,
              deviceVars, Fault, Dies
<1>9. CASE FlexCreate \/ FlexDestroy
  BY <1>9 DEF FlexCreate, FlexDestroy, flex_item_create, flex_item_destroy,
              deviceVars, Dies
<1>10. CASE FlexPattern
  BY <1>10 DEF FlexPattern, flex_pattern_parsed_fn, Fault
<1>11. CASE ClosePort \/ DetachPort
  BY <1>11 DEF ClosePort, DetachPort, ActionsKept, McastKept, FlexLost, FlexKept
<1>12. CASE AttachPort
  BY <1>12, ResourcesAssumption DEF AttachPort
<1>13. CASE Ended \/ UNCHANGED vars
  BY <1>13 DEF Ended, vars, deviceVars
<1> QED
  BY <1>2, <1>3, <1>4, <1>5, <1>6, <1>7, <1>8, <1>9, <1>10, <1>11, <1>12,
     <1>13 DEF Next

(* The inductive invariant of the tables.                                  *)
TablesInv ==
  /\ FlowsInv /\ ActionsInv /\ TunnelsInv /\ GivenInv
  /\ McastInv /\ FlexInv /\ PatternWhole

(* TypeOK, by areas.                                                       *)
LEMMA TypesByArea ==
  TypeOK <=> /\ SessionTypes /\ FlowTypes /\ ActionTypes /\ TunnelTypes
             /\ McastTypes /\ FlexTypes /\ PatternTypes
BY DEF TypeOK, SessionTypes, FlowTypes, ActionTypes, TunnelTypes, McastTypes,
       FlexTypes, PatternTypes, Rule, DevFlow, Action, DevAction, Tunnel

(* Before the first command all tables are empty.                          *)
LEMMA InitEstablishes == Init => TypeOK /\ TablesInv
<1> SUFFICES ASSUME Init PROVE TypeOK /\ TablesInv
  OBVIOUS
<1>1. /\ Elements(<<>>) = {} /\ Falls(<<>>)
      /\ <<>> \in Seq(Rule) /\ <<>> \in Seq(Action) /\ <<>> \in Seq(Tunnel)
      /\ <<>> \in Seq(MacAddrs)
  BY ElementsOfEmpty
<1>2. \A i \in DOMAIN <<>> : FALSE
  BY <1>1 DEF Elements
<1>3. /\ SessionTypes /\ FlowTypes /\ ActionTypes /\ TunnelTypes
      /\ McastTypes /\ FlexTypes
  BY <1>1, ResourcesAssumption
     DEF Init, DeviceInit, SessionTypes, DeviceTypeOK, FlowTypes, ActionTypes,
         TunnelTypes, McastTypes, FlexTypes
<1>4. PatternTypes
  <2>1. 0 \in 0 .. PatternLength - 1
    BY PoolsAssumption
  <2> QED
    BY <2>1 DEF Init, PatternTypes
<1>5. FlowsInv /\ ActionsInv /\ TunnelsInv /\ GivenInv
  BY <1>1 DEF Init, FlowsInv, ActionsInv, TunnelsInv, GivenInv
<1>6. McastInv
  <2>1. HasRoom(0, 0)
    <3>1. 0 = 0 * McastPoolInc
      BY PoolsAssumption
    <3> QED
      BY <3>1 DEF HasRoom
  <2>2. IsInjective(<<>>) /\ ToSet(<<>>) = {}
    BY <1>2 DEF IsInjective, ToSet
  <2>3. Len(<<>>) = 0
    OBVIOUS
  <2> QED
    BY <2>1, <2>2, <2>3 DEF Init, McastInv
<1>7. FlexInv
  <2>1. \A i \in FlexIds : flex_items[i] = NULL
    BY DEF Init
  <2>2. UsedSlots = {}
    BY <2>1 DEF UsedSlots
  <2>3. flex_heap = {} /\ dev_flex = {} /\ NULL # GONE
    BY DEF Init, NULL, GONE
  <2> QED
    BY <2>1, <2>2, <2>3 DEF FlexInv
<1>8. PatternWhole
  BY DEF Init, PatternWhole
<1> QED
  BY <1>3, <1>4, <1>5, <1>6, <1>7, <1>8, TypesByArea DEF TablesInv

(* Every step keeps the types and the invariant.                           *)
LEMMA NextPreserves == TypeOK /\ TablesInv /\ [Next]_vars => TypeOK' /\ TablesInv'
<1> SUFFICES ASSUME TypeOK, TablesInv, [Next]_vars
             PROVE  TypeOK' /\ TablesInv'
  OBVIOUS
<1>1. /\ SessionTypes /\ FlowTypes /\ ActionTypes /\ TunnelTypes
      /\ McastTypes /\ FlexTypes /\ PatternTypes
  BY TypesByArea
<1>2. /\ FlowsInv /\ ActionsInv /\ TunnelsInv /\ GivenInv
      /\ McastInv /\ FlexInv /\ PatternWhole
  BY DEF TablesInv
<1>3. FlowsMove /\ ActionsMove /\ TunnelsMove /\ McastMove /\ FlexMove
  BY <1>1, <1>2, FlowsMoves, ActionsMoves, TunnelsMoves, McastMoves, FlexMoves
<1>4. SessionTypes'
  BY <1>1, SessionStep
<1>5. FlowTypes' /\ FlowsInv' /\ ActionTypes' /\ ActionsInv'
  BY <1>1, <1>2, <1>3, FlowsStep, ActionsStep
<1>6. TunnelTypes' /\ TunnelsInv' /\ GivenInv'
  BY <1>1, <1>2, <1>3, TunnelsStep, GivenStep
<1>7. McastTypes' /\ McastInv' /\ FlexTypes' /\ FlexInv'
  BY <1>1, <1>2, <1>3, McastStep, FlexStep
<1>8. PatternTypes' /\ PatternWhole'
  BY <1>1, <1>2, PatternStep
<1>9. TypeOK'
  BY <1>4, <1>5, <1>6, <1>7, <1>8, TypesByArea, PTL
<1> QED
  BY <1>2, <1>5, <1>6, <1>7, <1>8, <1>9 DEF TablesInv

(* An element stands once in a list that descends.                         *)
LEMMA FallsOnce ==
  ASSUME NEW T, NEW list \in Seq(T), \A t \in T : t.id \in Nat, Falls(list)
  PROVE  /\ \A i, j \in DOMAIN list : list[i] = list[j] => i = j
         /\ Descends(list)
<1>1. /\ Len(list) \in Nat /\ DOMAIN list = 1 .. Len(list)
      /\ \A i \in DOMAIN list : list[i].id \in Nat
  BY ElementsOfSeq, ElementOfSeq
<1>2. ASSUME NEW i \in DOMAIN list, NEW j \in DOMAIN list, list[i] = list[j]
      PROVE  i = j
  <2>1. ~(i < j) /\ ~(j < i)
    BY <1>1, <1>2 DEF Falls
  <2> QED
    BY <1>1, <2>1
<1>3. Descends(list)
  <2> SUFFICES ASSUME NEW i \in 1 .. Len(list) - 1
               PROVE  list[i].id > list[i + 1].id
    BY DEF Descends
  <2>1. i \in DOMAIN list /\ i + 1 \in DOMAIN list /\ i < i + 1
    BY <1>1
  <2> QED
    BY <2>1 DEF Falls
<1> QED
  BY <1>2, <1>3

(* What the runs check follows from the invariant.                         *)
LEMMA InvariantImplies ==
  ASSUME TypeOK, TablesInv
  PROVE  ContextsAlive /\ TablesMatchDevice /\ TunnelReleased /\ ListsOrdered
<1>1. /\ FlowTypes /\ ActionTypes /\ TunnelTypes /\ McastTypes /\ FlexTypes
  BY TypesByArea
<1>2. /\ FlowsInv /\ ActionsInv /\ TunnelsInv /\ GivenInv
      /\ McastInv /\ FlexInv /\ PatternWhole
  BY DEF TablesInv
<1>3. /\ Elements(flow_list) \subseteq Rule
      /\ Elements(actions_list) \subseteq Action
      /\ dev_actions \subseteq DevAction
      /\ \A i \in DOMAIN flow_list : flow_list[i] \in Elements(flow_list)
      /\ \A i \in DOMAIN flow_tunnel_list :
           flow_tunnel_list[i] \in Elements(flow_tunnel_list)
  <2>1. Elements(flow_list) \subseteq Rule
    BY <1>1, ElementsOfSeq DEF FlowTypes
  <2>2. Elements(actions_list) \subseteq Action
    BY <1>1, ElementsOfSeq DEF ActionTypes
  <2> QED
    BY <1>1, <2>1, <2>2 DEF ActionTypes, Elements
<1>4. /\ \A i, j \in DOMAIN flow_list : flow_list[i] = flow_list[j] => i = j
      /\ Descends(flow_list)
  <2>1. \A t \in Rule : t.id \in Nat
    BY ObjectsAreNumbers DEF Rule
  <2> QED
    BY <1>1, <1>2, <2>1, FallsOnce DEF FlowTypes, FlowsInv
<1>5. Descends(actions_list)
  <2>1. \A t \in Action : t.id \in Nat
    BY ObjectsAreNumbers DEF Action
  <2> QED
    BY <1>1, <1>2, <2>1, FallsOnce DEF ActionTypes, ActionsInv
<1>6. /\ \A i, j \in DOMAIN flow_tunnel_list :
           flow_tunnel_list[i] = flow_tunnel_list[j] => i = j
      /\ Descends(flow_tunnel_list)
  <2>1. \A t \in Tunnel : t.id \in Nat
    BY FlowsAssumption DEF Tunnel
  <2> QED
    BY <1>1, <1>2, <2>1, FallsOnce DEF TunnelTypes, TunnelsInv
<1>7. ContextsAlive
  BY <1>2 DEF ContextsAlive, FlowsInv, Matched, ActionsInv
<1>8. RulesMatchDevice
  <2> DEFINE listed == {r.flow : r \in Elements(flow_list)}
  <2>1. listed \subseteq Flows
    BY <1>2 DEF FlowsInv, Flows
  <2>2. "flush" \notin faults => listed = Flows
    BY <1>2, <2>1 DEF FlowsInv, Flows, Matched
  <2>3. \A i, j \in DOMAIN flow_list :
          flow_list[i].flow = flow_list[j].flow => i = j
    BY <1>2, <1>3, <1>4 DEF FlowsInv
  <2> QED
    BY <2>1, <2>2, <2>3 DEF RulesMatchDevice
<1>9. HandlesLive
  <2> SUFFICES ASSUME "actions_kept" \notin faults
               PROVE  {a.handle : a \in Elements(actions_list)} = Handles
    BY DEF HandlesLive
  <2>1. \A a \in Elements(actions_list) : \E h \in dev_actions : h.handle = a.handle
    BY <1>2 DEF ActionsInv
  <2>2. \A h \in dev_actions : \E a \in Elements(actions_list) : a.handle = h.handle
    BY <1>2 DEF ActionsInv
  <2> QED
    BY <2>1, <2>2 DEF Handles
<1>10. McastMatches
  BY <1>2 DEF McastInv, McastMatches, HasRoom
<1>11. FlexSlots
  <2>1. "flex_kept" \notin faults => {flex_items[i] : i \in UsedSlots} = dev_flex
    <3> SUFFICES ASSUME "flex_kept" \notin faults
                 PROVE  {flex_items[i] : i \in UsedSlots} = dev_flex
      OBVIOUS
    <3>1. \A i \in UsedSlots : flex_items[i] \in dev_flex
      BY <1>2 DEF FlexInv, UsedSlots
    <3>2. \A h \in dev_flex : h # NULL
      BY <1>1, PoolsAssumption DEF FlexTypes, FlexHandles, NULL
    <3>3. \A h \in dev_flex : \E i \in UsedSlots : flex_items[i] = h
      BY <1>2, <3>2 DEF FlexInv, UsedSlots
    <3> QED
      BY <3>1, <3>3
  <2> QED
    BY <1>2, <2>1 DEF FlexSlots, FlexInv, UsedSlots
<1>12. TunnelReleased
  BY <1>2 DEF TunnelReleased, TunnelsInv, GivenInv, Empty
<1>13. IdsDescend
  BY <1>2, <1>3, <1>4, <1>5, <1>6 DEF IdsDescend, TunnelsInv
<1>14. ListingSorted
  BY <1>1, <1>2, ListingIsSorted
<1> QED
  BY <1>2, <1>7, <1>8, <1>9, <1>10, <1>11, <1>12, <1>13, <1>14
     DEF TablesMatchDevice, ListsOrdered

(* The invariant holds in every state of every session.                    *)
LEMMA TablesInvariant == Spec => [](TypeOK /\ TablesInv)
<1>1. Init => TypeOK /\ TablesInv
  BY InitEstablishes
<1>2. (TypeOK /\ TablesInv) /\ [Next]_vars => (TypeOK /\ TablesInv)'
  BY NextPreserves
<1> QED
  BY <1>1, <1>2, PTL DEF Spec

(* Every table holds what its type says: no command makes an entry out of  *)
(* an identifier, an object or a handle that there is none of.             *)
THEOREM ResourceTypes == Spec => []TypeOK
<1> QED
  BY TablesInvariant, PTL

(* Every context that the device may hand back to port_flow_aged is the    *)
(* address of the rule or of the indirect action that has aged, as long as *)
(* no flush has been refused.                                              *)
THEOREM ContextsStayAlive == Spec => []ContextsAlive
<1>1. TypeOK /\ TablesInv => ContextsAlive
  BY InvariantImplies
<1> QED
  BY <1>1, TablesInvariant, PTL

(* The tables of the port list what the device holds, save after the       *)
(* failing paths that the property names.                                  *)
THEOREM TablesStayMatched == Spec => []TablesMatchDevice
<1>1. TypeOK /\ TablesInv => TablesMatchDevice
  BY InvariantImplies
<1> QED
  BY <1>1, TablesInvariant, PTL

(* After every command the tunnels hold nothing, and each rule is made of  *)
(* the arrays of its own command.                                          *)
THEOREM TunnelsStayReleased == Spec => []TunnelReleased
<1>1. TypeOK /\ TablesInv => TunnelReleased
  BY InvariantImplies
<1> QED
  BY <1>1, TablesInvariant, PTL

(* Identifiers descend along the lists and name one entry each, and "flow  *)
(* list" prints the rules of the groups asked for, each once, in order.    *)
THEOREM ListsStayOrdered == Spec => []ListsOrdered
<1>1. TypeOK /\ TablesInv => ListsOrdered
  BY InvariantImplies
<1> QED
  BY <1>1, TablesInvariant, PTL
===============================================================================
