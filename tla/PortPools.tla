----------------------------- MODULE PortPools ------------------------------
(***************************************************************************)
(* The pool of multicast addresses and the flex items of one port, and the *)
(* patterns of flex items: tables that mirror what the device has been     *)
(* asked for, each with its own way back when the device refuses.          *)
(***************************************************************************)
EXTENDS PortDevice

CONSTANTS
  McastPoolInc,     \* MCAST_POOL_INC
  MacAddrs,         \* multicast addresses
  NbFlexItems,      \* FLEX_MAX_PARSERS_NUM
  FlexMaxSamples,   \* FLEX_ITEM_MAX_SAMPLES_NUM
  FlexPatterns,     \* identifiers of patterns
  PatternLength     \* FLEX_MAX_FLOW_PATTERN_LENGTH

ASSUME PoolsAssumption ==
  /\ {McastPoolInc, NbFlexItems, FlexMaxSamples, PatternLength}
       \subseteq Nat \ {0}

VARIABLES
  mc_addr_pool,   \* the mc_addr_nb addresses recorded
  mc_pool_size,   \* entries that the pool has memory for
  dev_mc,         \* the addresses that the device filters
  flex_items,     \* [flex_id -> handle], or NULL
  flex_heap,      \* flex items that have memory: of a slot, or lost
  dev_flex,       \* handles of the device
  flex_patterns   \* [id -> [spec, mask, set]], lengths

mcastVars == <<mc_addr_pool, mc_pool_size, dev_mc>>
flexVars == <<flex_items, flex_heap, dev_flex, flex_patterns>>
poolVars == <<mcastVars, flexVars>>

(***************************************************************************)
(* Multicast addresses.  memory says whether realloc succeeds when it is   *)
(* called, accepted whether the device takes the new list.                 *)
(***************************************************************************)
Pool == [addrs : Seq(MacAddrs), size : Nat]
Grows(pool) == Len(pool.addrs) % McastPoolInc = 0

(* The pool with one more address at the end, or as it is without memory.  *)
mcast_addr_pool_extend(pool) ==
  IF Grows(pool) THEN Len(pool.addrs) + McastPoolInc ELSE pool.size
mcast_addr_pool_append(pool, mc_addr, memory) ==
  IF Grows(pool) /\ ~memory THEN pool
  ELSE [addrs |-> Append(pool.addrs, mc_addr),
        size  |-> mcast_addr_pool_extend(pool)]

mcast_addr_pool_remove(pool, addr_idx) ==
  [addrs |-> RemoveAt(pool.addrs, addr_idx),
   size  |-> IF Len(pool.addrs) = 1 THEN 0 ELSE pool.size]

ThePool == [addrs |-> mc_addr_pool, size |-> mc_pool_size]
SetPool(pool) == mc_addr_pool' = pool.addrs /\ mc_pool_size' = pool.size

(* rte_eth_dev_set_mc_addr_list, which the device refuses as a whole.      *)
eth_port_multicast_addr_list_set(pool, accepted) ==
  dev_mc' = IF accepted THEN ToSet(pool.addrs) ELSE dev_mc

(* An address that is refused is taken off again; when it has not been     *)
(* added, the entry that is removed is the one past the last.              *)
mcast_addr_add(mc_addr, memory, accepted) ==
  LET pool  == mcast_addr_pool_append(ThePool, mc_addr, memory)
      added == Len(pool.addrs) = Len(mc_addr_pool) + 1
  IN /\ open /\ mc_addr \notin ToSet(mc_addr_pool)
     /\ eth_port_multicast_addr_list_set(pool, accepted)
     /\ IF accepted THEN SetPool(pool) /\ UNCHANGED deviceVars
        ELSE IF added
        THEN /\ SetPool(mcast_addr_pool_remove(pool, Len(mc_addr_pool) + 1))
             /\ UNCHANGED deviceVars
        ELSE Dies("memmove") /\ UNCHANGED <<mc_addr_pool, mc_pool_size>>
     /\ UNCHANGED flexVars

(* An address that stays is recorded again, as the last one.               *)
mcast_addr_remove(mc_addr, memory, accepted) ==
  \E i \in DOMAIN mc_addr_pool :
    /\ open /\ mc_addr_pool[i] = mc_addr
    /\ LET pool == mcast_addr_pool_remove(ThePool, i)
           back == mcast_addr_pool_append(pool, mc_addr, memory)
       IN /\ eth_port_multicast_addr_list_set(pool, accepted)
          /\ SetPool(IF accepted THEN pool ELSE back)
          /\ Fault(IF ~accepted /\ back = pool THEN {"mc_nomem"} ELSE {})
    /\ UNCHANGED <<open, dead>>
    /\ UNCHANGED flexVars

(***************************************************************************)
(* Flex items.  The description of an item is a file; what the parser of   *)
(* it may meet is chosen.                                                  *)
(***************************************************************************)
FlexConfs ==
  [tunnel  : {"mode", "unknown"},
   field   : {"number", "string"},
   samples : {FlexMaxSamples, FlexMaxSamples + 1},
   input   : {"spec_mask", "spec", "last"},
   output  : {"type", "spec"}]

flex_tunnel_parse(conf) == IF conf.tunnel = "mode" THEN "ok" ELSE "bad"
flex_field_parse(conf) == IF conf.field = "number" THEN "ok" ELSE "bad"

(* An array that the item has no memory for is written to all the same.    *)
SamplesParse(conf) ==
  IF conf.samples > FlexMaxSamples THEN "undefined" ELSE "ok"

(* The item of a link is copied to where the link points to, which is      *)
(* nowhere for a range, and for all of it in an output link.               *)
flex_link_item_parse(item, link) ==
  IF item = "last" \/ (link = "out" /\ item # "type") THEN "undefined"
  ELSE "ok"
flex_link_parse(item, link) ==
  IF flex_link_item_parse(item, link) = "undefined" THEN "undefined"
  ELSE IF link = "in" /\ item # "spec_mask" THEN "bad"
  ELSE "ok"

flex_item_config(conf) ==
  LET steps == <<flex_tunnel_parse(conf), flex_field_parse(conf),
                 SamplesParse(conf), flex_link_parse(conf.input, "in"),
                 flex_link_parse(conf.output, "out")>>
      wrong == {i \in DOMAIN steps : steps[i] # "ok"}
  IN IF wrong = {} THEN "ok" ELSE steps[Min(wrong)]

FlexIds == 0 .. NbFlexItems - 1
FlexHandles == 1 .. NbFlexItems
FLEX_PARSER_ERR == -2

(* flex_parser_fetch returns the item of a slot, or an error.              *)
flex_parser_fetch(flex_id) ==
  IF flex_id \in FlexIds THEN flex_items[flex_id] ELSE FLEX_PARSER_ERR

flex_item_create(flex_id, conf, created) ==
  /\ open /\ flex_parser_fetch(flex_id) = NULL
  /\ CASE flex_item_config(conf) = "undefined" ->
            Dies("flex_conf") /\ UNCHANGED <<flex_items, flex_heap, dev_flex>>
       [] flex_item_config(conf) = "ok" /\ created /\ FlexHandles # dev_flex ->
            LET handle == Fresh(FlexHandles, dev_flex)
            IN /\ flex_items' = [flex_items EXCEPT ![flex_id] = handle]
               /\ flex_heap' = flex_heap \cup {flex_id}
               /\ dev_flex' = dev_flex \cup {handle}
               /\ UNCHANGED deviceVars
       [] OTHER ->
            UNCHANGED <<flex_items, flex_heap, dev_flex>> /\ UNCHANGED deviceVars
  /\ UNCHANGED flex_patterns /\ UNCHANGED mcastVars

(* The tables when the item has been destroyed: nothing is done to the     *)
(* item 0, nor to one whose handle the device keeps.                       *)
Freed(flex_id, refused) ==
  flex_id # 0 /\ flex_parser_fetch(flex_id) # NULL /\ flex_id \notin refused

flex_item_destroy(flex_id) ==
  /\ open /\ flex_id \in FlexIds /\ Freed(flex_id, {})
  /\ IF flex_items[flex_id] \in dev_flex
     THEN /\ flex_items' = [flex_items EXCEPT ![flex_id] = NULL]
          /\ flex_heap' = flex_heap \ {flex_id}
          /\ dev_flex' = dev_flex \ {flex_items[flex_id]}
          /\ UNCHANGED deviceVars
     ELSE Dies("handle") /\ UNCHANGED <<flex_items, flex_heap, dev_flex>>
  /\ UNCHANGED flex_patterns /\ UNCHANGED mcastVars

(* A slot is emptied whether its item has been destroyed or not; what is  *)
(* lost with it.                                                           *)
port_flex_item_flush == [i \in FlexIds |-> NULL]
FlexLost(lost) ==
  (IF 0 \in lost THEN {"flex_zero"} ELSE {}) \cup
  (IF lost \ {0} # {} THEN {"flex_refused"} ELSE {})
FlexKept == IF \E i \in FlexIds : flex_items[i] # NULL THEN {"flex_kept"} ELSE {}

(* Nothing empties the pool of multicast addresses with the device.        *)
McastKept == IF mc_addr_pool # <<>> THEN {"mc_kept"} ELSE {}

(* "set flex_pattern": data of no byte, or of too many, is refused after   *)
(* what was there has been cleared.                                        *)
flex_pattern_data(length) ==
  IF length < PatternLength THEN length ELSE 0

Whole(spec, mask) == spec # 0 /\ mask # 0 /\ spec = mask

flex_pattern_parsed_fn(id, spec_data, full_spec, mask_data) ==
  LET spec == flex_pattern_data(spec_data)
      mask == IF full_spec THEN flex_pattern_data(mask_data) ELSE spec
      old  == flex_patterns[id]
      fits == Whole(spec, mask)
  IN /\ flex_patterns' =
          [flex_patterns EXCEPT ![id] =
             [spec |-> spec,
              mask |-> IF spec = 0 THEN old.mask ELSE mask,
              set  |-> old.set \/ fits]]
     /\ Fault(IF fits THEN {} ELSE {"pattern"})
     /\ UNCHANGED <<open, dead>>
     /\ UNCHANGED <<flex_items, flex_heap, dev_flex>>
     /\ UNCHANGED mcastVars
=============================================================================
