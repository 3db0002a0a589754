-------------------------- MODULE BreakpointList --------------------------
(***************************************************************************)
(* The list of breakpoints that the debugger server keeps (src/list.c and  *)
(* its callers in src/server.c), as the sequence of its live elements.     *)
(*                                                                         *)
(* Positions are those of TLA+: position i is items[i - 1] of the code.    *)
(***************************************************************************)
EXTENDS Integers, Sequences

CONSTANT Addr       \* the addresses that requests name; 0 also means "none"

ASSUME AddrAssumption == Addr \subseteq Nat /\ 0 \in Addr

Lists == Seq(Addr)

OnList(list, addr) == \E i \in DOMAIN list : list[i] = addr

\* The position of the first element that list_for_each stops at.
FirstMatch(list, addr) ==
    CHOOSE i \in DOMAIN list :
        /\ list[i] = addr
        /\ \A k \in DOMAIN list : k < i => list[k] # addr

list_add(list, item) == Append(list, item)

\* list_del: the tail is moved over the element at the position.
list_del(list, i) == SubSeq(list, 1, i - 1) \o SubSeq(list, i + 1, Len(list))

\* list_remove counts the element it compares before it compares it, so the
\* position it hands to list_del is one past the match.
RemovedPosition(list, item) == FirstMatch(list, item) + 1

\* One past the last element, list_del's memmove gets a negative length:
\* the process does not survive it.
list_remove_faults(list, item) ==
    item # 0 /\ RemovedPosition(list, item) > Len(list)

\* An item equal to 0 is taken for "element not found".
list_remove(list, item) ==
    IF item = 0 THEN list ELSE list_del(list, RemovedPosition(list, item))

\* The element handle_control_flow_delete passes to list_remove: the first one
\* when the request names no address.
DeleteTarget(list, addr) == IF addr = 0 THEN list[1] ELSE addr

DeleteFinds(list, addr) == IF addr = 0 THEN list # << >> ELSE OnList(list, addr)
=============================================================================
