----------------------------- MODULE DescChain -----------------------------
(***************************************************************************)
(* process_descriptor_chain of the block device (virtio.rs): the walk over *)
(* the descriptors of one request and the transfer it leads to.  The       *)
(* descriptor table is the guest's and stays as it is during the walk.     *)
(*                                                                         *)
(* The address of a descriptor's buffer matters only by being 0 or not and *)
(* by being the buffer of that descriptor, so a buffer is named by its     *)
(* descriptor; Absent is the address 0 of the code's initial values.       *)
(***************************************************************************)
EXTENDS Integers, FiniteSets

CONSTANTS
  Desc,      \* descriptors of the table
  Heads,     \* the ones that may start the chain
  Absent,    \* address 0: no buffer; as successor: end of the chain
  Outside,   \* a successor that lies outside guest memory
  MaxNull    \* bound: descriptors whose buffer is at address 0

ASSUME ChainAssumption ==
  /\ IsFiniteSet(Desc) /\ {Absent, Outside} \cap Desc = {}
  /\ Absent # Outside
  /\ Heads \subseteq Desc /\ MaxNull \in Nat

VARIABLES
  table,     \* [addr, len, next] of each descriptor
  type_,     \* the request type that the header holds
  head_idx, next_idx, phase,
  sector,    \* the header that gives type and sector, Absent: the defaults
  is_write,
  data_addr, data_len, status_addr,
  walking,   \* inside the loop
  moved,     \* the buffer the disk is read into or written from
  op,        \* which of the two
  written    \* where the status byte has been written

request == <<table, type_, head_idx>>
result  == <<moved, op, written>>
vars == <<request, next_idx, phase, sector, is_write, data_addr, data_len,
          status_addr, walking, result>>

\* The lengths the walk tells apart: less than a header needs (16 bytes) in
\* the first descriptor, 0 in a data descriptor; or enough.
Len == {"short", "full"}

\* VIRTIO_BLK_T_IN, VIRTIO_BLK_T_OUT, and FLUSH, GET_ID and the like.
Type == {"IN", "OUT", "OTHER"}

Descriptor(d) == [addr : {d, Absent}, len : Len, next : Desc \cup {Absent, Outside}]

\* mem.read_slice and mem.write_* on the address 0 succeed like on any other:
\* a header at address 0 is read.
HeaderAt(d) == IF table[d].len = "full" THEN d ELSE Absent

\* Mutant: the walk goes on at the end of the chain.
AdvanceAlways(d) == next_idx' = table[d].next /\ UNCHANGED walking

Advance(d) ==
  IF table[d].next = Absent
    THEN walking' = FALSE /\ UNCHANGED next_idx
    ELSE next_idx' = table[d].next /\ UNCHANGED walking

\* Phase 0: the first descriptor is the header.
WalkHeader ==
  /\ walking /\ phase = 0 /\ next_idx # Outside
  /\ sector' = HeaderAt(next_idx)
  /\ is_write' = (HeaderAt(next_idx) # Absent /\ type_ = "OUT")
  /\ phase' = 1
  /\ Advance(next_idx)
  /\ UNCHANGED <<request, data_addr, data_len, status_addr, result>>

\* Phase 1: a descriptor that has a successor is data, the last is status.
WalkData ==
  /\ walking /\ phase = 1 /\ next_idx # Outside
  /\ table[next_idx].next # Absent
  /\ data_addr' = table[next_idx].addr
  /\ data_len' = table[next_idx].len
  /\ Advance(next_idx)
  /\ UNCHANGED <<request, phase, sector, is_write, status_addr, result>>

WalkStatus ==
  /\ walking /\ phase = 1 /\ next_idx # Outside
  /\ table[next_idx].next = Absent
  /\ status_addr' = table[next_idx].addr
  /\ phase' = 2
  /\ Advance(next_idx)
  /\ UNCHANGED <<request, sector, is_write, data_addr, data_len, result>>

\* Mutant: the walk tries the descriptor again.
WalkOutsideAgain == walking /\ next_idx = Outside /\ UNCHANGED vars

\* The descriptor cannot be read: the walk ends with what it has.
WalkOutside ==
  /\ walking /\ next_idx = Outside
  /\ walking' = FALSE
  /\ UNCHANGED <<request, next_idx, phase, sector, is_write, data_addr,
                 data_len, status_addr, result>>

\* Mutant: the length of the data buffer is not looked at.
FinishAnyLen ==
  /\ ~walking /\ written = {}
  /\ moved' = data_addr
  /\ op' = IF data_addr = Absent THEN "none" ELSE IF is_write THEN "write" ELSE "read"
  /\ written' = {status_addr}
  /\ UNCHANGED <<request, next_idx, phase, sector, is_write, data_addr,
                 data_len, status_addr, walking>>

\* The transfer between the disk and the data buffer, then the status byte.
\* A disk file that fails is in VirtioBlock; a sector whose byte offset
\* exceeds 64 bits is left out.
Finish ==
  /\ ~walking /\ written = {}
  /\ moved' = IF data_len = "short" THEN Absent ELSE data_addr
  /\ op' = IF data_len = "short" \/ data_addr = Absent THEN "none"
           ELSE IF is_write THEN "write" ELSE "read"
  /\ written' = {status_addr}
  /\ UNCHANGED <<request, next_idx, phase, sector, is_write, data_addr,
                 data_len, status_addr, walking>>

Init ==
  /\ \E null \in {N \in SUBSET Desc : Cardinality(N) <= MaxNull}, l \in [Desc -> Len],
        n \in [Desc -> Desc \cup {Absent, Outside}] :
       table = [d \in Desc |-> [addr |-> IF d \in null THEN Absent ELSE d,
                               len |-> l[d], next |-> n[d]]]
  /\ type_ \in Type /\ head_idx \in Heads
  /\ next_idx = head_idx /\ phase = 0 /\ sector = Absent /\ is_write = FALSE
  /\ data_addr = Absent /\ data_len = "short" /\ status_addr = Absent
  /\ walking = TRUE /\ moved = Absent /\ op = "none" /\ written = {}

Next == WalkHeader \/ WalkData \/ WalkStatus \/ WalkOutside \/ Finish

Spec == Init /\ [][Next]_vars

FairSpec == Spec /\ WF_vars(Next)
-----------------------------------------------------------------------------
(***************************************************************************)
(* Reference: the chain as a list, and the properties.                     *)
(***************************************************************************)

\* The k-th descriptor of the chain; Absent or Outside after the last.
Nth[k \in 0 .. Cardinality(Desc)] ==
  IF k = 0 THEN head_idx
  ELSE IF Nth[k - 1] \in Desc THEN table[Nth[k - 1]].next ELSE Nth[k - 1]

\* Where the chain ends; one that does not end comes back to itself.
End == Nth[Cardinality(Desc)]

Length == Cardinality({k \in DOMAIN Nth : Nth[k] \in Desc})

\* Every variable has its type.
TypeOK ==
  /\ \A d \in Desc : table[d] \in Descriptor(d)
  /\ head_idx \in Desc /\ next_idx \in Desc \cup {Outside}
  /\ phase \in 0..2 /\ data_len \in Len /\ {walking, is_write} \subseteq BOOLEAN
  /\ type_ \in Type /\ op \in {"none", "read", "write"}
  /\ {sector, data_addr, status_addr, moved} \subseteq Desc \cup {Absent}
  /\ written \in SUBSET (Desc \cup {Absent})

\* The buffers of the data descriptors: between header and status, not empty.
Segments ==
  {table[Nth[k]].addr : k \in {j \in 1 .. Length - 2 : table[Nth[j]].len = "full"}}
    \ {Absent}

\* A request is taken apart right: sector and type come from the first
\* descriptor, the status byte goes to the last, and no other buffer than one
\* of the data descriptors is read or written.  A request with one of them
\* has it transferred, and the disk is written only if a whole header says so.
ExtractsRequest ==
  written # {} /\ End = Absent =>
    /\ sector = HeaderAt(head_idx)
    /\ written = {IF Length >= 2 THEN table[Nth[Length - 1]].addr ELSE Absent}
    /\ moved \in Segments \cup {Absent}
    /\ Length <= 3 => Segments \subseteq {moved}
    /\ op = "none" <=> moved = Absent
    /\ op = "write" <=>
         moved # Absent /\ type_ = "OUT" /\ HeaderAt(head_idx) # Absent

\* A read or write as a driver builds it: a whole header, buffers of some
\* length behind every data descriptor.
WellFormed ==
  /\ End = Absent /\ Length >= 3 /\ type_ \in {"IN", "OUT"}
  /\ \A k \in 0 .. Length - 2 : table[Nth[k]].addr # Absent /\ table[Nth[k]].len = "full"


\* The walk over a chain that ends, or that leaves guest memory, does end.
WalkEnds == End \notin Desc ~> written # {}
-----------------------------------------------------------------------------
(***************************************************************************)
(* What holds in every state of the walk over a chain that ends and makes  *)
(* ExtractsRequest inductive: the values that the walk has collected are   *)
(* those of the descriptors it has passed.                                 *)
(***************************************************************************)

\* Sector and type come from the head of the chain.
HeaderTaken ==
  /\ sector = HeaderAt(head_idx)
  /\ is_write <=> HeaderAt(head_idx) # Absent /\ type_ = "OUT"

\* The data buffer is that of the j-th descriptor, counted from the header.
DataTaken(j) ==
  /\ data_addr = IF j >= 1 THEN table[Nth[j]].addr ELSE Absent
  /\ data_len = IF j >= 1 THEN table[Nth[j]].len ELSE "short"

\* The walk has reached the m-th descriptor, counted from the header.
ReachedAt(m) ==
  /\ next_idx = Nth[m] /\ phase = (IF m = 0 THEN 0 ELSE 1)
  /\ m # 0 => HeaderTaken
  /\ DataTaken(m - 1) /\ status_addr = Absent

\* The walk has passed the last descriptor.
Passed ==
  /\ HeaderTaken /\ DataTaken(Length - 2)
  /\ status_addr = IF Length >= 2 THEN table[Nth[Length - 1]].addr ELSE Absent

WalkFollows ==
  End = Absent =>
    /\ walking => \E m \in 0 .. Length - 1 : ReachedAt(m)
    /\ ~walking => Passed

\* The transfer follows the walk.
TransferFollows ==
  /\ walking => written = {}
  /\ written # {} =>
       /\ written = {status_addr}
       /\ moved = IF data_len = "short" THEN Absent ELSE data_addr
       /\ op = IF moved = Absent THEN "none" ELSE IF is_write THEN "write" ELSE "read"
=============================================================================
