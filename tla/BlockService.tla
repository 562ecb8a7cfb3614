---------------------------- MODULE BlockService ----------------------------
(***************************************************************************)
(* What a block device promises, without rings, threads, locks and         *)
(* interrupts: requests are executed against the disk one at a time, each  *)
(* exactly once, in the order in which they were submitted, and every      *)
(* result is handed back once, in that order.  A reset drops the requests  *)
(* that have not been executed and the results that have not been handed   *)
(* back; it never undoes or repeats an execution.                          *)
(***************************************************************************)
EXTENDS Sequences

CONSTANTS Tag, Request, Sector, Data

VARIABLES
  disk,      \* the disk image
  pending,   \* submitted, not executed: a sequence of [tag, req]
  done       \* executed, not handed back: a sequence of [tag, req, data]

svars == <<disk, pending, done>>

Init ==
  /\ disk \in [Sector -> Data]
  /\ pending = <<>>
  /\ done = <<>>

Submit(t, r) ==
  /\ pending' = Append(pending, [tag |-> t, req |-> r])
  /\ UNCHANGED <<disk, done>>

Execute ==
  /\ pending # <<>>
  /\ LET p == Head(pending)
         r == p.req
     IN  /\ disk' = IF r.op = "out" THEN [disk EXCEPT ![r.sector] = r.data]
                                    ELSE disk
         /\ done' = Append(done,
              [tag |-> p.tag, req |-> r,
               data |-> IF r.op = "out" THEN r.data ELSE disk[r.sector]])
  /\ pending' = Tail(pending)

HandBack ==
  /\ done # <<>>
  /\ done' = Tail(done)
  /\ UNCHANGED <<disk, pending>>

Reset ==
  /\ pending' = <<>>
  /\ done' = <<>>
  /\ UNCHANGED disk

Next ==
  \/ \E t \in Tag, r \in Request : Submit(t, r)
  \/ Execute
  \/ HandBack
  \/ Reset

Spec == Init /\ [][Next]_svars
=============================================================================
