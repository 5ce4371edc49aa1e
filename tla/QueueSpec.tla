----------------------------- MODULE QueueSpec -----------------------------
(***************************************************************************)
(* What the queue promises, without segments, headers, ledger or calls in  *)
(* progress: a log of records read in order by a cursor that falls back    *)
(* only to replay, and retired, once and for good, from the front.  Store  *)
(* implements it (StoreQueue); the documentation it condenses is doc.go,   *)
(* "At-least-once delivery" and "Durability and crash recovery".           *)
(***************************************************************************)
EXTENDS Naturals

VARIABLES
    tail,    \* where the next record goes
    starts,  \* where the published records start
    head,    \* where the next read starts
    done,    \* everything before it is retired: it survives a restart
    asked,   \* the offsets a consumer has asked to retire
    lost     \* the offsets damage has made undeliverable

qvars == <<tail, starts, head, done, asked, lost>>

Init ==
    /\ tail = 0 /\ head = 0 /\ done = 0
    /\ starts = {} /\ asked = {} /\ lost = {}

\* a and b are the two ends of one record
OneRecord(a, b) ==
    /\ a \in starts /\ b \in starts \union {tail}
    /\ a < b /\ \A s \in starts : s <= a \/ b <= s

\* A consumer may ask to retire only what the read cursor has passed
AskUpTo(h) == asked \subseteq asked' /\ asked' \subseteq asked \union (0 .. h - 1)

\* A record is appended
Publish ==
    /\ tail' \in Nat /\ tail < tail' /\ starts' = starts \union {tail}
    /\ UNCHANGED <<head, done, asked, lost>>

\* A Requeue's append is published: the record it took is asked for, or, when the
\* append then fails, unread
PublishAgain ==
    /\ tail' \in Nat /\ tail < tail' /\ starts' = starts \union {tail}
    /\ \/ head' = head /\ AskUpTo(head)
       \/ OneRecord(head', head) /\ done <= head' /\ UNCHANGED asked
    /\ UNCHANGED <<done, lost>>

\* One record is handed over, no record skipped; Skip asks for it in one step
Deliver ==
    /\ OneRecord(head, head')
    /\ AskUpTo(head')
    /\ UNCHANGED <<tail, starts, done, lost>>

\* The record last read is put back: its Requeue failed
Unread ==
    /\ OneRecord(head', head) /\ done <= head'
    /\ UNCHANGED <<tail, starts, done, asked, lost>>

Ask ==
    /\ AskUpTo(head)
    /\ UNCHANGED <<tail, starts, head, done, lost>>

\* Damage: offsets become undeliverable, and the cursor may step over such only
Lose ==
    /\ lost \subseteq lost' /\ lost' \subseteq lost \union (0 .. tail - 1)
    /\ head <= head' /\ head .. head' - 1 \subseteq lost'
    /\ UNCHANGED <<tail, starts, done, asked>>

\* The retired prefix grows, over what was asked for or is lost, and never
\* shrinks.  Quarantine loses and retires in one step.
Retire ==
    /\ done < done' /\ done' <= head'
    /\ head <= head' /\ head .. head' - 1 \subseteq lost'
    /\ lost \subseteq lost' /\ lost' \subseteq lost \union (0 .. tail - 1)
    /\ done .. done' - 1 \subseteq asked \union lost'
    /\ UNCHANGED <<tail, starts, asked>>

\* Rewind or a restart: reading resumes at the retired prefix, and what was asked
\* for and not yet retired is forgotten.  A commit the crash interrupted may have
\* reached the disk.
Replay ==
    /\ done <= done' /\ done' <= tail /\ head' = done'
    /\ asked' \subseteq (asked \union (0 .. head - 1)) \intersect (0 .. done' - 1)
    /\ asked \intersect (0 .. done' - 1) \subseteq asked'
    /\ done .. done' - 1 \subseteq asked' \union lost
    /\ UNCHANGED <<tail, starts, lost>>

Next ==
    \/ Publish \/ PublishAgain \/ Deliver \/ Unread \/ Ask \/ Lose \/ Retire \/ Replay

Spec == Init /\ [][Next]_qvars
=============================================================================
