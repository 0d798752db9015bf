----------------------- MODULE RequestJournalProperties -----------------------
(* What the transactions of RequestJournal must satisfy.                   *)
EXTENDS RequestJournal

(* Types of the variables; a record that is not committed belongs to an    *)
(* open transaction.                                                       *)
TypeOK ==
  /\ DOMAIN rows \subseteq Existing \cup {c.request : c \in Calls}
  /\ DOMAIN stored \subseteq {KeyOf(c) : c \in Calls}
  /\ \A i \in DOMAIN table :
       table[i].writer = Nobody \/ (table[i].writer \in Process /\ IsOpen(table[i].writer))
  /\ \A j \in jobs : j.op \in JobType /\ j.request \in DOMAIN rows
  /\ DOMAIN txn = Process
  /\ executed \in [Calls -> Nat]
  /\ told \subseteq Calls
  /\ overlap \in BOOLEAN

(* Handlers never deadlock among themselves, on rows, keys and records of  *)
(* the chain together, however many records each appends: a deadlock has a *)
(* worker or a monitor in it, which lock the row after the chain.          *)
HandlersNeverDeadlock == \A S \in SUBSET Sessions : ~Deadlocked(S)

(* From the lock to the commit a handler decides on the row as it is in    *)
(* the database: nobody writes it meanwhile, workers included.             *)
HandlerSeesCurrentRow ==
  \A s \in Sessions :
    IsOpen(s) /\ LocksRow(Call(s).op) /\ ~At(s, "row") => txn[s].read = rows[Call(s).request]

(* The effects of a key are committed at most once, whichever body, by     *)
(* however many calls, retries after a crash and concurrent duplicates     *)
(* ("The same key with the same request body returns the stored response", *)
(* API_CONTRACT.md).                                                       *)
AtMostOnce ==
  \A c, d \in Calls :
    KeyOf(c) = KeyOf(d) /\ executed[c] > 0 => executed[c] = 1 /\ (c # d => executed[d] = 0)

(* Whoever is told that a call is done is told the truth: its effects, for *)
(* the body that was sent, are committed.                                  *)
AnswersAreTrue == \A c \in told : executed[c] > 0

(* The records of the tenant form one chain as long as no two transactions *)
(* were appending to it at once.                                           *)
ChainVerifiesAlone == ~overlap => VerifyAuditChain(table, Committed)
=============================================================================
