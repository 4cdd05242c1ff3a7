---------------------------- MODULE LocalPublish ----------------------------
(***************************************************************************)
(* The local adapter: LocalPublishAdapter over PublishStore, one process   *)
(* on one directory.  execute is synchronous, so calls do not interleave,  *)
(* but the process may die between any two of its file operations, or in   *)
(* the middle of one, and a file operation may fail.  The caller of a call *)
(* cut short retries with a new call under the same idempotency key.       *)
(*   packages/store/src/publish.ts                                         *)
(*                                                                         *)
(* Bytes survive a dead process (no power loss).  A write is not atomic:   *)
(* records carry the whole asset in base64, and writeFileSync empties the  *)
(* file before it writes.                                                  *)
(***************************************************************************)
EXTENDS Naturals, Sequences, FiniteSets

CONSTANTS
  Calls,      \* calls of execute
  IdemKeys,   \* idempotency keys
  Digests,    \* digests of the assets published
  Request,    \* Calls -> [key, digest, authorized]; params.record is present
  MaxCrashes, \* bound on the crashes
  None

ASSUME LocalAssumption ==
  /\ \A c \in Calls : Request[c].key \in IdemKeys /\ Request[c].digest \in Digests
  /\ \A c \in Calls : Request[c].authorized \in BOOLEAN
  /\ MaxCrashes \in Nat /\ None \notin Calls

VARIABLES
  file,      \* the published-content file: the records written, in order
  receipts,  \* the receipt directory: key -> None or [by, status, whole]
  index,     \* PublishStore.byDigest: the digests it serves
  up,        \* whether the process runs
  active,    \* the call being executed, or None
  pc,        \* where each call is
  result,    \* what each call returned
  crashes

vars == <<file, receipts, index, up, active, pc, result, crashes>>

\* A receipt is [by, status, whole]: the call that built it stands for the fields
\* it copies (key, asset, platform, decision, time).
Status(c) == IF Request[c].authorized THEN "executed" ELSE "blocked"
Built(c) == [by |-> c, status |-> Status(c), whole |-> TRUE]

\* A line of the file is [by, written]: the call whose record was being written and
\* how much of it was: all, all but the newline, or a fragment.
Line(c, written) == [by |-> c, written |-> written]

ExecutionReceipt == [by : Calls, status : {"executed", "blocked"}, whole : BOOLEAN]
PublishedRecord == [by : Calls, written : {"all", "unterminated", "fragment"}]

ASSUME NoneAssumption == None \notin ExecutionReceipt

Init ==
  /\ file = <<>>
  /\ receipts = [k \in IdemKeys |-> None]
  /\ index = {}
  /\ up = TRUE
  /\ active = None
  /\ pc = [c \in Calls |-> "new"]
  /\ result = [c \in Calls |-> None]
  /\ crashes = 0

Enter(c) ==
  /\ up /\ active = None /\ pc[c] = "new"
  /\ active' = c
  /\ pc' = [pc EXCEPT ![c] = "check"]
  /\ UNCHANGED <<file, receipts, index, up, result, crashes>>

\* The call throws: its caller gets no receipt.
Throw(c) ==
  /\ active' = None
  /\ pc' = [pc EXCEPT ![c] = "failed"]
  /\ UNCHANGED result

Return(c, receipt) ==
  /\ active' = None
  /\ pc' = [pc EXCEPT ![c] = "done"]
  /\ result' = [result EXCEPT ![c] = receipt]

\* Seeded fault: a receipt on disk is not looked for.
CheckNothing(c) ==
  /\ active = c /\ pc[c] = "check"
  /\ pc' = [pc EXCEPT ![c] = IF Request[c].authorized THEN "add" ELSE "commit"]
  /\ UNCHANGED <<active, result, file, receipts, index, up, crashes>>

\* existsSync(path): replay the receipt, JSON.parse throwing on a cut one; else
\* build a receipt and, when it says executed, publish first.
Check(c) ==
  /\ active = c /\ pc[c] = "check"
  /\ LET old == receipts[Request[c].key] IN
     \/ old # None /\ old.whole /\ Return(c, old)
     \/ old # None /\ ~old.whole /\ Throw(c)
     \/ /\ old = None
        /\ pc' = [pc EXCEPT ![c] = IF Request[c].authorized THEN "add" ELSE "commit"]
        /\ UNCHANGED <<active, result>>
  /\ UNCHANGED <<file, receipts, index, up, crashes>>

\* Seeded fault: published content is appended again.
AddAlways(c) ==
  /\ active = c /\ pc[c] = "add"
  /\ file' = Append(file, Line(c, "all"))
  /\ pc' = [pc EXCEPT ![c] = "index"]
  /\ UNCHANGED <<receipts, index, up, active, result, crashes>>

\* PublishStore.add up to its append: content already published is left alone.
Add(c) ==
  /\ active = c /\ pc[c] = "add"
  /\ IF Request[c].digest \in index
     THEN pc' = [pc EXCEPT ![c] = "commit"] /\ UNCHANGED file
     ELSE pc' = [pc EXCEPT ![c] = "index"] /\ file' = Append(file, Line(c, "all"))
  /\ UNCHANGED <<receipts, index, up, active, result, crashes>>

\* byDigest.set
Index(c) ==
  /\ active = c /\ pc[c] = "index"
  /\ index' = index \union {Request[c].digest}
  /\ pc' = [pc EXCEPT ![c] = "commit"]
  /\ UNCHANGED <<file, receipts, up, active, result, crashes>>

\* writeFileSync of the receipt, last.
Commit(c) ==
  /\ active = c /\ pc[c] = "commit"
  /\ receipts' = [receipts EXCEPT ![Request[c].key] = Built(c)]
  /\ pc' = [pc EXCEPT ![c] = "return"]
  /\ UNCHANGED <<file, index, up, active, result, crashes>>

Answer(c) ==
  /\ active = c /\ pc[c] = "return"
  /\ Return(c, Built(c))
  /\ UNCHANGED <<file, receipts, index, up, crashes>>

\* What an interrupted file operation of the active call may leave behind.
Interrupted(c, cuts) ==
  \/ UNCHANGED <<file, receipts>>
  \/ /\ pc[c] = "add" /\ Request[c].digest \notin index
     /\ \E written \in cuts : file' = Append(file, Line(c, written))
     /\ UNCHANGED receipts
  \/ /\ pc[c] = "commit"
     /\ receipts' = [receipts EXCEPT ![Request[c].key] = [Built(c) EXCEPT !.whole = FALSE]]
     /\ UNCHANGED file

\* The write throws (disk full): the process and its index go on.
WriteFails(c) ==
  /\ active = c /\ pc[c] \in {"add", "commit"}
  /\ Interrupted(c, {"fragment"})
  /\ Throw(c)
  /\ UNCHANGED <<index, up, crashes>>

\* The process dies, and its memory with it.
Crash ==
  /\ up /\ crashes < MaxCrashes
  /\ crashes' = crashes + 1
  /\ up' = FALSE
  /\ index' = {}
  /\ IF active = None
     THEN UNCHANGED <<file, receipts, active, pc, result>>
     ELSE Interrupted(active, {"fragment", "unterminated"}) /\ Throw(active)

\* Every line parses: no fragment, and nothing written behind an unterminated one.
Loadable ==
  \A n \in 1..Len(file) :
    file[n].written = "all" \/ (file[n].written = "unterminated" /\ n = Len(file))

\* Seeded fault: the file is not read back.
RestartEmpty ==
  /\ ~up /\ Loadable
  /\ up' = TRUE
  /\ index' = {}
  /\ UNCHANGED <<file, receipts, active, pc, result, crashes>>

\* The constructors: the file is read back; JSON.parse throwing, there is no process.
Restart ==
  /\ ~up /\ Loadable
  /\ up' = TRUE
  /\ index' = {Request[file[n].by].digest : n \in 1..Len(file)}
  /\ UNCHANGED <<file, receipts, active, pc, result, crashes>>

Next ==
  \/ \E c \in Calls :
       Enter(c) \/ Check(c) \/ Add(c) \/ Index(c) \/ Commit(c) \/ Answer(c) \/ WriteFails(c)
  \/ Crash
  \/ Restart

Spec == Init /\ [][Next]_vars

(***************************************************************************)
(* Properties                                                              *)
(***************************************************************************)

TypeOK ==
  /\ file \in Seq(PublishedRecord)
  /\ receipts \in [IdemKeys -> ExecutionReceipt \union {None}]
  /\ index \subseteq Digests
  /\ up \in BOOLEAN
  /\ active \in Calls \union {None}
  /\ pc \in [Calls -> {"new", "check", "add", "index", "commit", "return", "done", "failed"}]
  /\ result \in [Calls -> ExecutionReceipt \union {None}]
  /\ crashes \in 0..MaxCrashes

\* Calls under one key that return a receipt return the same one, whatever
\* crashes, failed writes and retries lie between them (publish.ts:4-6
\* "crash-safe idempotency", 103-106).
StableReceipt ==
  \A c, e \in Calls :
    pc[c] = "done" /\ pc[e] = "done" /\ Request[c].key = Request[e].key =>
      result[c] = result[e]

\* While the process runs, what any call was told was executed is served, before
\* and after restarts (publish.ts:124 "Commit the receipt last so idempotency
\* reflects a fully applied side effect").
ExecutedIsServed ==
  up => \A c \in Calls :
          pc[c] = "done" /\ result[c].status = "executed" =>
            Request[result[c].by].digest \in index

\* Complete records in the file, by digest.
Posts(d) ==
  Cardinality({n \in DOMAIN file : Request[file[n].by].digest = d /\ file[n].written # "fragment"})

Told(c) ==
  CASE pc[c] = "done" /\ result[c].status = "executed" ->
         [status |-> "executed", item |-> Request[result[c].by].digest]
    [] pc[c] = "done" /\ result[c].status = "blocked" -> [status |-> "blocked", item |-> None]
    [] pc[c] = "failed" -> [status |-> "failed", item |-> None]
    [] OTHER -> None

\* The adapter implements the adapter contract, an item being a digest: content is
\* written once however many calls, keys, crashes and retries there are.
Promise == INSTANCE AbstractPublish WITH
  Items <- Digests,
  requested <- {Request[c].digest : c \in {e \in Calls : Request[e].authorized /\ pc[e] # "new"}},
  posts <- [d \in Digests |-> Posts(d)],
  outcome <- [c \in Calls |-> Told(c)]

ImplementsAbstractPublish == Promise!Spec

=============================================================================
