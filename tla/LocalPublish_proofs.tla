-------------------------- MODULE LocalPublish_proofs --------------------------
(***************************************************************************)
(* Machine-checked properties of the local adapter, for any calls, keys,   *)
(* digests and number of crashes: receipts are stable, what was executed   *)
(* is served, and the adapter implements the contract of AbstractPublish.  *)
(*                                                                         *)
(* All three rest on how memory, file and receipts belong together at each *)
(* line of execute, which Ind says: the record is on file before its       *)
(* digest is in the index, and that before a receipt says executed.        *)
(***************************************************************************)
EXTENDS LocalPublish, FiniteSetTheorems, TLAPS

Running == {"check", "add", "index", "commit", "return"}

\* A complete record with the digest is in the file.
CompleteAt(n, d) == Request[file[n].by].digest = d /\ file[n].written # "fragment"
OnFile(d) == \E n \in DOMAIN file : CompleteAt(n, d)

\* One call at a time is carried out, while the process is up.
ProcessInv ==
  /\ \A c \in Calls : pc[c] \in Running <=> active = c
  /\ active # None => up
  /\ \A c \in Calls : pc[c] \in {"add", "index"} => Request[c].authorized

\* A receipt is under the key of the call that built it and says what that call may;
\* a call that got past the check found none, and what it returns is on disk.
ReceiptInv ==
  /\ \A k \in IdemKeys :
       receipts[k] # None =>
         Request[receipts[k].by].key = k /\ receipts[k].status = Status(receipts[k].by)
  /\ \A c \in Calls :
       /\ pc[c] \in {"add", "index", "commit"} => receipts[Request[c].key] = None
       /\ pc[c] = "return" => receipts[Request[c].key] = Built(c)
       /\ pc[c] = "done" => result[c] # None /\ result[c].whole
                            /\ receipts[Request[c].key] = result[c]

\* No digest is on file twice; what is in the index is on file; what is on file is in
\* the index of a running process, or about to be.
FileInv ==
  /\ \A m, n \in DOMAIN file, d \in Digests : CompleteAt(m, d) /\ CompleteAt(n, d) => m = n
  /\ \A d \in index : OnFile(d)
  /\ up => \A d \in Digests :
             OnFile(d) => d \in index
                          \/ \E c \in Calls : pc[c] = "index" /\ Request[c].digest = d

\* Where an authorised call, or a receipt that says executed, has its record.
CallServed(c) ==
  /\ pc[c] = "index" => OnFile(Request[c].digest)
  /\ pc[c] = "commit" /\ Request[c].authorized => Request[c].digest \in index

ReceiptServed(k) ==
  receipts[k] # None /\ receipts[k].status = "executed" =>
    \A d \in Digests :
      Request[receipts[k].by].digest = d => OnFile(d) /\ (up => d \in index)

ServedInv ==
  /\ \A c \in Calls : CallServed(c)
  /\ \A k \in IdemKeys : ReceiptServed(k)

Ind == TypeOK /\ ProcessInv /\ ReceiptInv /\ FileInv /\ ServedInv

-----------------------------------------------------------------------------
(***************************************************************************)
(* Receipts, lines and the ends of a call.                                 *)
(***************************************************************************)
LEMMA BuiltFacts ==
  ASSUME NEW c \in Calls
  PROVE  /\ Built(c) \in ExecutionReceipt /\ Built(c).by = c /\ Built(c).whole
         /\ Built(c).status = Status(c)
         /\ [Built(c) EXCEPT !.whole = FALSE] \in ExecutionReceipt
         /\ [Built(c) EXCEPT !.whole = FALSE].by = c
         /\ [Built(c) EXCEPT !.whole = FALSE].status = Status(c)
BY DEF Built, Status, ExecutionReceipt

LEMMA LineTypes ==
  ASSUME TypeOK
  PROVE  DOMAIN file = 1..Len(file) /\ \A n \in DOMAIN file : file[n].by \in Calls
<1>1. DOMAIN file = 1..Len(file) /\ \A n \in DOMAIN file : file[n] \in PublishedRecord
  BY DEF TypeOK
<1> QED
  BY <1>1 DEF PublishedRecord

\* A line joins the file.
LEMMA FileGrows ==
  ASSUME file \in Seq(PublishedRecord), NEW c \in Calls,
         NEW written \in {"all", "unterminated", "fragment"}, file' = Append(file, Line(c, written))
  PROVE  /\ file' \in Seq(PublishedRecord)
         /\ \A n \in DOMAIN file : file'[n] = file[n]
         /\ Len(file) + 1 \in DOMAIN file' /\ Len(file) + 1 \notin DOMAIN file
         /\ file'[Len(file) + 1] = Line(c, written)
         /\ DOMAIN file' = DOMAIN file \union {Len(file) + 1}
<1>1. Line(c, written) \in PublishedRecord
  BY DEF Line, PublishedRecord
<1>2. /\ file' \in Seq(PublishedRecord) /\ Len(file') = Len(file) + 1 /\ Len(file) \in Nat
      /\ file'[Len(file) + 1] = Line(c, written)
      /\ \A n \in 1..Len(file) : file'[n] = file[n]
  BY <1>1
<1>3. DOMAIN file = 1..Len(file) /\ DOMAIN file' = 1..(Len(file) + 1)
  BY <1>2
<1>4. DOMAIN file' = DOMAIN file \union {Len(file) + 1}
  BY <1>2, <1>3
<1> QED
  BY <1>2, <1>3, <1>4

\* What is complete in the file when a line has joined it.
LEMMA OnFileGrows ==
  ASSUME file \in Seq(PublishedRecord), NEW c \in Calls,
         NEW written \in {"all", "unterminated", "fragment"}, file' = Append(file, Line(c, written))
  PROVE  /\ DOMAIN file' = DOMAIN file \union {Len(file) + 1}
         /\ \A n \in DOMAIN file : \A d \in Digests : CompleteAt(n, d)' <=> CompleteAt(n, d)
         /\ \A n, d : n = Len(file) + 1 =>
              (CompleteAt(n, d)' <=> Request[c].digest = d /\ written # "fragment")
         /\ \A d \in Digests :
              OnFile(d)' <=> OnFile(d) \/ (Request[c].digest = d /\ written # "fragment")
<1>1. \A n \in DOMAIN file : \A d \in Digests : CompleteAt(n, d)' <=> CompleteAt(n, d)
  BY FileGrows DEF CompleteAt
<1>2. PICK last : last = Len(file) + 1
  OBVIOUS
<1>3. file'[last] = Line(c, written) /\ last \in DOMAIN file'
      /\ DOMAIN file' = DOMAIN file \union {last}
  BY <1>2, FileGrows
<1>4. \A d : CompleteAt(last, d)' <=> Request[c].digest = d /\ written # "fragment"
  BY <1>3 DEF CompleteAt, Line
<1>5. \A n, d : n = Len(file) + 1 =>
              (CompleteAt(n, d)' <=> Request[c].digest = d /\ written # "fragment")
  BY <1>2, <1>4
<1>6. ASSUME NEW d \in Digests
      PROVE  OnFile(d)' <=> OnFile(d) \/ (Request[c].digest = d /\ written # "fragment")
  BY <1>1, <1>3, <1>4 DEF OnFile
<1> QED
  BY <1>1, <1>2, <1>3, <1>5, <1>6

\* What an interrupted file operation leaves of file and receipts.
LEMMA InterruptedFacts ==
  ASSUME TypeOK, NEW c \in Calls, NEW cuts \in SUBSET {"unterminated", "fragment"},
         Interrupted(c, cuts)
  PROVE  /\ file' \in Seq(PublishedRecord)
         /\ receipts' \in [IdemKeys -> ExecutionReceipt \union {None}]
         /\ \/ UNCHANGED <<file, receipts>>
            \/ /\ pc[c] = "add" /\ Request[c].digest \notin index /\ UNCHANGED receipts
               /\ \E written \in cuts : file' = Append(file, Line(c, written))
            \/ /\ pc[c] = "commit" /\ UNCHANGED file
               /\ \A k \in IdemKeys \ {Request[c].key} : receipts'[k] = receipts[k]
               /\ receipts'[Request[c].key] = [Built(c) EXCEPT !.whole = FALSE]
<1>1. CASE UNCHANGED <<file, receipts>>
  BY <1>1 DEF TypeOK
<1>2. ASSUME pc[c] = "add", Request[c].digest \notin index, UNCHANGED receipts,
             NEW written \in cuts, file' = Append(file, Line(c, written))
      PROVE  file' \in Seq(PublishedRecord)
  BY <1>2, FileGrows DEF TypeOK
<1>3. ASSUME pc[c] = "commit", UNCHANGED file,
             receipts' = [receipts EXCEPT ![Request[c].key] = [Built(c) EXCEPT !.whole = FALSE]]
      PROVE  /\ receipts' \in [IdemKeys -> ExecutionReceipt \union {None}]
             /\ \A k \in IdemKeys \ {Request[c].key} : receipts'[k] = receipts[k]
             /\ receipts'[Request[c].key] = [Built(c) EXCEPT !.whole = FALSE]
  <2>1. Request[c].key \in IdemKeys
    BY LocalAssumption
  <2>2. [Built(c) EXCEPT !.whole = FALSE] \in ExecutionReceipt
    BY BuiltFacts
  <2> QED
    BY <1>3, <2>1, <2>2 DEF TypeOK
<1>4. TypeOK
  OBVIOUS
<1> QED
  BY <1>1, <1>2, <1>3, <1>4 DEF Interrupted, TypeOK

-----------------------------------------------------------------------------
(***************************************************************************)
(* Type correctness.                                                       *)
(***************************************************************************)
LEMMA InitTypeOK == Init => TypeOK
<1> SUFFICES ASSUME Init PROVE TypeOK
  OBVIOUS
<1>1. file \in Seq(PublishedRecord)
  BY DEF Init
<1> QED
  BY <1>1, LocalAssumption DEF Init, TypeOK

LEMMA NextTypeOK == TypeOK /\ [Next]_vars => TypeOK'
<1> SUFFICES ASSUME TypeOK, [Next]_vars PROVE TypeOK'
  OBVIOUS
<1>0. \A c \in Calls : Request[c].key \in IdemKeys /\ Request[c].digest \in Digests
  BY LocalAssumption
<1>1. ASSUME NEW c \in Calls, Enter(c) PROVE TypeOK'
  BY <1>1 DEF Enter, TypeOK
<1>2. ASSUME NEW c \in Calls, Check(c) PROVE TypeOK'
  BY <1>0, <1>2 DEF Check, Return, Throw, TypeOK
<1>3. ASSUME NEW c \in Calls, Add(c) PROVE TypeOK'
  <2>1. file' \in Seq(PublishedRecord)
    <3>1. CASE file' = Append(file, Line(c, "all"))
      BY <3>1, FileGrows DEF TypeOK
    <3>2. CASE UNCHANGED file
      BY <3>2 DEF TypeOK
    <3> QED
      BY <1>3, <3>1, <3>2 DEF Add
  <2> QED
    BY <1>3, <2>1 DEF Add, TypeOK
<1>4. ASSUME NEW c \in Calls, Index(c) PROVE TypeOK'
  BY <1>0, <1>4 DEF Index, TypeOK
<1>5. ASSUME NEW c \in Calls, Commit(c) PROVE TypeOK'
  BY <1>0, <1>5, BuiltFacts DEF Commit, TypeOK
<1>6. ASSUME NEW c \in Calls, Answer(c) PROVE TypeOK'
  BY <1>6, BuiltFacts DEF Answer, Return, TypeOK
<1>7. ASSUME NEW c \in Calls, WriteFails(c) PROVE TypeOK'
  <2>1. /\ file' \in Seq(PublishedRecord)
        /\ receipts' \in [IdemKeys -> ExecutionReceipt \union {None}]
    BY <1>7, InterruptedFacts DEF WriteFails
  <2> QED
    BY <1>7, <2>1 DEF WriteFails, Throw, TypeOK
<1>8. CASE Crash
  <2>1. crashes' \in 0..MaxCrashes
    BY <1>8, LocalAssumption DEF Crash, TypeOK
  <2>2. up' = FALSE /\ index' = {}
    BY <1>8 DEF Crash
  <2>3. CASE active = None
    BY <1>8, <2>1, <2>2, <2>3 DEF Crash, TypeOK
  <2>4. CASE active # None
    <3>1. active \in Calls /\ Interrupted(active, {"fragment", "unterminated"}) /\ Throw(active)
      BY <1>8, <2>4 DEF Crash, TypeOK
    <3>2. /\ file' \in Seq(PublishedRecord)
          /\ receipts' \in [IdemKeys -> ExecutionReceipt \union {None}]
      BY <3>1, InterruptedFacts
    <3> QED
      BY <2>1, <2>2, <3>1, <3>2 DEF Throw, TypeOK
  <2> QED
    BY <2>3, <2>4
<1>9. CASE Restart
  <2>1. index' \subseteq Digests
    BY <1>0, <1>9, LineTypes DEF Restart
  <2> QED
    BY <1>9, <2>1 DEF Restart, TypeOK
<1>10. CASE UNCHANGED vars
  BY <1>10 DEF vars, TypeOK
<1> QED
  BY <1>1, <1>2, <1>3, <1>4, <1>5, <1>6, <1>7, <1>8, <1>9, <1>10 DEF Next

-----------------------------------------------------------------------------
(***************************************************************************)
(* One call at a time.                                                     *)
(***************************************************************************)
LEMMA ProcessInvStep == TypeOK /\ ProcessInv /\ [Next]_vars => ProcessInv'
<1> SUFFICES ASSUME TypeOK, ProcessInv, [Next]_vars PROVE ProcessInv'
  OBVIOUS
<1> USE LocalAssumption DEF Running
\* The active call goes on to another line of execute.
<1>1. ASSUME NEW c \in Calls, active = c, NEW place \in Running,
             pc' = [pc EXCEPT ![c] = place], UNCHANGED <<active, up>>,
             place \in {"add", "index"} => Request[c].authorized
      PROVE  ProcessInv'
  BY <1>1 DEF TypeOK, ProcessInv
\* It ends.
<1>2. ASSUME NEW c \in Calls, active = c, NEW place \in {"done", "failed"},
             pc' = [pc EXCEPT ![c] = place], active' = None
      PROVE  ProcessInv'
  BY <1>2 DEF TypeOK, ProcessInv
<1>3. ASSUME NEW c \in Calls, Enter(c) PROVE ProcessInv'
  <2>1. /\ up' /\ active' = c /\ pc'[c] = "check"
        /\ \A e \in Calls \ {c} : pc'[e] = pc[e] /\ pc[e] \notin Running
    BY <1>3 DEF Enter, TypeOK, ProcessInv
  <2> QED
    BY <2>1 DEF ProcessInv
<1>4. ASSUME NEW c \in Calls, Check(c) PROVE ProcessInv'
  BY <1>1, <1>2, <1>4 DEF Check, Throw, Return
<1>5. ASSUME NEW c \in Calls, Add(c) PROVE ProcessInv'
  <2>1. Request[c].authorized
    BY <1>5 DEF Add, ProcessInv
  <2> QED
    BY <1>1, <1>5, <2>1 DEF Add
<1>6. ASSUME NEW c \in Calls, Index(c) \/ Commit(c) PROVE ProcessInv'
  BY <1>1, <1>6 DEF Index, Commit
<1>7. ASSUME NEW c \in Calls, Answer(c) \/ WriteFails(c) PROVE ProcessInv'
  BY <1>2, <1>7 DEF Answer, WriteFails, Return, Throw
<1>8. CASE Crash
  <2>1. CASE active = None
    BY <1>8, <2>1 DEF Crash, ProcessInv
  <2>2. CASE active # None
    BY <1>2, <1>8, <2>2 DEF Crash, Throw, TypeOK
  <2> QED
    BY <2>1, <2>2
<1>9. CASE Restart \/ UNCHANGED vars
  BY <1>9 DEF Restart, vars, ProcessInv
<1> QED
  BY <1>3, <1>4, <1>5, <1>6, <1>7, <1>8, <1>9 DEF Next

-----------------------------------------------------------------------------
(***************************************************************************)
(* Receipts on disk and receipts returned.                                 *)
(***************************************************************************)
LEMMA ReceiptInvStep == TypeOK /\ ProcessInv /\ ReceiptInv /\ [Next]_vars => ReceiptInv'
<1> SUFFICES ASSUME TypeOK, ProcessInv, ReceiptInv, [Next]_vars PROVE ReceiptInv'
  OBVIOUS
<1>0. \A c \in Calls : Request[c].key \in IdemKeys
  BY LocalAssumption
\* What is to show when one call moves and no receipt is written.
<1>1. ASSUME NEW c \in Calls, UNCHANGED receipts,
             \A e \in Calls \ {c} : pc'[e] = pc[e] /\ result'[e] = result[e],
             pc'[c] \in {"add", "index", "commit"} => receipts[Request[c].key] = None,
             pc'[c] = "return" => receipts[Request[c].key] = Built(c),
             pc'[c] = "done" => result'[c] # None /\ result'[c].whole
                                /\ receipts[Request[c].key] = result'[c]
      PROVE  ReceiptInv'
  BY <1>1 DEF ReceiptInv
\* What is to show when the active call writes its receipt, whole or not.
<1>2. ASSUME NEW c \in Calls, active = c, pc[c] = "commit", NEW receipt \in ExecutionReceipt,
             receipt.by = c, receipt.status = Status(c),
             receipts' = [receipts EXCEPT ![Request[c].key] = receipt],
             \A e \in Calls \ {c} : pc'[e] = pc[e] /\ result'[e] = result[e],
             pc'[c] = "failed" \/ (pc'[c] = "return" /\ receipt = Built(c))
      PROVE  ReceiptInv'
  <2>1. /\ receipts[Request[c].key] = None
        /\ receipts'[Request[c].key] = receipt
        /\ \A k \in IdemKeys \ {Request[c].key} : receipts'[k] = receipts[k]
    BY <1>0, <1>2 DEF ReceiptInv, TypeOK
  <2>2. \A k \in IdemKeys :
          receipts'[k] # None =>
            Request[receipts'[k].by].key = k /\ receipts'[k].status = Status(receipts'[k].by)
    BY <1>2, <2>1 DEF ReceiptInv
  <2>3. ASSUME NEW e \in Calls \ {c}
        PROVE  /\ pc'[e] \notin {"add", "index", "commit", "return"}
               /\ pc'[e] = "done" => result'[e] # None /\ result'[e].whole
                                     /\ receipts'[Request[e].key] = result'[e]
    <3>1. pc[e] \notin Running
      BY <1>2, <2>3 DEF ProcessInv
    <3>2. pc[e] = "done" => Request[e].key # Request[c].key
      BY <2>1 DEF ReceiptInv
    <3> QED
      BY <1>0, <1>2, <2>1, <3>1, <3>2 DEF ReceiptInv, Running
  <2> QED
    BY <1>2, <2>1, <2>2, <2>3 DEF ReceiptInv
<1>3. ASSUME NEW c \in Calls, Enter(c) PROVE ReceiptInv'
  <2>1. pc'[c] = "check" /\ UNCHANGED <<receipts, result>>
        /\ \A e \in Calls \ {c} : pc'[e] = pc[e]
    BY <1>3 DEF Enter, TypeOK
  <2> QED
    BY <1>1, <2>1
<1>4. ASSUME NEW c \in Calls, Check(c) PROVE ReceiptInv'
  <2>1. UNCHANGED receipts /\ pc[c] = "check"
        /\ \A e \in Calls \ {c} : pc'[e] = pc[e] /\ result'[e] = result[e]
    BY <1>4 DEF Check, Return, Throw, TypeOK
  <2>2. \/ /\ receipts[Request[c].key] # None /\ receipts[Request[c].key].whole
           /\ pc'[c] = "done" /\ result'[c] = receipts[Request[c].key]
        \/ pc'[c] = "failed"
        \/ receipts[Request[c].key] = None /\ pc'[c] \in {"add", "commit"}
    BY <1>4 DEF Check, Return, Throw, TypeOK
  <2> QED
    BY <1>1, <2>1, <2>2
<1>5. ASSUME NEW c \in Calls, Add(c) \/ Index(c) PROVE ReceiptInv'
  <2>1. UNCHANGED <<receipts, result>> /\ pc[c] \in {"add", "index"}
        /\ pc'[c] \in {"index", "commit"} /\ \A e \in Calls \ {c} : pc'[e] = pc[e]
    BY <1>5 DEF Add, Index, TypeOK
  <2>2. receipts[Request[c].key] = None
    BY <2>1 DEF ReceiptInv
  <2> QED
    BY <1>1, <2>1, <2>2
<1>6. ASSUME NEW c \in Calls, Commit(c) PROVE ReceiptInv'
  <2>1. pc'[c] = "return" /\ \A e \in Calls \ {c} : pc'[e] = pc[e] /\ result'[e] = result[e]
    BY <1>6 DEF Commit, TypeOK
  <2> QED
    BY <1>2, <1>6, <2>1, BuiltFacts DEF Commit
<1>7. ASSUME NEW c \in Calls, Answer(c) PROVE ReceiptInv'
  <2>1. UNCHANGED receipts /\ pc[c] = "return" /\ pc'[c] = "done" /\ result'[c] = Built(c)
        /\ \A e \in Calls \ {c} : pc'[e] = pc[e] /\ result'[e] = result[e]
    BY <1>7 DEF Answer, Return, TypeOK
  <2>2. receipts[Request[c].key] = Built(c) /\ Built(c) # None /\ Built(c).whole
    BY <2>1, BuiltFacts, NoneAssumption DEF ReceiptInv
  <2> QED
    BY <1>1, <2>1, <2>2
\* The active call is cut short, in the middle of a write or between two.
<1>8. ASSUME NEW c \in Calls, active = c, NEW cuts \in SUBSET {"unterminated", "fragment"},
             Interrupted(c, cuts), Throw(c)
      PROVE  ReceiptInv'
  <2>1. pc'[c] = "failed" /\ \A e \in Calls \ {c} : pc'[e] = pc[e] /\ result'[e] = result[e]
    BY <1>8 DEF Throw, TypeOK
  <2>2. CASE UNCHANGED receipts
    BY <1>1, <2>1, <2>2
  <2>3. CASE /\ pc[c] = "commit"
             /\ receipts' = [receipts EXCEPT ![Request[c].key] = [Built(c) EXCEPT !.whole = FALSE]]
    BY <1>2, <1>8, <2>1, <2>3, BuiltFacts
  <2> QED
    BY <1>8, <2>2, <2>3 DEF Interrupted
<1>9. CASE Crash
  <2>1. CASE active = None
    BY <1>9, <2>1 DEF Crash, ReceiptInv
  <2>2. CASE active # None
    BY <1>8, <1>9, <2>2 DEF Crash, TypeOK
  <2> QED
    BY <2>1, <2>2
<1>10. ASSUME NEW c \in Calls, WriteFails(c) PROVE ReceiptInv'
  BY <1>8, <1>10 DEF WriteFails
<1>11. CASE Restart \/ UNCHANGED vars
  BY <1>11 DEF Restart, vars, ReceiptInv
<1> QED
  BY <1>3, <1>4, <1>5, <1>6, <1>7, <1>9, <1>10, <1>11 DEF Next

-----------------------------------------------------------------------------
(***************************************************************************)
(* File, index and receipts together.                                      *)
(***************************************************************************)
\* Content that Add is about to append is not on file.
LEMMA NotYetOnFile ==
  ASSUME TypeOK, ProcessInv, FileInv, NEW c \in Calls, active = c, pc[c] = "add",
         Request[c].digest \notin index
  PROVE  ~OnFile(Request[c].digest)
<1>1. Request[c].digest \in Digests /\ c # None
  BY LocalAssumption
<1>2. up /\ \A e \in Calls : pc[e] # "index"
  BY <1>1 DEF ProcessInv, Running
<1> QED
  BY <1>1, <1>2 DEF FileInv

\* A line that joins the file then, whole or not, leaves every digest there once.
LEMMA OnceOnFile ==
  ASSUME TypeOK, ProcessInv, FileInv, NEW c \in Calls, active = c, pc[c] = "add",
         Request[c].digest \notin index,
         NEW written \in {"all", "unterminated", "fragment"}, file' = Append(file, Line(c, written))
  PROVE  \A m, n \in DOMAIN file' : \A d \in Digests :
           CompleteAt(m, d)' /\ CompleteAt(n, d)' => m = n
<1> SUFFICES ASSUME NEW m \in DOMAIN file', NEW n \in DOMAIN file', NEW d \in Digests,
                    CompleteAt(m, d)', CompleteAt(n, d)'
             PROVE  m = n
  OBVIOUS
<1>1. /\ DOMAIN file' = DOMAIN file \union {Len(file) + 1}
      /\ \A k \in DOMAIN file : CompleteAt(k, d)' <=> CompleteAt(k, d)
  BY OnFileGrows DEF TypeOK
<1>2. \A k : k = Len(file) + 1 /\ CompleteAt(k, d)' => Request[c].digest = d
  BY OnFileGrows DEF TypeOK
<1>3. ~OnFile(Request[c].digest)
  BY NotYetOnFile
<1>4. CASE m \in DOMAIN file /\ n \in DOMAIN file
  BY <1>1, <1>4 DEF FileInv
<1>5. CASE m \notin DOMAIN file /\ n \in DOMAIN file
  BY <1>1, <1>2, <1>3, <1>5 DEF OnFile
<1>6. CASE m \in DOMAIN file /\ n \notin DOMAIN file
  BY <1>1, <1>2, <1>3, <1>6 DEF OnFile
<1>7. CASE m \notin DOMAIN file /\ n \notin DOMAIN file
  BY <1>1, <1>7
<1> QED
  BY <1>4, <1>5, <1>6, <1>7

LEMMA FileInvStep ==
  ASSUME TypeOK, ProcessInv, FileInv, ServedInv, [Next]_vars
  PROVE  FileInv'
<1>0. \A c \in Calls : Request[c].digest \in Digests
  BY LocalAssumption
<1>1. ASSUME UNCHANGED <<file, index, up>>,
             \A e \in Calls : pc[e] = "index" => pc'[e] = "index"
      PROVE  FileInv'
  BY <1>1 DEF FileInv, OnFile, CompleteAt
<1>2. ASSUME NEW c \in Calls, Enter(c) \/ Check(c) \/ Commit(c) \/ Answer(c) PROVE FileInv'
  <2>1. pc[c] # "index" /\ \A e \in Calls \ {c} : pc'[e] = pc[e]
    BY <1>2 DEF Enter, Check, Commit, Answer, Return, Throw, TypeOK
  <2> QED
    BY <1>1, <1>2, <2>1 DEF Enter, Check, Commit, Answer
<1>3. ASSUME NEW c \in Calls, Add(c) PROVE FileInv'
  <2>1. CASE Request[c].digest \in index
    <3>1. pc[c] = "add" /\ \A e \in Calls \ {c} : pc'[e] = pc[e]
      BY <1>3, <2>1 DEF Add, TypeOK
    <3> QED
      BY <1>1, <1>3, <2>1, <3>1 DEF Add
  <2>2. CASE Request[c].digest \notin index
    <3>1. /\ active = c /\ pc[c] = "add" /\ pc'[c] = "index"
          /\ file' = Append(file, Line(c, "all")) /\ UNCHANGED <<index, up>>
          /\ \A e \in Calls \ {c} : pc'[e] = pc[e]
      BY <1>3, <2>2 DEF Add, TypeOK
    <3>2. \A d \in Digests : OnFile(d)' <=> OnFile(d) \/ Request[c].digest = d
      BY <3>1, OnFileGrows DEF TypeOK
    <3>3. \A d \in index' : OnFile(d)'
      BY <3>1, <3>2 DEF FileInv, TypeOK
    <3>4. \A m, n \in DOMAIN file' : \A d \in Digests :
            CompleteAt(m, d)' /\ CompleteAt(n, d)' => m = n
      BY <2>2, <3>1, OnceOnFile
    <3>5. up' => \A d \in Digests :
             OnFile(d)' => d \in index'
                           \/ \E e \in Calls : pc'[e] = "index" /\ Request[e].digest = d
      BY <3>1, <3>2 DEF FileInv
    <3> QED
      BY <3>3, <3>4, <3>5 DEF FileInv
  <2> QED
    BY <2>1, <2>2
<1>4. ASSUME NEW c \in Calls, Index(c) PROVE FileInv'
  <2>1. /\ pc[c] = "index" /\ index' = index \union {Request[c].digest}
        /\ UNCHANGED <<file, up>> /\ \A e \in Calls \ {c} : pc'[e] = pc[e]
    BY <1>4 DEF Index, TypeOK
  <2>2. OnFile(Request[c].digest)
    BY <2>1 DEF ServedInv, CallServed
  <2>3. \A n, d : CompleteAt(n, d)' <=> CompleteAt(n, d)
    BY <2>1 DEF CompleteAt
  <2>4. \A d : OnFile(d)' <=> OnFile(d)
    BY <2>1, <2>3 DEF OnFile
  <2> QED
    BY <2>1, <2>2, <2>3, <2>4 DEF FileInv
\* The active call is cut short: the process goes on, if it does, with what it knew.
<1>5. ASSUME NEW c \in Calls, active = c, NEW cuts \in SUBSET {"unterminated", "fragment"},
             Interrupted(c, cuts)
      PROVE  \A m, n \in DOMAIN file' : \A d \in Digests :
               CompleteAt(m, d)' /\ CompleteAt(n, d)' => m = n
  <2>1. CASE UNCHANGED file
    <3>1. \A n, d : CompleteAt(n, d)' <=> CompleteAt(n, d)
      BY <2>1 DEF CompleteAt
    <3> QED
      BY <2>1, <3>1 DEF FileInv
  <2>2. ASSUME pc[c] = "add", Request[c].digest \notin index,
               NEW written \in cuts, file' = Append(file, Line(c, written))
        PROVE  \A m, n \in DOMAIN file' : \A d \in Digests :
                 CompleteAt(m, d)' /\ CompleteAt(n, d)' => m = n
    BY <1>5, <2>2, OnceOnFile
  <2> QED
    BY <1>5, <2>1, <2>2 DEF Interrupted
<1>6. ASSUME NEW c \in Calls, WriteFails(c) PROVE FileInv'
  <2>1. /\ active = c /\ pc[c] \in {"add", "commit"} /\ Interrupted(c, {"fragment"})
        /\ UNCHANGED <<index, up>> /\ \A e \in Calls \ {c} : pc'[e] = pc[e]
    BY <1>6 DEF WriteFails, Throw, TypeOK
  <2>2. \A d \in Digests : OnFile(d)' <=> OnFile(d)
    <3>1. CASE UNCHANGED file
      BY <3>1 DEF OnFile, CompleteAt
    <3>2. CASE file' = Append(file, Line(c, "fragment"))
      BY <3>2, OnFileGrows DEF TypeOK
    <3> QED
      BY <2>1, <3>1, <3>2 DEF Interrupted
  <2>3. \A d \in index' : OnFile(d)'
    BY <2>1, <2>2 DEF FileInv, TypeOK
  <2>4. up' => \A d \in Digests :
           OnFile(d)' => d \in index'
                         \/ \E e \in Calls : pc'[e] = "index" /\ Request[e].digest = d
    BY <2>1, <2>2 DEF FileInv
  <2> QED
    BY <1>5, <2>1, <2>3, <2>4 DEF FileInv
<1>7. CASE Crash
  <2>1. up' = FALSE /\ index' = {}
    BY <1>7 DEF Crash
  <2>2. CASE active = None
    <3>1. UNCHANGED file
      BY <1>7, <2>2 DEF Crash
    <3>2. \A n, d : CompleteAt(n, d)' <=> CompleteAt(n, d)
      BY <3>1 DEF CompleteAt
    <3> QED
      BY <2>1, <3>1, <3>2 DEF FileInv
  <2>3. CASE active # None
    <3>1. active \in Calls /\ Interrupted(active, {"fragment", "unterminated"})
      BY <1>7, <2>3 DEF Crash, TypeOK
    <3> QED
      BY <1>5, <2>1, <3>1 DEF FileInv
  <2> QED
    BY <2>2, <2>3
<1>8. CASE Restart
  <2>1. Loadable /\ UNCHANGED file
    BY <1>8 DEF Restart
  <2>2. DOMAIN file = 1..Len(file)
    BY LineTypes
  <2>3. \A n \in DOMAIN file : file[n].written # "fragment"
    BY <2>1, <2>2 DEF Loadable
  <2>4. index' = {Request[file[n].by].digest : n \in DOMAIN file}
    BY <1>8, <2>2 DEF Restart
  <2>5. \A d : OnFile(d)' <=> d \in index'
    BY <2>1, <2>3, <2>4 DEF OnFile, CompleteAt
  <2>6. \A n, d : CompleteAt(n, d)' <=> CompleteAt(n, d)
    BY <2>1 DEF CompleteAt
  <2> QED
    BY <2>1, <2>5, <2>6 DEF FileInv
<1>9. CASE UNCHANGED vars
  BY <1>1, <1>9 DEF vars
<1> QED
  BY <1>2, <1>3, <1>4, <1>6, <1>7, <1>8, <1>9 DEF Next

LEMMA OnFileStays ==
  ASSUME TypeOK, [Next]_vars, NEW d \in Digests, OnFile(d)
  PROVE  OnFile(d)'
<1>1. CASE UNCHANGED file
  BY <1>1 DEF OnFile, CompleteAt
<1>2. ASSUME NEW c \in Calls, NEW written \in {"all", "unterminated", "fragment"},
             file' = Append(file, Line(c, written))
      PROVE  OnFile(d)'
  BY <1>2, OnFileGrows DEF TypeOK
<1>3. ASSUME NEW c \in Calls, NEW cuts \in SUBSET {"unterminated", "fragment"},
             Interrupted(c, cuts)
      PROVE  OnFile(d)'
  BY <1>1, <1>2, <1>3 DEF Interrupted
<1>4. ASSUME NEW c \in Calls, Add(c) PROVE OnFile(d)'
  BY <1>1, <1>2, <1>4 DEF Add
<1>5. ASSUME NEW c \in Calls, WriteFails(c) PROVE OnFile(d)'
  BY <1>3, <1>5 DEF WriteFails
<1>6. CASE Crash
  <2>1. active = None \/ active \in Calls
    BY DEF TypeOK
  <2> QED
    BY <1>1, <1>3, <1>6, <2>1 DEF Crash
<1> QED
  BY <1>1, <1>4, <1>5, <1>6 DEF Next, Enter, Check, Index, Commit, Answer, Restart, vars

LEMMA ServedInvStep ==
  ASSUME Ind, [Next]_vars
  PROVE  ServedInv'
<1>0. /\ TypeOK /\ ProcessInv /\ ReceiptInv /\ FileInv /\ ServedInv
      /\ \A c \in Calls : Request[c].digest \in Digests /\ Request[c].key \in IdemKeys
  BY LocalAssumption DEF Ind
<1>1. \A d \in Digests : OnFile(d) => OnFile(d)'
  BY <1>0, OnFileStays
\* What is left to show of the calls when one moves, and of the receipts.
<1>2. ASSUME NEW c \in Calls, CallServed(c)',
             \A e \in Calls \ {c} : pc'[e] = pc[e] /\ pc[e] \notin Running
      PROVE  \A e \in Calls : CallServed(e)'
  BY <1>2 DEF Running, CallServed
<1>3. ASSUME NEW k \in IdemKeys, receipts'[k] = receipts[k], up' => up /\ index \subseteq index'
      PROVE  ReceiptServed(k)'
  <2>1. ReceiptServed(k)
    BY <1>0 DEF ServedInv
  <2> QED
    BY <1>1, <1>3, <2>1 DEF ReceiptServed
<1>4. ASSUME NEW c \in Calls, active = c, pc[c] = "commit", NEW receipt \in ExecutionReceipt,
             receipt.by = c, receipt.status = Status(c),
             receipts' = [receipts EXCEPT ![Request[c].key] = receipt],
             up' => up /\ index \subseteq index'
      PROVE  \A k \in IdemKeys : ReceiptServed(k)'
  <2>1. PICK key \in IdemKeys : key = Request[c].key
    BY <1>0
  <2>2. receipts'[key] = receipt /\ \A k \in IdemKeys \ {key} : receipts'[k] = receipts[k]
    BY <1>4, <2>1 DEF Ind, TypeOK
  <2>3. ASSUME receipt.status = "executed", NEW d \in Digests, Request[c].digest = d
        PROVE  OnFile(d) /\ d \in index
    <3>1. Request[c].authorized
      BY <1>4, <2>3 DEF Status
    <3>2. d \in index
      BY <1>0, <1>4, <2>3, <3>1 DEF ServedInv, CallServed
    <3> QED
      BY <1>0, <3>2 DEF FileInv
  <2>4. ReceiptServed(key)'
    BY <1>1, <1>4, <2>2, <2>3 DEF ReceiptServed
  <2> QED
    BY <1>3, <1>4, <2>2, <2>4
<1>5. ASSUME NEW c \in Calls, Enter(c) \/ Check(c) \/ Answer(c) PROVE ServedInv'
  <2>1. /\ UNCHANGED <<receipts, index, up>>
        /\ \A e \in Calls \ {c} : pc'[e] = pc[e] /\ pc[e] \notin Running
        /\ pc'[c] # "index" /\ (pc'[c] = "commit" => ~Request[c].authorized)
    BY <1>0, <1>5, LocalAssumption
       DEF Enter, Check, Answer, Return, Throw, TypeOK, ProcessInv, Running
  <2>2. CallServed(c)'
    BY <2>1 DEF CallServed
  <2> QED
    BY <1>2, <1>3, <2>1, <2>2 DEF ServedInv
<1>6. ASSUME NEW c \in Calls, Add(c) \/ Index(c) PROVE ServedInv'
  <2>1. /\ UNCHANGED <<receipts, up>> /\ index \subseteq index'
        /\ \A e \in Calls \ {c} : pc'[e] = pc[e] /\ pc[e] \notin Running
        /\ pc'[c] = "commit" => Request[c].digest \in index'
        /\ pc'[c] = "index" => file' = Append(file, Line(c, "all"))
    BY <1>0, <1>6 DEF Add, Index, TypeOK, ProcessInv
  <2>2. PICK d \in Digests : d = Request[c].digest
    BY <1>0
  <2>3. ASSUME file' = Append(file, Line(c, "all")) PROVE OnFile(d)'
    BY <1>0, <2>2, <2>3, OnFileGrows DEF TypeOK
  <2>4. CallServed(c)'
    BY <2>1, <2>2, <2>3 DEF CallServed
  <2> QED
    BY <1>2, <1>3, <2>1, <2>4 DEF ServedInv
<1>7. ASSUME NEW c \in Calls, Commit(c) PROVE ServedInv'
  <2>1. /\ active = c /\ pc[c] = "commit" /\ pc'[c] = "return" /\ UNCHANGED <<up, index>>
        /\ receipts' = [receipts EXCEPT ![Request[c].key] = Built(c)]
        /\ \A e \in Calls \ {c} : pc'[e] = pc[e] /\ pc[e] \notin Running
    BY <1>0, <1>7 DEF Commit, TypeOK, ProcessInv
  <2>2. \A k \in IdemKeys : ReceiptServed(k)'
    BY <1>4, <2>1, BuiltFacts
  <2>3. CallServed(c)'
    BY <2>1 DEF CallServed
  <2> QED
    BY <1>2, <2>1, <2>2, <2>3 DEF ServedInv
\* The active call is cut short.
<1>8. ASSUME NEW c \in Calls, active = c, NEW cuts \in SUBSET {"unterminated", "fragment"},
             Interrupted(c, cuts), Throw(c), up' => up /\ index \subseteq index'
      PROVE  ServedInv'
  <2>1. pc'[c] = "failed" /\ \A e \in Calls \ {c} : pc'[e] = pc[e] /\ pc[e] \notin Running
    BY <1>0, <1>8 DEF Throw, TypeOK, ProcessInv
  <2>2. CallServed(c)'
    BY <2>1 DEF CallServed
  <2>3. CASE UNCHANGED receipts
    BY <1>2, <1>3, <1>8, <2>1, <2>2, <2>3 DEF ServedInv
  <2>4. CASE /\ pc[c] = "commit"
             /\ receipts' = [receipts EXCEPT ![Request[c].key] = [Built(c) EXCEPT !.whole = FALSE]]
    <3>1. \A k \in IdemKeys : ReceiptServed(k)'
      BY <1>4, <1>8, <2>4, BuiltFacts
    <3> QED
      BY <1>2, <2>1, <2>2, <3>1 DEF ServedInv
  <2> QED
    BY <1>8, <2>3, <2>4 DEF Interrupted
<1>9. ASSUME NEW c \in Calls, WriteFails(c) PROVE ServedInv'
  <2>1. /\ active = c /\ Interrupted(c, {"fragment"}) /\ Throw(c)
        /\ (up' => up /\ index \subseteq index')
    BY <1>9 DEF WriteFails
  <2> QED
    BY <1>8, <2>1
\* No call is at work in an idle process.
<1>10. ASSUME active = None, UNCHANGED pc PROVE \A e \in Calls : CallServed(e)'
  <2>1. \A e \in Calls : pc'[e] \notin Running
    BY <1>0, <1>10, LocalAssumption DEF ProcessInv
  <2> QED
    BY <2>1 DEF CallServed, Running
<1>11. CASE Crash
  <2>1. ~up'
    BY <1>11 DEF Crash
  <2>2. CASE active = None
    BY <1>3, <1>10, <1>11, <2>1, <2>2 DEF Crash, ServedInv
  <2>3. CASE active # None
    <3>1. active \in Calls /\ Interrupted(active, {"fragment", "unterminated"}) /\ Throw(active)
      BY <1>0, <1>11, <2>3 DEF Crash, TypeOK
    <3> QED
      BY <1>8, <2>1, <3>1
  <2> QED
    BY <2>2, <2>3
<1>12. CASE Restart
  <2>1. UNCHANGED <<receipts, pc, file>> /\ active = None
    BY <1>0, <1>12 DEF Restart, ProcessInv
  <2>2. FileInv' /\ up'
    BY <1>0, <1>12, FileInvStep DEF Restart
  <2>3. \A e \in Calls : pc'[e] # "index"
    BY <1>0, <2>1, LocalAssumption DEF ProcessInv, Running
  <2>4. \A d \in Digests : OnFile(d)' => d \in index'
    BY <2>2, <2>3 DEF FileInv
  <2>5. ASSUME NEW k \in IdemKeys PROVE ReceiptServed(k)'
    <3>1. ReceiptServed(k)
      BY <1>0 DEF ServedInv
    <3> QED
      BY <1>1, <2>1, <2>4, <3>1 DEF ReceiptServed
  <2> QED
    BY <1>10, <2>1, <2>5 DEF ServedInv
<1>13. CASE UNCHANGED vars
  BY <1>0, <1>13 DEF vars, ServedInv, CallServed, ReceiptServed, OnFile, CompleteAt
<1> QED
  BY <1>5, <1>6, <1>7, <1>9, <1>11, <1>12, <1>13 DEF Next

-----------------------------------------------------------------------------
LEMMA InitInd == Init => Ind
<1> SUFFICES ASSUME Init PROVE Ind
  OBVIOUS
<1>1. TypeOK
  BY InitTypeOK
<1>2. DOMAIN file = {}
  BY DEF Init
<1>3. ProcessInv /\ ReceiptInv
  BY LocalAssumption DEF Init, ProcessInv, ReceiptInv, Running
<1>4. FileInv /\ ServedInv
  BY <1>2 DEF Init, FileInv, ServedInv, CallServed, ReceiptServed, OnFile
<1> QED
  BY <1>1, <1>3, <1>4 DEF Ind

LEMMA Inductive == Spec => []Ind
<1>1. Ind /\ [Next]_vars => Ind'
  BY NextTypeOK, ProcessInvStep, ReceiptInvStep, FileInvStep, ServedInvStep DEF Ind
<1> QED
  BY <1>1, InitInd, PTL DEF Spec

\* Memory, file, receipts and calls of the local adapter are well-typed in every state.
THEOREM TypeCorrect == Spec => []TypeOK
<1>1. Ind => TypeOK
  BY DEF Ind
<1> QED
  BY <1>1, Inductive, PTL

\* Whatever crashes, failed writes and retries lie between them, the calls under one key
\* return one receipt (publish.ts:4-6, 103-106).
THEOREM ReceiptsAreStable == Spec => []StableReceipt
<1>1. Ind => StableReceipt
  BY DEF Ind, ReceiptInv, StableReceipt
<1> QED
  BY <1>1, Inductive, PTL

\* What any call was told was executed is served whenever the process runs, before and
\* after restarts (publish.ts:124).
THEOREM ExecutedStaysServed == Spec => []ExecutedIsServed
<1>1. Ind => ExecutedIsServed
  <2> SUFFICES ASSUME Ind, up, NEW c \in Calls, pc[c] = "done", result[c].status = "executed"
               PROVE  Request[result[c].by].digest \in index
    BY DEF ExecutedIsServed
  <2>1. result[c] # None /\ receipts[Request[c].key] = result[c]
    BY DEF Ind, ReceiptInv
  <2> QED
    BY <2>1, LocalAssumption DEF Ind, ServedInv, ReceiptServed, TypeOK, ExecutionReceipt
<1> QED
  BY <1>1, Inductive, PTL

-----------------------------------------------------------------------------
(***************************************************************************)
(* The adapter implements AbstractPublish: an authorised call that enters  *)
(* commissions its digest, an append that completes posts it, the end of a *)
(* call, by return or by throw, is its answer, and a crash after a whole   *)
(* record but for its newline posts and fails at once.  The rest, restarts *)
(* and receipts among it, is invisible.                                    *)
(***************************************************************************)
Requested == {Request[c].digest : c \in {e \in Calls : Request[e].authorized /\ pc[e] # "new"}}

\* A digest is on file once or not at all.
OnceOrNever == \A d \in Digests : Posts(d) = IF OnFile(d) THEN 1 ELSE 0

LEMMA PostsFacts == Ind => OnceOrNever
<1> SUFFICES ASSUME Ind, NEW d \in Digests PROVE Posts(d) = IF OnFile(d) THEN 1 ELSE 0
  BY DEF OnceOrNever
<1> DEFINE lines == {n \in DOMAIN file : Request[file[n].by].digest = d /\ file[n].written # "fragment"}
<1>1. CASE OnFile(d)
  <2>1. PICK n \in DOMAIN file : CompleteAt(n, d)
    BY <1>1 DEF OnFile
  <2>2. lines = {n}
    BY <2>1 DEF Ind, FileInv, CompleteAt
  <2> QED
    BY <1>1, <2>2, FS_Singleton DEF Posts
<1>2. CASE ~OnFile(d)
  <2>1. lines = {}
    BY <1>2 DEF OnFile, CompleteAt
  <2> QED
    BY <1>2, <2>1, FS_EmptySet DEF Posts
<1> QED
  BY <1>1, <1>2

LEMMA PostsFactsNext == Ind' => OnceOrNever'
BY PostsFacts, PTL

LEMMA InitRefines == Init => Promise!Init
<1> SUFFICES ASSUME Init PROVE Promise!Init
  OBVIOUS
<1>1. Requested = {}
  BY DEF Init, Requested
<1>2. [c \in Calls |-> Told(c)] = [c \in Calls |-> None]
  BY DEF Init, Told
<1>3. DOMAIN file = {}
  BY DEF Init
<1>4. \A d \in Digests : Posts(d) = 0
  BY <1>3, InitInd, PostsFacts DEF OnceOrNever, OnFile
<1> QED
  BY <1>1, <1>2, <1>4 DEF Promise!Init, Requested

\* What the file's moves are to the contract.
LEMMA PostsMoves ==
  ASSUME Ind, Ind'
  PROVE  /\ (\A d \in Digests : OnFile(d)' <=> OnFile(d)) =>
              [d \in Digests |-> Posts(d)]' = [d \in Digests |-> Posts(d)]
         /\ \A i \in Digests :
              ~OnFile(i) /\ (\A d \in Digests : OnFile(d)' <=> OnFile(d) \/ i = d) =>
                /\ Posts(i) = 0
                /\ [d \in Digests |-> Posts(d)]' = [[d \in Digests |-> Posts(d)] EXCEPT ![i] = 1]
<1>1. \A d \in Digests : Posts(d) = IF OnFile(d) THEN 1 ELSE 0
  BY PostsFacts DEF OnceOrNever
<1>2. \A d \in Digests : Posts(d)' = IF OnFile(d)' THEN 1 ELSE 0
  BY PostsFactsNext DEF OnceOrNever
<1> QED
  BY <1>1, <1>2

LEMMA RequestedMoves ==
  ASSUME TypeOK, NEW c \in Calls, pc[c] # "new", pc'[c] # "new",
         \A e \in Calls \ {c} : pc'[e] = pc[e]
  PROVE  Requested' = Requested
<1>1. \A e \in Calls : pc'[e] # "new" <=> pc[e] # "new"
  OBVIOUS
<1> QED
  BY <1>1 DEF Requested

\* A call that ends was told nothing before; the others are told what they were told.
LEMMA ToldMoves ==
  ASSUME TypeOK, NEW c \in Calls, pc[c] \in Running \union {"new"},
         \A e \in Calls \ {c} : pc'[e] = pc[e] /\ result'[e] = result[e]
  PROVE  /\ Told(c) = None
         /\ \A e \in Calls \ {c} : Told(e)' = Told(e)
         /\ pc'[c] \in Running =>
              [e \in Calls |-> Told(e)]' = [e \in Calls |-> Told(e)]
<1>1. Told(c) = None /\ (pc'[c] \in Running => Told(c)' = None)
  BY DEF Told, Running
<1>2. \A e \in Calls \ {c} : Told(e)' = Told(e)
  BY DEF Told
<1> QED
  BY <1>1, <1>2

\* A call that stays within execute is invisible, unless it appends.
LEMMA StepWithin ==
  ASSUME Ind, Ind', NEW c \in Calls, pc[c] \in Running, pc'[c] \in Running, UNCHANGED file,
         \A e \in Calls \ {c} : pc'[e] = pc[e] /\ result'[e] = result[e]
  PROVE  [Promise!Next]_(Promise!vars)
<1>1. Requested' = Requested
  BY RequestedMoves DEF Ind, Running
<1>2. [e \in Calls |-> Told(e)]' = [e \in Calls |-> Told(e)]
  BY ToldMoves DEF Ind
<1>3. \A d \in Digests : OnFile(d)' <=> OnFile(d)
  BY DEF OnFile, CompleteAt
<1>4. [d \in Digests |-> Posts(d)]' = [d \in Digests |-> Posts(d)]
  BY <1>3, PostsMoves
<1> QED
  BY <1>1, <1>2, <1>4 DEF Promise!vars, Requested

\* A call that ends with a receipt that is on disk answers.
LEMMA ReturnAnswers ==
  ASSUME Ind, Ind', NEW c \in Calls, pc[c] \in Running, pc'[c] = "done", UNCHANGED file,
         NEW receipt \in ExecutionReceipt, receipts[Request[c].key] = receipt,
         result'[c] = receipt,
         \A e \in Calls \ {c} : pc'[e] = pc[e] /\ result'[e] = result[e]
  PROVE  \E o \in Promise!Answers : Promise!Answer(c, o)
<1> DEFINE item == Request[receipt.by].digest
           o == [status |-> receipt.status,
                 item |-> IF receipt.status = "executed" THEN item ELSE None]
<1>1. receipt.by \in Calls /\ receipt.status \in {"executed", "blocked"} /\ receipt # None
  BY NoneAssumption DEF ExecutionReceipt
<1>2. item \in Digests
  BY <1>1, LocalAssumption
<1>3. o \in Promise!Answers
  BY <1>1, <1>2 DEF Promise!Answers
<1>4. Told(c)' = o
  BY <1>1 DEF Told
<1>5. o.status = "executed" => o.item = item /\ Posts(item) = 1
  <2>1. receipt.status = "executed" => OnFile(item)
    BY <1>1, <1>2, LocalAssumption DEF Ind, ServedInv, ReceiptServed
  <2> QED
    BY <1>2, <2>1, PostsFacts DEF OnceOrNever
<1>6. Told(c) = None /\ \A e \in Calls \ {c} : Told(e)' = Told(e)
  BY ToldMoves DEF Ind
<1>7. Requested' = Requested
  BY RequestedMoves DEF Ind, Running
<1>8. \A d \in Digests : OnFile(d)' <=> OnFile(d)
  BY DEF OnFile, CompleteAt
<1>9. [d \in Digests |-> Posts(d)]' = [d \in Digests |-> Posts(d)]
  BY <1>8, PostsMoves
<1> HIDE DEF o, item
<1>10. [e \in Calls |-> Told(e)]' = [[e \in Calls |-> Told(e)] EXCEPT ![c] = o]
  BY <1>4, <1>6
<1>11. Promise!Answer(c, o)
  BY <1>2, <1>5, <1>6, <1>7, <1>9, <1>10 DEF Promise!Answer, Requested
<1> QED
  BY <1>3, <1>11

\* A call that throws answers that it failed, and may have posted.
LEMMA ThrowAnswers ==
  ASSUME Ind, Ind', NEW c \in Calls, pc[c] \in Running, Throw(c)
  PROVE  /\ (\A d \in Digests : OnFile(d)' <=> OnFile(d)) =>
              \E o \in Promise!Answers : Promise!Answer(c, o)
         /\ \A i \in Digests :
              /\ i \in Requested /\ ~OnFile(i)
              /\ \A d \in Digests : OnFile(d)' <=> OnFile(d) \/ i = d
              => Promise!PostAndFail(c, i)
<1> DEFINE o == [status |-> "failed", item |-> None]
<1>1. pc'[c] = "failed" /\ \A e \in Calls \ {c} : pc'[e] = pc[e] /\ result'[e] = result[e]
  BY DEF Throw, Ind, TypeOK
<1>2. Told(c) = None /\ \A e \in Calls \ {c} : Told(e)' = Told(e)
  BY <1>1, ToldMoves DEF Ind
<1>3. Told(c)' = o
  BY <1>1 DEF Told
<1>4. Requested' = Requested
  BY <1>1, RequestedMoves DEF Ind, Running
<1>5. o \in Promise!Answers /\ o.status # "executed"
  BY DEF Promise!Answers
<1>6. [e \in Calls |-> Told(e)]' = [[e \in Calls |-> Told(e)] EXCEPT ![c] = o]
  BY <1>2, <1>3
<1>7. ASSUME \A d \in Digests : OnFile(d)' <=> OnFile(d)
      PROVE  Promise!Answer(c, o)
  <2>1. [d \in Digests |-> Posts(d)]' = [d \in Digests |-> Posts(d)]
    BY <1>7, PostsMoves
  <2> HIDE DEF o
  <2> QED
    BY <1>2, <1>4, <1>5, <1>6, <2>1 DEF Promise!Answer, Requested
<1>8. ASSUME NEW i \in Digests, i \in Requested, ~OnFile(i),
             \A d \in Digests : OnFile(d)' <=> OnFile(d) \/ i = d
      PROVE  Promise!PostAndFail(c, i)
  <2>1. /\ Posts(i) = 0
        /\ [d \in Digests |-> Posts(d)]' = [[d \in Digests |-> Posts(d)] EXCEPT ![i] = 1]
    BY <1>8, PostsMoves
  <2> QED
    BY <1>2, <1>4, <1>6, <1>8, <2>1 DEF Promise!PostAndFail, Requested
<1> QED
  BY <1>5, <1>7, <1>8

LEMMA CutRefines ==
  ASSUME Ind, Ind', NEW c \in Calls, active = c, Throw(c),
         NEW cuts \in SUBSET {"unterminated", "fragment"}, Interrupted(c, cuts)
  PROVE  [Promise!Next]_(Promise!vars)
<1>0. TypeOK /\ ProcessInv /\ FileInv /\ pc[c] \in Running
  BY DEF Ind, ProcessInv
<1>1. ASSUME \A d \in Digests : OnFile(d)' <=> OnFile(d)
      PROVE  [Promise!Next]_(Promise!vars)
  <2>1. \E o \in Promise!Answers : Promise!Answer(c, o)
    BY <1>0, <1>1, ThrowAnswers
  <2> QED
    BY <2>1 DEF Promise!Next
<1>2. CASE UNCHANGED file
  <2>1. \A d \in Digests : OnFile(d)' <=> OnFile(d)
    BY <1>2 DEF OnFile, CompleteAt
  <2> QED
    BY <1>1, <2>1
<1>3. ASSUME pc[c] = "add", Request[c].digest \notin index, NEW written \in cuts,
             file' = Append(file, Line(c, written))
      PROVE  [Promise!Next]_(Promise!vars)
  <2>1. PICK i \in Digests : i = Request[c].digest
    BY LocalAssumption
  <2>2. \A d \in Digests : OnFile(d)' <=> OnFile(d) \/ (i = d /\ written # "fragment")
    BY <1>0, <1>3, <2>1, OnFileGrows DEF TypeOK
  <2>3. CASE written = "fragment"
    BY <1>1, <2>2, <2>3
  <2>4. CASE written # "fragment"
    <3>1. ~OnFile(i)
      BY <1>0, <1>3, <2>1, NotYetOnFile
    <3>2. i \in Requested
      BY <1>0, <1>3, <2>1 DEF Requested, ProcessInv
    <3>3. Promise!PostAndFail(c, i)
      BY <1>0, <2>2, <2>4, <3>1, <3>2, ThrowAnswers
    <3> QED
      BY <3>3 DEF Promise!Next
  <2> QED
    BY <2>3, <2>4
<1> QED
  BY <1>2, <1>3 DEF Interrupted

LEMMA NextRefines ==
  ASSUME Ind, Ind', [Next]_vars
  PROVE  [Promise!Next]_(Promise!vars)
<1>0. TypeOK /\ ProcessInv /\ ReceiptInv /\ FileInv
  BY DEF Ind
\* No call moves and the file stays.
<1>1. ASSUME UNCHANGED <<file, pc, result>> PROVE [Promise!Next]_(Promise!vars)
  <2>1. Requested' = Requested /\ [c \in Calls |-> Told(c)]' = [c \in Calls |-> Told(c)]
    BY <1>1 DEF Requested, Told
  <2>2. \A d \in Digests : OnFile(d)' <=> OnFile(d)
    BY <1>1 DEF OnFile, CompleteAt
  <2>3. [d \in Digests |-> Posts(d)]' = [d \in Digests |-> Posts(d)]
    BY <2>2, PostsMoves
  <2> QED
    BY <2>1, <2>3 DEF Promise!vars, Requested
<1>2. ASSUME NEW c \in Calls, Enter(c) PROVE [Promise!Next]_(Promise!vars)
  <2>1. /\ pc[c] = "new" /\ pc'[c] = "check" /\ UNCHANGED <<file, result>>
        /\ \A e \in Calls \ {c} : pc'[e] = pc[e]
    BY <1>0, <1>2 DEF Enter, TypeOK
  <2>2. [e \in Calls |-> Told(e)]' = [e \in Calls |-> Told(e)]
    BY <1>0, <2>1, ToldMoves DEF Running
  <2>3. \A d \in Digests : OnFile(d)' <=> OnFile(d)
    BY <2>1 DEF OnFile, CompleteAt
  <2>4. [d \in Digests |-> Posts(d)]' = [d \in Digests |-> Posts(d)]
    BY <2>3, PostsMoves
  <2>5. CASE Request[c].authorized
    <3>1. Requested' = Requested \union {Request[c].digest}
      BY <2>1, <2>5 DEF Requested
    <3>2. Promise!Commission(Request[c].digest)
      BY <2>2, <2>4, <3>1 DEF Promise!Commission, Requested
    <3> QED
      BY <3>2, LocalAssumption DEF Promise!Next
  <2>6. CASE ~Request[c].authorized
    <3>1. Requested' = Requested
      BY <2>1, <2>6 DEF Requested
    <3> QED
      BY <2>2, <2>4, <3>1 DEF Promise!vars, Requested
  <2> QED
    BY <2>5, <2>6
<1>3. ASSUME NEW c \in Calls, Check(c) PROVE [Promise!Next]_(Promise!vars)
  <2>1. /\ active = c /\ pc[c] \in Running /\ UNCHANGED <<file, receipts>>
        /\ \A e \in Calls \ {c} : pc'[e] = pc[e] /\ result'[e] = result[e]
    BY <1>0, <1>3 DEF Check, Return, Throw, TypeOK, Running
  <2>2. CASE Throw(c)
    <3>1. Interrupted(c, {})
      BY <2>1 DEF Interrupted
    <3> QED
      BY <2>1, <2>2, <3>1, CutRefines
  <2>3. CASE receipts[Request[c].key] # None /\ Return(c, receipts[Request[c].key])
    <3>1. receipts[Request[c].key] \in ExecutionReceipt
      BY <1>0, <2>3, LocalAssumption DEF TypeOK
    <3>2. pc'[c] = "done" /\ result'[c] = receipts[Request[c].key]
      BY <1>0, <2>3 DEF Return, TypeOK
    <3>3. \E o \in Promise!Answers : Promise!Answer(c, o)
      BY <2>1, <3>1, <3>2, ReturnAnswers
    <3> QED
      BY <3>3 DEF Promise!Next
  <2>4. CASE pc'[c] \in Running
    BY <2>1, <2>4, StepWithin
  <2>5. pc' = [pc EXCEPT ![c] = IF Request[c].authorized THEN "add" ELSE "commit"]
          => pc'[c] \in Running
    BY <1>0 DEF TypeOK, Running
  <2> QED
    BY <1>3, <2>2, <2>3, <2>4, <2>5 DEF Check
<1>4. ASSUME NEW c \in Calls, Add(c) PROVE [Promise!Next]_(Promise!vars)
  <2>1. /\ active = c /\ pc[c] = "add" /\ pc'[c] \in Running /\ UNCHANGED result
        /\ \A e \in Calls \ {c} : pc'[e] = pc[e]
    BY <1>0, <1>4 DEF Add, TypeOK, Running
  <2>2. CASE UNCHANGED file
    BY <2>1, <2>2, StepWithin DEF Running
  <2>3. CASE Request[c].digest \notin index /\ file' = Append(file, Line(c, "all"))
    <3>1. PICK i \in Digests : i = Request[c].digest
      BY LocalAssumption
    <3>2. ~OnFile(i)
      BY <1>0, <2>1, <2>3, <3>1, NotYetOnFile
    <3>3. \A d \in Digests : OnFile(d)' <=> OnFile(d) \/ i = d
      BY <1>0, <2>3, <3>1, OnFileGrows DEF TypeOK
    <3>4. /\ Posts(i) = 0
          /\ [d \in Digests |-> Posts(d)]' = [[d \in Digests |-> Posts(d)] EXCEPT ![i] = 1]
      BY <3>2, <3>3, PostsMoves
    <3>5. i \in Requested
      BY <1>0, <2>1, <3>1 DEF Requested, ProcessInv
    <3>6. Requested' = Requested
      BY <1>0, <2>1, RequestedMoves DEF Running
    <3>7. [e \in Calls |-> Told(e)]' = [e \in Calls |-> Told(e)]
      BY <1>0, <2>1, ToldMoves DEF Running
    <3>8. Promise!Post(i)
      BY <3>4, <3>5, <3>6, <3>7 DEF Promise!Post, Requested
    <3> QED
      BY <3>8 DEF Promise!Next
  <2> QED
    BY <1>4, <2>2, <2>3 DEF Add
<1>5. ASSUME NEW c \in Calls, Index(c) \/ Commit(c) PROVE [Promise!Next]_(Promise!vars)
  <2>1. /\ pc[c] \in Running /\ pc'[c] \in Running /\ UNCHANGED <<file, result>>
        /\ \A e \in Calls \ {c} : pc'[e] = pc[e]
    BY <1>0, <1>5 DEF Index, Commit, TypeOK, Running
  <2> QED
    BY <2>1, StepWithin
<1>6. ASSUME NEW c \in Calls, Answer(c) PROVE [Promise!Next]_(Promise!vars)
  <2>1. /\ pc[c] = "return" /\ pc'[c] = "done" /\ UNCHANGED file /\ result'[c] = Built(c)
        /\ \A e \in Calls \ {c} : pc'[e] = pc[e] /\ result'[e] = result[e]
    BY <1>0, <1>6 DEF Answer, Return, TypeOK
  <2>2. receipts[Request[c].key] = Built(c) /\ Built(c) \in ExecutionReceipt
    BY <1>0, <2>1, BuiltFacts DEF ReceiptInv
  <2>3. \E o \in Promise!Answers : Promise!Answer(c, o)
    BY <2>1, <2>2, ReturnAnswers DEF Running
  <2> QED
    BY <2>3 DEF Promise!Next
<1>7. ASSUME NEW c \in Calls, WriteFails(c) PROVE [Promise!Next]_(Promise!vars)
  <2>1. active = c /\ Throw(c) /\ Interrupted(c, {"fragment"})
    BY <1>7 DEF WriteFails
  <2> QED
    BY <2>1, CutRefines
<1>8. CASE Crash
  <2>1. CASE active = None
    BY <1>1, <1>8, <2>1 DEF Crash
  <2>2. CASE active # None
    <3>1. /\ active \in Calls /\ Interrupted(active, {"fragment", "unterminated"})
          /\ Throw(active)
      BY <1>0, <1>8, <2>2 DEF Crash, TypeOK
    <3>2. PICK c \in Calls : c = active
      BY <3>1
    <3> QED
      BY <3>1, <3>2, CutRefines
  <2> QED
    BY <2>1, <2>2
<1>9. CASE Restart \/ UNCHANGED vars
  BY <1>1, <1>9 DEF Restart, vars
<1> QED
  BY <1>2, <1>3, <1>4, <1>5, <1>6, <1>7, <1>8, <1>9 DEF Next

\* The local adapter keeps the contract of a PublicationAdapter: content is written once
\* however many calls, keys, crashes and retries there are (execution.ts:
\* PublicationAdapter).
THEOREM KeepsContract == Spec => ImplementsAbstractPublish
<1>1. Init => Promise!Init
  BY InitRefines
<1>2. Ind /\ Ind' /\ [Next]_vars => [Promise!Next]_(Promise!vars)
  BY NextRefines
<1> QED
  BY <1>1, <1>2, Inductive, PTL DEF Spec, ImplementsAbstractPublish, Promise!Spec
=============================================================================
