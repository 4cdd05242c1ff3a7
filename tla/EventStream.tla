------------------------------ MODULE EventStream ------------------------------
(***************************************************************************)
(* The dashboard's live stream: a generator process appends the entries of *)
(* its audit log to a file and cuts the file down to its last lines, while *)
(* the events route polls that file by offset for a connected browser.     *)
(* They share nothing but the file, so that every call of the file system  *)
(* is a step of its own.                                                   *)
(*   apps/dashboard/scripts/event-generator.ts                             *)
(*   apps/dashboard/app/api/events/route.ts, lib/event-source.ts           *)
(*   packages/core/src/audit.ts                                            *)
(* A file is a sequence of units, one or more to a line, so that an offset *)
(* may point into a line; a line that is cut at either end does not parse. *)
(***************************************************************************)
EXTENDS Naturals, SequencesExt

CONSTANTS
  Generators,  \* generator processes, started one after another or at once
  Cap,         \* CAP: the lines a file is cut down to
  LineSize,    \* entry number -> units of its line
  MaxEvents,   \* generator -> bound on the entries of its log
  MaxFaults,   \* bound on generators killed and rewrites that fail
  Null

ASSUME SizesAssumption ==
  /\ {Cap, MaxFaults} \subseteq Nat
  /\ MaxEvents \in [Generators -> Nat]
  /\ \A g \in Generators : \A seq \in 1..MaxEvents[g] : LineSize[seq] \in Nat \ {0}
  /\ Null \notin [pos : Nat, size : Nat \union {Null}]

VARIABLES
  gen,        \* generator -> [up, pc, seq, kept]; pc stays where it was when one dies
  attempted,  \* whether the dashboard has started a generator
  file,       \* the units of the events file
  reader,     \* the connection: Null, or [pos, size] with size Null between polls
  delivered,  \* events sent on it
  written,    \* history: the events appended so far, in order
  faults,     \* history: generators killed and rewrites failed
  alone,      \* history: never have two generators run at once
  lost,       \* history: a rewrite was not completed
  spied       \* history: a size was taken on this connection during a rewrite

feed == <<reader, delivered, spied>>
streamVars == <<gen, attempted, file, feed, written, faults, alone, lost>>

\* Entry number seq of the audit log of g, which stands for its place in the chain.
Event(g, seq) == [gen |-> g, seq |-> seq]
LineOf(e) == [part \in 1..LineSize[e.seq] |-> [event |-> e, part |-> part]]

EndsLine(unit) == unit.part = LineSize[unit.event.seq]

\* The places of units where a line begins and is whole.
WholeAt(units, i) ==
  LET end == i + LineSize[units[i].event.seq] - 1
  IN  end <= Len(units) /\ SubSeq(units, i, end) = LineOf(units[i].event)

\* Those of the numbers up to n that are in places, in order.
InOrder(places, n) ==
  LET upTo[i \in 0..n] == IF i = 0 THEN <<>>
                          ELSE IF i \in places THEN Append(upTo[i - 1], i) ELSE upTo[i - 1]
  IN  upTo[n]

\* The events of the lines that can be parsed.
Parsed(units) ==
  LET whole == InOrder({i \in DOMAIN units : WholeAt(units, i)}, Len(units))
  IN  [k \in DOMAIN whole |-> units[whole[k]].event]

\* Where lines end.
Ends(units) == InOrder({i \in DOMAIN units : EndsLine(units[i])}, Len(units))

\* readSync: what the file holds between two offsets.
Between(pos, end) == SubSeq(file, pos + 1, IF end < Len(file) THEN end ELSE Len(file))

Running == {g \in Generators : gen[g].up}
Rewriting == {g \in Running : gen[g].pc = "rewrite"}

StreamInit ==
  /\ gen = [g \in Generators |-> [up |-> FALSE, pc |-> "off", seq |-> 0, kept |-> <<>>]]
  /\ attempted = FALSE
  /\ file = <<>>
  /\ reader = Null
  /\ delivered = <<>>
  /\ written = <<>>
  /\ faults = 0
  /\ alone = TRUE
  /\ lost = FALSE
  /\ spied = FALSE

-----------------------------------------------------------------------------
(* The generator process *)

Starts(g) ==
  /\ gen[g].pc = "off"
  /\ gen' = [gen EXCEPT ![g].up = TRUE, ![g].pc = "idle"]
  /\ alone' = (alone /\ Running = {})

\* A generator is started by hand.
StartGenerator(g) ==
  /\ Starts(g)
  /\ UNCHANGED <<attempted, file, feed, written, faults, lost>>

\* tick runs the control loop once, which appends some entries to the audit log; emit then
\* appends a line for each, the last of them followed by trim.
Emit(g) ==
  /\ gen[g].up /\ gen[g].pc \in {"idle", "emit"}
  /\ gen[g].seq < MaxEvents[g]
  /\ LET e == Event(g, gen[g].seq + 1)
     IN  /\ file' = file \o LineOf(e)
         /\ written' = Append(written, e)
  /\ \E place \in {"emit", "trim"} :
       /\ place = "emit" => gen[g].seq + 1 < MaxEvents[g]
       /\ gen' = [gen EXCEPT ![g].seq = @ + 1, ![g].pc = place]
  /\ UNCHANGED <<attempted, feed, faults, alone, lost>>

\* Seeded fault: the first lines are kept.
KeptFirst(units) ==
  LET ends == Ends(units)
  IN  IF Len(ends) > Cap THEN SubSeq(units, 1, ends[Cap]) ELSE units

\* The lines trim keeps: slice(-CAP).
Kept(units) ==
  LET ends == Ends(units)
  IN  IF Len(ends) > Cap THEN SubSeq(units, ends[Len(ends) - Cap] + 1, Len(units)) ELSE units

\* trim reads the file, and has done unless there are more lines than the cap.
TrimReads(g) ==
  /\ gen[g].up /\ gen[g].pc = "trim"
  /\ gen' = IF Kept(file) = file
            THEN [gen EXCEPT ![g].pc = "idle"]
            ELSE [gen EXCEPT ![g].pc = "truncate", ![g].kept = Kept(file)]
  /\ UNCHANGED <<attempted, file, feed, written, faults, alone, lost>>

\* writeFileSync opens the file, which empties it,
Truncate(g) ==
  /\ gen[g].up /\ gen[g].pc = "truncate"
  /\ file' = <<>>
  /\ gen' = [gen EXCEPT ![g].pc = "rewrite"]
  /\ UNCHANGED <<attempted, feed, written, faults, alone, lost>>

\* and writes from its start, over what another generator may have appended.
Rewrite(g) ==
  /\ g \in Rewriting
  /\ LET kept == gen[g].kept
     IN  file' = kept \o SubSeq(file, Len(kept) + 1, Len(file))
  /\ gen' = [gen EXCEPT ![g].pc = "idle", ![g].kept = <<>>]
  /\ UNCHANGED <<attempted, feed, written, faults, alone, lost>>

\* The write fails; trim catches what is thrown.
RewriteFails(g) ==
  /\ g \in Rewriting /\ faults < MaxFaults
  /\ faults' = faults + 1
  /\ lost' = TRUE
  /\ gen' = [gen EXCEPT ![g].pc = "idle", ![g].kept = <<>>]
  /\ UNCHANGED <<attempted, file, feed, written, alone>>

\* The process dies, be it in the middle of a rewrite.
Kill(g) ==
  /\ gen[g].up /\ faults < MaxFaults
  /\ faults' = faults + 1
  /\ lost' = (lost \/ g \in Rewriting)
  /\ gen' = [gen EXCEPT ![g].up = FALSE]
  /\ UNCHANGED <<attempted, file, feed, written, alone>>

-----------------------------------------------------------------------------
(* The dashboard process *)

\* GET: the stream begins at the end of the file.
Opens ==
  /\ reader = Null
  /\ reader' = [pos |-> Len(file), size |-> Null]
  /\ spied' = (Rewriting # {})
  /\ UNCHANGED <<file, delivered, written, faults, lost>>

\* ensureGenerator leaves it at that when the file was written lately, whoever did, or when it
\* tried before.
Connect ==
  /\ written # <<>> \/ attempted
  /\ Opens
  /\ UNCHANGED <<gen, attempted, alone>>

\* Otherwise it starts one, if it finds the script.
ConnectAndSpawn ==
  /\ ~attempted
  /\ attempted' = TRUE
  /\ Opens
  /\ \/ \E g \in Generators : Starts(g)
     \/ UNCHANGED <<gen, alone>>

\* Seeded fault: a file that became shorter is read from its start.
PollSizeFromStart ==
  /\ reader # Null /\ reader.size = Null /\ reader.pos # Len(file)
  /\ reader' = IF Len(file) < reader.pos THEN [reader EXCEPT !.pos = 0]
                                        ELSE [reader EXCEPT !.size = Len(file)]
  /\ spied' = (spied \/ Rewriting # {})
  /\ UNCHANGED <<gen, attempted, file, delivered, written, faults, alone, lost>>

\* Seeded fault: a file that became shorter is left alone until it has grown again.
PollSizeWaiting ==
  /\ reader # Null /\ reader.size = Null /\ reader.pos < Len(file)
  /\ reader' = [reader EXCEPT !.size = Len(file)]
  /\ spied' = (spied \/ Rewriting # {})
  /\ UNCHANGED <<gen, attempted, file, delivered, written, faults, alone, lost>>

\* poll looks at the size: a file that became shorter is skipped to its end.
PollSize ==
  /\ reader # Null /\ reader.size = Null /\ reader.pos # Len(file)
  /\ reader' = IF Len(file) < reader.pos THEN [reader EXCEPT !.pos = Len(file)]
                                        ELSE [reader EXCEPT !.size = Len(file)]
  /\ spied' = (spied \/ Rewriting # {})
  /\ UNCHANGED <<gen, attempted, file, delivered, written, faults, alone, lost>>

\* Seeded fault: the next poll goes on from the end the file has by now.
PollReadToEnd ==
  /\ reader # Null /\ reader.size # Null
  /\ delivered' = delivered \o Parsed(Between(reader.pos, reader.size))
  /\ reader' = [pos |-> Len(file), size |-> Null]
  /\ UNCHANGED <<gen, attempted, file, written, faults, alone, lost, spied>>

\* and reads up to that size, as much as the file still has, which may have been cut meanwhile.
PollRead ==
  /\ reader # Null /\ reader.size # Null
  /\ delivered' = delivered \o Parsed(Between(reader.pos, reader.size))
  /\ reader' = [pos |-> reader.size, size |-> Null]
  /\ UNCHANGED <<gen, attempted, file, written, faults, alone, lost, spied>>

\* The browser goes away; the poll is synchronous.
Leave ==
  /\ reader # Null /\ reader.size = Null
  /\ reader' = Null
  /\ delivered' = <<>>
  /\ spied' = FALSE
  /\ UNCHANGED <<gen, attempted, file, written, faults, alone, lost>>

StreamNext ==
  \/ \E g \in Generators :
       StartGenerator(g) \/ Emit(g) \/ TrimReads(g) \/ Truncate(g) \/ Rewrite(g)
       \/ RewriteFails(g) \/ Kill(g)
  \/ Connect \/ ConnectAndSpawn \/ PollSize \/ PollRead \/ Leave

StreamSpec == StreamInit /\ [][StreamNext]_streamVars

\* setInterval fires for as long as the browser is there.
FairStreamSpec == StreamSpec /\ WF_streamVars(PollSize) /\ WF_streamVars(PollRead)

-----------------------------------------------------------------------------
\* Where one generator at a time writes it (emit, trim), the file holds the latest events
\* without a gap, whenever it is read; outside a rewrite, and unless one was cut short, the
\* last Cap of them at least; and no more than these once the tick is over.
FileIsTail ==
  alone =>
    LET events == Parsed(file)
    IN  /\ IsSuffix(events, written)
        /\ ~lost /\ Rewriting = {} => Len(events) >= Cap \/ events = written
        /\ (\A g \in Generators : gen[g].pc \in {"off", "idle"}) => Len(events) <= Cap

\* A browser sees no event twice and none after a later one, across any number of rewrites
\* (route.ts: poll), unless generators overlapped or its poll fell into a rewrite.
DeliveredInOrder ==
  alone /\ ~spied =>
    /\ Range(delivered) \subseteq Range(written)
    /\ \A i, j \in DOMAIN delivered : i < j =>
         /\ delivered[i] # delivered[j]
         /\ \E k, l \in DOMAIN written :
              k < l /\ delivered[i] = written[k] /\ delivered[j] = written[l]

\* Lines that lie whole beyond the offset of a connection, and are not cut in two by the size
\* that its poll has taken.
Ahead ==
  IF reader = Null THEN {}
  ELSE LET mark == IF reader.size = Null THEN reader.pos ELSE reader.size
       IN  Range(Parsed(Between(reader.pos, mark))) \union Range(Parsed(Between(mark, Len(file))))

\* What lies ahead of a connection is never passed over: it is sent, unless the file is emptied
\* or written over first or the browser goes (route.ts: poll, beside emit and trim).
NothingSkipped ==
  [][Ahead \subseteq Ahead' \union Range(delivered')
       \/ reader' = Null \/ \E g \in Generators : Truncate(g) \/ Rewrite(g)]_streamVars

\* A connection does not stay behind the end of the file, nor beyond it after a rewrite
\* (route.ts: poll), as long as the browser stays.
CatchesUp ==
  (reader # Null /\ reader.pos # Len(file)) ~> (reader = Null \/ reader.pos = Len(file))

================================================================================
