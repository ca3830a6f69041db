------------------------ MODULE MemoryConsolidation ------------------------
(***************************************************************************)
(* The memory of one session as AddMemory keeps it: the conversation       *)
(* buffer of ShortTermMemory, the time of the last consolidation under a   *)
(* Redis key of its own, and the summaries in the long-term store.  Every  *)
(* message stored may start a goroutine that reads the buffer, has the     *)
(* router summarise it and stores the summary.  The goroutines outlive the *)
(* request, and none knows of the others.                                  *)
(*                                                                         *)
(* The long-term memory is enabled, as in the default configuration, which *)
(* is the one main uses.                                                   *)
(*                                                                         *)
(* A message is added once, so goroutines are named by their message.  A   *)
(* goroutine that dies with the process is one that fails where it stands. *)
(***************************************************************************)
EXTENDS ShortTermMemory

CONSTANTS SummaryMinTokens,
          ConsolidationInterval,
          MaxTime                  \* bound on the clock

ASSUME ConsolidationAssumption ==
    /\ SummaryMinTokens \in Nat
    /\ ConsolidationInterval \in Nat
    /\ MaxTime \in Nat \ {0}

VARIABLES now,        \* the clock, from 1
          checking,   \* callers whose AddMemory goes on to ShouldConsolidate
          stamp,      \* the time of the last consolidation as stored, 0 for no key
          job,        \* [Messages -> where the goroutine it started stands]
          source,     \* [Messages -> the entries it summarises, while it does]
          taken,      \* [Messages -> the time it is about to write to the stamp]
          summaries   \* stored summaries: their goroutine and time

jobVars     == <<job, source, taken>>
sessionVars == <<vars, now, checking, stamp, jobVars, summaries>>

SessionInit == /\ Init
               /\ now = 1
               /\ checking = {}
               /\ stamp = 0
               /\ job = [m \in Messages |-> "none"]
               /\ source = [m \in Messages |-> <<>>]
               /\ taken = [m \in Messages |-> 0]
               /\ summaries = {}

-----------------------------------------------------------------------------
(* AddMemory *)

\* A step of a caller on the buffer.  A message that was stored, and is known to
\* be, makes the caller look whether it is time to consolidate.
UseBuffer(c) == /\ c \notin checking
                /\ AddMessage(c) \/ GetFormattedMemory(c)
                /\ IF written' = written
                     THEN UNCHANGED checking
                     ELSE checking' \in {checking, checking \cup {c}}
                /\ UNCHANGED <<now, stamp, jobVars, summaries>>

\* Never consolidated, or longer ago than the interval.
Due == stamp = 0 \/ now - stamp > ConsolidationInterval

\* GET of the stamp and, if it is time, a goroutine.  Its failure is ignored.
ShouldConsolidate(c) ==
    /\ c \in checking
    /\ checking' = checking \ {c}
    /\ \/ Due /\ job' = [job EXCEPT ![msg[c]] = "reading"]
       \/ UNCHANGED job
    /\ UNCHANGED <<vars, now, stamp, source, taken, summaries>>

-----------------------------------------------------------------------------
(* ConsolidateSession.  The request behind AddMemory sets neither Force nor  *)
(* MaxEntries.                                                               *)

Goto(m, step) == job' = [job EXCEPT ![m] = step]

End(m) == /\ Goto(m, "done")
          /\ source' = [source EXCEPT ![m] = <<>>]
          /\ taken' = [taken EXCEPT ![m] = 0]

\* Two entries and enough tokens (with a bug: enough tokens will do).
EnoughTokens(mem) == mem.totalTokens >= SummaryMinTokens
EnoughToSummarise(mem) == Len(mem.entries) >= 2 /\ mem.totalTokens >= SummaryMinTokens

\* GET of the buffer.  It fails, or there is too little in it, and that is all.
ReadToSummarise(m) == /\ job[m] = "reading"
                      /\ \/ /\ EnoughToSummarise(conv)
                            /\ source' = [source EXCEPT ![m] = conv.entries]
                            /\ Goto(m, "summarising")
                            /\ UNCHANGED taken
                         \/ End(m)
                      /\ UNCHANGED <<vars, now, checking, stamp, summaries>>

GenerateSummary(m) == /\ job[m] = "summarising"
                      /\ \/ Goto(m, "storing") /\ UNCHANGED <<source, taken>>
                         \/ End(m)
                      /\ UNCHANGED <<vars, now, checking, stamp, summaries>>

\* Does a goroutine go on to the stamp?  Only if it knows its summary was stored
\* (with a bug: even if it knows that it was not).
GoesOnAnyway(known) == known \in BOOLEAN
GoesOn(known) == known

\* The summary is stored, its answer may be lost, or nothing is stored at all.
StoreSummary(m) ==
    /\ job[m] = "storing"
    /\ \E stored, known \in BOOLEAN :
          /\ known => stored
          /\ summaries' = IF stored THEN summaries \cup {[by |-> m, at |-> now]}
                                    ELSE summaries
          /\ IF GoesOn(known) THEN Goto(m, "stored") /\ UNCHANGED <<source, taken>>
                              ELSE End(m)
    /\ UNCHANGED <<vars, now, checking, stamp>>

\* The time is taken before the SET, so SETs may be applied in another order (with
\* a bug: it is the time the next consolidation is due).
TimeOfNext == now + ConsolidationInterval
TimeOfLast == now

TakeTime(m) == /\ job[m] = "stored"
               /\ taken' = [taken EXCEPT ![m] = TimeOfLast]
               /\ Goto(m, "stamping")
               /\ UNCHANGED <<vars, now, checking, stamp, source, summaries>>

\* SET of the stamp.  Its failure is only logged.
WriteStamp(m) == /\ job[m] = "stamping"
                 /\ stamp' \in {stamp, taken[m]}
                 /\ End(m)
                 /\ UNCHANGED <<vars, now, checking, summaries>>

ConsolidateSession(m) == \/ ReadToSummarise(m)
                         \/ GenerateSummary(m)
                         \/ StoreSummary(m)
                         \/ TakeTime(m)
                         \/ WriteStamp(m)

-----------------------------------------------------------------------------
\* ClearSession and expiry take the buffer and leave the stamp: its key lives for
\* a day, longer than the interval.
ClearBuffer == /\ Clear
               /\ UNCHANGED <<now, checking, stamp, jobVars, summaries>>

Tick == /\ now < MaxTime
        /\ now' = now + 1
        /\ UNCHANGED <<vars, checking, stamp, jobVars, summaries>>

SessionNext == \/ \E c \in Callers : UseBuffer(c) \/ ShouldConsolidate(c)
               \/ \E m \in Messages : ConsolidateSession(m)
               \/ ClearBuffer
               \/ Tick

SessionSpec == SessionInit /\ [][SessionNext]_sessionVars

-----------------------------------------------------------------------------
(* Properties *)

\* Type invariant.
SessionTypeOK ==
    /\ TypeOK
    /\ now \in 1..MaxTime
    /\ checking \subseteq Callers
    /\ stamp \in 0..MaxTime
    /\ job \in [Messages -> {"none", "reading", "summarising", "storing", "stored", "stamping", "done"}]
    /\ source \in [Messages -> Seq(Messages)]
    /\ taken \in [Messages -> 0..MaxTime]
    /\ summaries \subseteq [by : Messages, at : 1..MaxTime]

\* What a goroutine summarises is a piece of the conversation: at least two
\* messages that were stored, in the order they were, worth a summary, and with
\* no gap between them; whatever was added, trimmed or cleared since it was
\* started.
Piece(s) == /\ Len(s) >= 2
            /\ Tokens(s) >= SummaryMinTokens
            /\ \E i, j \in DOMAIN written : s = SubSeq(written, i, j)

SourcesArePieces == \A m \in Messages : source[m] # <<>> => Piece(source[m])

\* The next consolidation is held off only by a summary that was stored, no later
\* than the stamp says: no goroutine that failed, and no stamp written late, makes
\* the session wait for nothing.
StampIsBacked == stamp # 0 => \E s \in summaries : s.at <= stamp
=============================================================================
