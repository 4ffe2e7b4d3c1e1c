------------------------------- MODULE Stream -------------------------------
(***************************************************************************)
(* What an attempt learns from the output of its agent: runners/stream.py, *)
(* runners/turns.py, and the watcher and the deadline of runners/agent.py. *)
(*                                                                         *)
(* The agent writes two streams.  Two readers take what there is, in       *)
(* chunks, cut it into lines and give each line to the watcher of the      *)
(* phase, which counts tokens on both streams and follows the model's      *)
(* turns on stdout.  Both phases of the attempt share one clock.           *)
(*                                                                         *)
(* A line is a sequence of cells; an event is a line that opens and closes *)
(* a brace around what it says.                                            *)
(***************************************************************************)
EXTENDS Outcome, SequencesExt, FiniteSetsExt

CONSTANTS Lines,       \* what the agent may print
          Counts,      \* the token counts in a cell: [kind, count]
          Cumulative,  \* Accumulation.CUMULATIVE, or INCREMENTAL
          MaxLine,     \* MAX_LINE_BYTES
          Clocks,      \* [budget, caps, setup]: max_wall_clock_seconds,
                       \* wall_clock_seconds and setup_timeout_seconds
          Caps,        \* [tokens, usd]: the caps of a budget
          None,        \* a limit nobody set
          MaxWrites    \* bound

\* A limit is positive, or nobody set it (domain/budget.py, domain/repo.py).
Limits == (Nat \ {0}) \cup {None}

StreamAssumption ==
    /\ MaxLine \in Nat \ {0} /\ MaxWrites \in Nat /\ Cumulative \in BOOLEAN
    /\ None \notin Nat \cup Outcomes
    /\ \A line \in Lines : line \in Seq(ToSet(line))
    /\ \A c \in DOMAIN Counts : Counts[c].count \in Nat
    /\ \A c \in Clocks : c.budget \in Limits /\ c.caps \in Limits /\ c.setup \in Limits
    /\ \A c \in Caps : c.tokens \in Limits /\ c.usd \in Limits
    /\ Clocks # {} /\ Caps # {}

Streams == {"stdout", "stderr"}
Kinds == {"input", "cached"}
Newline == "nl"

VARIABLES clock, cap,      \* the limits of this attempt
          phase, now,      \* the phase it is in; the time since _Deadline.of
          began,           \* when the phase began
          proc,            \* the process of the phase
          written, taken,  \* what the agent wrote, and how much of it was read
          buffer, closed,  \* of each reader: what it holds, and that it is at the end
          watch,           \* _Watcher, its tally and its turns
          printed,         \* bounded by MaxWrites
          lines, stops,    \* history: the lines delivered, the calls of stop()
          timedOut, answer
vars == <<clock, cap, phase, now, began, proc, written, taken, buffer, closed, watch,
          lines, stops, timedOut, answer, printed>>

Fresh == [event |-> FALSE, turn |-> FALSE, error |-> FALSE,
          usage |-> [k \in Kinds |-> 0], total |-> 0, overspent |-> FALSE, tail |-> << >>]

Init ==
    /\ clock \in Clocks /\ cap \in Caps
    /\ phase = "setup" /\ now = 0 /\ began = 0 /\ proc = "up"
    /\ written = [s \in Streams |-> << >>] /\ taken = [s \in Streams |-> 0]
    /\ buffer = [s \in Streams |-> << >>] /\ closed = {}
    /\ watch = Fresh /\ lines = [s \in Streams |-> << >>] /\ stops = 0 /\ printed = 0
    /\ timedOut = FALSE /\ answer = None

-----------------------------------------------------------------------------
(* _Deadline: one clock for both phases *)

LeastOf(S) == IF S \ {None} = {} THEN None ELSE Min(S \ {None})

\* _wall_clock: the limit, and whether the budget set it
WallClock == LeastOf({clock.budget, clock.caps})
IsBudget == clock.budget # None /\ (clock.caps = None \/ clock.budget <= clock.caps)

\* A limit that is used up is zero here: the millisecond the code leaves of it
\* (_MINIMUM_LIMIT_SECONDS) is less than a unit of this clock, and a process that has
\* started does what it can before it is timed out.
Left(start) == IF WallClock = None THEN None ELSE Max({WallClock - start, 0})

Bug_Remaining(start, ceiling) == LeastOf({WallClock, ceiling})

\* remaining(): what is left when a phase starts, under its own ceiling.
Remaining(start, ceiling) == LeastOf({Left(start), ceiling})

Limit == Remaining(began, IF phase = "setup" THEN clock.setup ELSE None)
Expired == Limit # None /\ now >= began + Limit

-----------------------------------------------------------------------------
(* TokenTally and TurnTracker *)

Combine(old, new) == IF Cumulative THEN Max({old, new}) ELSE old + new

\* The counts on a line, by kind; the last of a kind is the one that is read.
Counted(line, kind) ==
    LET at == {i \in DOMAIN line : line[i] \in DOMAIN Counts /\ Counts[line[i]].kind = kind}
    IN  [any |-> at # {}, count |-> IF at = {} THEN 0 ELSE Counts[line[Max(at)]].count]

\* A total without a breakdown counts only on a line that has no breakdown.
observeTokens(w, line) ==
    IF \E k \in Kinds : Counted(line, k).any
    THEN [w EXCEPT !.usage = [k \in Kinds |-> IF Counted(line, k).any
                                              THEN Combine(w.usage[k], Counted(line, k).count)
                                              ELSE w.usage[k]]]
    ELSE IF Counted(line, "used").any
         THEN [w EXCEPT !.total = Combine(w.total, Counted(line, "used").count)]
         ELSE w

Sum(usage) == usage["input"] + usage["cached"]
Spent(w) == Max({Sum(w.usage), w.total})

\* TokenPrice.usd: cached input is free here, and what nobody broke down is output.
Usd(w) == w.usage["input"] + 3 * Max({w.total - Sum(w.usage), 0})

OverBudget(w) == \/ cap.tokens # None /\ Spent(w) > cap.tokens
                 \/ cap.usd # None /\ Usd(w) > cap.usd

\* _parse: the cells of an event, or nothing.  A line that was cut ends in a mark.
IsEvent(line) == Len(line) > 1 /\ Head(line) = "{" /\ Last(line) = "}"
Says(line, what) == IsEvent(line) /\ what \in ToSet(line)

\* An error stands until the model speaks again.
observe(w, line) ==
    [w EXCEPT !.event = @ \/ IsEvent(line),
              !.turn = @ \/ (Says(line, "turn") /\ ~Says(line, "error")),
              !.error = \/ Says(line, "error")
                        \/ @ /\ ~Says(line, "turn")]

Bug_Watched(w, s, line) ==
    LET told == observeTokens(observe(w, line), line)
    IN  [told EXCEPT !.tail = IF s = "stderr" THEN line ELSE @,
                     !.overspent = @ \/ OverBudget(told)]

\* _Watcher.line, of a sink that does not raise (AgentRunner has one that does).  A count
\* is one cell of the line, so none is cut in two by the cap on a line.
Watched(w, s, line) ==
    LET told == observeTokens(IF s = "stdout" THEN observe(w, line) ELSE w, line)
    IN  [told EXCEPT !.tail = IF s = "stderr" THEN line ELSE @,
                     !.overspent = @ \/ OverBudget(told)]

-----------------------------------------------------------------------------
(* pump *)

\* The next line of a buffer and what is left of it, or nothing yet.
Cut(b) ==
    LET ends == {i \in DOMAIN b : b[i] = Newline /\ i - 1 <= MaxLine}
    IN  IF ends # {}
        THEN <<SubSeq(b, 1, Min(ends) - 1), SubSeq(b, Min(ends) + 1, Len(b))>>
        ELSE IF Len(b) > MaxLine
             THEN <<Append(SubSeq(b, 1, MaxLine), "cut"), SubSeq(b, MaxLine + 1, Len(b))>>
             ELSE << >>

\* Line after line, from the front of the buffer; each takes a cell at least.
Taken(b) ==
    LET loop[n \in 0..Len(b)] ==
            IF n = 0 THEN [lines |-> << >>, rest |-> b]
            ELSE LET was == loop[n - 1]
                     next == Cut(was.rest)
                 IN  IF next = << >> THEN was
                     ELSE [lines |-> Append(was.lines, next[1]), rest |-> next[2]]
    IN  loop[Len(b)]

\* The watcher after each of the lines.
Watching(s, new) ==
    LET upTo[n \in 0..Len(new)] == IF n = 0 THEN watch ELSE Watched(upTo[n - 1], s, new[n])
    IN  upTo

Deliver(s, new) ==
    LET seen == Watching(s, new)[Len(new)]
    IN  /\ watch' = seen
        /\ lines' = [lines EXCEPT ![s] = lines[s] \o new]
        /\ stops' = stops + (IF seen.overspent /\ ~watch.overspent THEN 1 ELSE 0)

Unread(s) == Len(written[s]) - taken[s]

\* reader.read: at least one byte, if there is one.
Reads(s) ==
    /\ phase = "agent"
    /\ \E n \in 1..Unread(s) :
         LET got == Taken(buffer[s] \o SubSeq(written[s], taken[s] + 1, taken[s] + n))
         IN  /\ taken' = [taken EXCEPT ![s] = @ + n]
             /\ buffer' = [buffer EXCEPT ![s] = got.rest]
             /\ Deliver(s, got.lines)
    /\ UNCHANGED <<printed, clock, cap, phase, now, began, proc, written, closed, timedOut, answer>>

\* The end of a stream: what has no newline is a line.
ReadsEnd(s) ==
    /\ phase = "agent" /\ proc # "up" /\ Unread(s) = 0 /\ s \notin closed
    /\ closed' = closed \cup {s}
    /\ buffer' = [buffer EXCEPT ![s] = << >>]
    /\ Deliver(s, IF buffer[s] = << >> THEN << >> ELSE <<buffer[s]>>)
    /\ UNCHANGED <<printed, clock, cap, phase, now, began, proc, written, taken, timedOut, answer>>

-----------------------------------------------------------------------------
(* The attempt *)

\* The setup phase; its output reaches nothing but the sink.
SetupExits ==
    /\ phase = "setup" /\ ~timedOut
    /\ phase' = "agent" /\ began' = now
    /\ UNCHANGED <<printed, clock, cap, now, proc, written, taken, buffer, closed, watch, lines, stops,
                   timedOut, answer>>

Tick ==
    /\ phase # "over" /\ proc = "up" /\ Limit # None /\ ~Expired
    /\ now' = now + 1
    /\ UNCHANGED <<printed, clock, cap, phase, began, proc, written, taken, buffer, closed, watch, lines,
                   stops, timedOut, answer>>

Unfinished(s) == written[s] # << >> /\ Last(written[s]) # Newline

Prints(s) ==
    /\ phase = "agent" /\ proc = "up"
    /\ ~Unfinished(s) /\ printed < MaxWrites
    /\ printed' = printed + 1
    /\ \E line \in Lines, ending \in {<<Newline>>, << >>} :
         written' = [written EXCEPT ![s] = @ \o line \o ending]
    /\ UNCHANGED <<clock, cap, phase, now, began, proc, taken, buffer, closed, watch, lines,
                   stops, timedOut, answer>>

\* The agent ends, or the task that stop() made halts it.
Exits ==
    /\ phase = "agent" /\ proc = "up"
    /\ proc' \in {"zero", "nonzero"} \cup (IF watch.overspent THEN {"killed"} ELSE {})
    /\ UNCHANGED <<printed, clock, cap, phase, now, began, written, taken, buffer, closed, watch, lines,
                   stops, timedOut, answer>>

Signalled(w, code, late) ==
       (IF w.overspent \/ (late /\ IsBudget) THEN {"budget_exceeded"} ELSE {})
  \cup (IF late /\ ~IsBudget THEN {"timed_out"} ELSE {})
  \cup (IF "enospc" \in ToSet(w.tail) THEN {"disk_full"} ELSE {})
  \cup (IF phase = "setup" THEN {"setup_error"} ELSE {})
  \cup (IF phase = "agent" /\ w.event /\ ~w.turn THEN {"no_model_turn"} ELSE {})
  \cup (IF phase = "agent" /\ w.error THEN {"provider_error"} ELSE {})
  \cup (IF code # "zero" THEN {"exit_code"} ELSE {})

\* The drive is over: both streams are at their end, and so is the process.
Ends ==
    /\ phase = "agent" /\ closed = Streams
    /\ phase' = "over" /\ answer' = classify(Signalled(watch, proc, FALSE))
    /\ UNCHANGED <<printed, clock, cap, now, began, proc, written, taken, buffer, closed, watch, lines,
                   stops, timedOut>>

\* wait_for gives up on the drive, and what was not read is not read.
TimesOut ==
    /\ phase # "over" /\ Expired /\ (phase = "agent" => closed # Streams)
    /\ phase' = "over" /\ timedOut' = TRUE /\ proc' = "killed"
    /\ answer' = classify(Signalled(watch, "killed", TRUE))
    /\ UNCHANGED <<printed, clock, cap, now, began, written, taken, buffer, closed, watch, lines, stops>>

Next ==
    \/ SetupExits \/ Tick \/ Exits \/ Ends \/ TimesOut
    \/ \E s \in Streams : Prints(s) \/ Reads(s) \/ ReadsEnd(s)
Spec == Init /\ [][Next]_vars

-----------------------------------------------------------------------------
(* Reference: what was written, cut into lines without readers *)

\* The pieces of one line.
Pieces(line) ==
    [i \in 1..Max({1, (Len(line) + MaxLine - 1) \div MaxLine}) |->
        LET end == i * MaxLine
        IN  IF end < Len(line) THEN Append(SubSeq(line, end - MaxLine + 1, end), "cut")
            ELSE SubSeq(line, end - MaxLine + 1, Len(line))]

WrittenLines(text) ==
    LET ends == {i \in DOMAIN text : text[i] = Newline} \cup {0}
        from == [k \in 1..Cardinality(ends) |->
                   CHOOSE i \in ends : Cardinality({j \in ends : j < i}) = k - 1]
        upTo(i) == IF i = Len(from) THEN Len(text) ELSE from[i + 1] - 1
        whole == [i \in DOMAIN from |-> SubSeq(text, from[i] + 1, upTo(i))]
    IN  IF text # << >> /\ Last(text) # Newline THEN whole ELSE Front(whole)

PiecesOf(text) == FlattenSeq([i \in DOMAIN WrittenLines(text) |-> Pieces(WrittenLines(text)[i])])

\* The same, cell by cell: the lines that are complete, and the cells of the next one.
Fed(cut, cell) ==
    IF cell = Newline
    THEN [lines |-> Append(cut.lines, cut.open), open |-> << >>]
    ELSE IF Len(cut.open) = MaxLine
         THEN [lines |-> Append(cut.lines, Append(cut.open, "cut")), open |-> <<cell>>]
         ELSE [lines |-> cut.lines, open |-> Append(cut.open, cell)]

CellByCell(said, text) ==
    LET upTo[n \in 0..Len(text)] == IF n = 0 THEN [lines |-> said, open |-> << >>]
                                    ELSE Fed(upTo[n - 1], text[n])
    IN  upTo

Split(text) ==
    LET cut == CellByCell(<< >>, text)[Len(text)]
    IN  IF cut.open = << >> THEN cut.lines ELSE Append(cut.lines, cut.open)

ErrorStands(said) ==
    \E i \in DOMAIN said : /\ Says(said[i], "error")
                           /\ \A j \in i + 1 .. Len(said) : Says(said[j], "error")
                                                            \/ ~Says(said[j], "turn")

-----------------------------------------------------------------------------
(* Properties *)

TypeOK ==
    /\ phase \in {"setup", "agent", "over"} /\ proc \in {"up", "zero", "nonzero", "killed"}
    /\ \A s \in Streams : taken[s] \in 0..Len(written[s]) /\ Len(buffer[s]) <= MaxLine
    /\ closed \subseteq Streams /\ answer \in Outcomes \cup {None}

(***************************************************************************)
(* However the output arrives in chunks, the lines delivered are those of  *)
(* the output, in their order, and at its end none is missing              *)
(* (stream.py:230-277).                                                    *)
(***************************************************************************)
LinesAreOfTheOutput ==
    \A s \in Streams : /\ IsPrefix(lines[s], Split(written[s]))
                       /\ s \in closed => lines[s] = Split(written[s])

(***************************************************************************)
(* Whatever stderr says in between, and however the two streams interleave,*)
(* an attempt that ran to its end is a provider's error only when stdout   *)
(* leaves one standing, and succeeds only when none is, a model spoke if   *)
(* anything did, and nothing overspent (turns.py:15-39, agent.py:1263-1279)*)
(***************************************************************************)
AnswerIsOfTheOutput ==
    answer # None /\ ~timedOut /\ phase = "over" =>
        LET said == Split(written["stdout"])
        IN  /\ answer = "PROVIDER_ERROR" => ErrorStands(said)
            /\ answer = "SUCCEEDED" => /\ ~ErrorStands(said) /\ proc = "zero" /\ stops = 0
                                       /\ (\E i \in DOMAIN said : IsEvent(said[i])) =>
                                            \E i \in DOMAIN said : Says(said[i], "turn")

\* What a line reports of a kind; a total counts where there is no breakdown.
TokensOn(line, kind) ==
    IF Counted(line, kind).any /\ (kind = "used" => \A k \in Kinds : ~Counted(line, k).any)
    THEN Counted(line, kind).count ELSE 0

Total(said, kind) ==
    LET upTo[n \in 0..Len(said)] == IF n = 0 THEN 0 ELSE upTo[n - 1] + TokensOn(said[n], kind)
    IN  upTo[Len(said)]

Reported(said, kind) ==
    IF Cumulative
    THEN Max({0} \cup UNION {{TokensOn(said[s][i], kind) : i \in DOMAIN said[s]} : s \in Streams})
    ELSE Total(said["stdout"], kind) + Total(said["stderr"], kind)

(***************************************************************************)
(* A budget is overspent from the line that reports it on, it is stopped   *)
(* for it once, and under a cap on tokens alone no order of the reports    *)
(* makes a difference (agent.py:1263-1289, stream.py:150-200).             *)
(***************************************************************************)
OverspendIsNoticed ==
    /\ stops = (IF watch.overspent THEN 1 ELSE 0)
    /\ OverBudget(watch) => watch.overspent
    /\ cap.usd = None /\ cap.tokens # None =>
         (watch.overspent <=> \/ Reported(lines, "input") + Reported(lines, "cached") > cap.tokens
                              \/ Reported(lines, "used") > cap.tokens)

(***************************************************************************)
(* Both phases of an attempt together take no longer than its wall clock,  *)
(* and the agent running out of it is named for whose limit it was         *)
(* (agent.py:419-424, 1349-1368).                                          *)
(***************************************************************************)
AttemptFitsItsClock ==
    /\ WallClock # None => now <= WallClock
    /\ timedOut /\ began > 0 /\ phase = "over" /\ ~watch.overspent =>
         answer = (IF clock.budget = WallClock THEN "BUDGET_EXCEEDED" ELSE "TIMED_OUT")

(***************************************************************************)
(* What agent.py:1351-1356 says of a limit: the failure is called after    *)
(* the one that won.                                                       *)
(***************************************************************************)
TimeIsNamedForItsLimit ==
    answer = "BUDGET_EXCEEDED" => watch.overspent \/ (clock.budget # None /\ now >= clock.budget)

(***************************************************************************)
(* What turns.py:15-19 says of an error the agent recovered from, and      *)
(* turns.py:137-139 of a model that spoke: neither fails the run, however  *)
(* long the turn that came after it.                                       *)
(***************************************************************************)
RecoveredRunIsNoFailure ==
    answer \in {"PROVIDER_ERROR", "NO_MODEL_RESPONSE"} =>
        LET said == WrittenLines(written["stdout"])
        IN  ErrorStands(said) \/ ~\E i \in DOMAIN said : Says(said[i], "turn")
=============================================================================
