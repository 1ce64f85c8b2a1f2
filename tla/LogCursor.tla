------------------------------ MODULE LogCursor ----------------------------
(* The live log of the control plane: the lines of the unit's journal are    *)
(* sent to the viewers (SSE connections, one thread each) with one cursor    *)
(* that they all share. journalctl may fail, which _run turns into an empty  *)
(* output.                                                                   *)
EXTENDS Naturals, FiniteSets

CONSTANTS Viewers,
          Chunk,         \* most lines of one poll (200)
          MaxLines,      \* model bound on lines of the journal
          MaxViews       \* model bound on connections per viewer

ASSUME SizesAssumption == Chunk \in Nat \ {0} /\ MaxLines \in Nat /\ MaxViews \in Nat

VARIABLES lines,     \* lines in the journal
          cursor,    \* _log_cursor: None or the last line accounted for
          stage,     \* where each connection is
          from,      \* local: the cursor as it was read
          text,      \* local: the lines journalctl returned
          upto,      \* local: the refreshed cursor
          base,      \* lines of the initial snapshot
          sent,      \* lines sent as new, and how often
          views,
          alone,     \* history: no other connection since this one began
          failed,    \* history: a refresh failed in this connection
          high,      \* history: the newest line the cursor has been at
          redone     \* history: lines sent or passed that the cursor lay before again

journal == <<lines, cursor>>
locals == <<from, text, upto>>
shown == <<base, sent, views>>
past == <<alone, failed, high, redone>>
logVars == <<journal, stage, locals, shown, past>>

None == MaxLines + 1
Lines == 1..MaxLines
Cursors == 0..MaxLines \union {None}
Stages == {"off", "seed", "seed_text", "seed_refresh", "seed_set",
           "poll", "text", "refresh", "set"}

LogInit ==
    /\ lines = 0 /\ cursor = None
    /\ stage = [v \in Viewers |-> "off"]
    /\ from = [v \in Viewers |-> None] /\ upto = [v \in Viewers |-> None]
    /\ text = [v \in Viewers |-> {}]
    /\ base = [v \in Viewers |-> 0]
    /\ sent = [v \in Viewers |-> [n \in Lines |-> 0]]
    /\ views = [v \in Viewers |-> 0]
    /\ alone = [v \in Viewers |-> FALSE] /\ failed = [v \in Viewers |-> FALSE]
    /\ high = 0 /\ redone = {}

Enters(v, p) == stage' = [stage EXCEPT ![v] = p]

(* The worker logs a line.                                                   *)
Write == /\ lines < MaxLines
         /\ lines' = lines + 1
         /\ UNCHANGED <<cursor, stage, locals, shown, past>>

(* start_unit empties the cursor.                                            *)
Reset == /\ cursor # None
         /\ cursor' = None
         /\ UNCHANGED <<lines, stage, locals, shown, past>>

(* A viewer connects: the snapshot shows the journal so far, unless its      *)
(* journalctl fails; then the cursor is seeded.                              *)
Connect(v) ==
    /\ stage[v] = "off" /\ views[v] < MaxViews
    /\ views' = [views EXCEPT ![v] = @ + 1]
    /\ \E n \in {0, lines} : base' = [base EXCEPT ![v] = n]
    /\ sent' = [sent EXCEPT ![v] = [n \in Lines |-> 0]]
    /\ alone' = [w \in Viewers |-> w = v /\ \A u \in Viewers : stage[u] = "off"]
    /\ failed' = [failed EXCEPT ![v] = FALSE]
    /\ Enters(v, "seed")
    /\ UNCHANGED <<journal, locals, high, redone>>

(* unit_logs_since_cursor, step by step: the cursor is read ...              *)
ReadCursor(v) ==
    /\ stage[v] \in {"seed", "poll"}
    /\ from' = [from EXCEPT ![v] = cursor]
    /\ Enters(v, IF stage[v] = "seed" THEN "seed_text" ELSE "text")
    /\ UNCHANGED <<journal, text, upto, shown, past>>

(* Mutant: --after-cursor is forgotten.                                      *)
NewestOfAll(c) == {n \in Lines : n <= lines /\ n + Chunk > lines}

(* ... journalctl prints the newest Chunk lines after it, or fails ...       *)
Newest(c) == {n \in Lines : n <= lines /\ n + Chunk > lines /\ (c = None \/ n > c)}

ReadText(v) ==
    /\ stage[v] \in {"seed_text", "text"}
    /\ \E t \in {Newest(from[v]), {}} : text' = [text EXCEPT ![v] = t]
    /\ Enters(v, IF stage[v] = "seed_text" THEN "seed_refresh" ELSE "refresh")
    /\ UNCHANGED <<journal, from, upto, shown, past>>

(* Mutant: the cursor is left where the text began.                          *)
RefreshedStay(v) == IF from[v] = None THEN lines ELSE from[v]

(* ... a second journalctl tells the cursor of the last line, if any; when   *)
(* it fails the cursor stays as it was read ...                              *)
Refreshed(v) == IF lines > 0 THEN lines ELSE from[v]

Refresh(v) ==
    /\ stage[v] \in {"seed_refresh", "refresh"}
    /\ Enters(v, IF stage[v] = "seed_refresh" THEN "seed_set" ELSE "set")
    /\ \/ upto' = [upto EXCEPT ![v] = Refreshed(v)] /\ UNCHANGED failed
       \/ upto' = [upto EXCEPT ![v] = from[v]] /\ failed' = [failed EXCEPT ![v] = TRUE]
    /\ UNCHANGED <<journal, from, text, shown, alone, high, redone>>

(* A poll that began without a cursor sends nothing.                         *)
Delivered(v) == IF stage[v] = "set" /\ from[v] # None THEN text[v] ELSE {}

(* ... and the cursor is set; the text of a poll goes to the viewer, and the *)
(* locals of the call are gone.                                              *)
SetCursor(v) ==
    /\ stage[v] \in {"seed_set", "set"}
    /\ cursor' = IF upto[v] # None THEN upto[v] ELSE cursor
    /\ sent' = [sent EXCEPT ![v] =
                   [n \in Lines |-> IF n \in Delivered(v) /\ @[n] < 2 THEN @[n] + 1 ELSE @[n]]]
    /\ high' = IF cursor' # None /\ cursor' > high THEN cursor' ELSE high
    /\ redone' = redone \union
           {n \in Lines : cursor' < n /\ (n <= high \/ n \in Delivered(v))}
    /\ from' = [from EXCEPT ![v] = None] /\ upto' = [upto EXCEPT ![v] = None]
    /\ text' = [text EXCEPT ![v] = {}]
    /\ Enters(v, "poll")
    /\ UNCHANGED <<lines, base, views, alone, failed>>

(* The connection breaks, which the next send notices.                       *)
Leave(v) ==
    /\ stage[v] = "poll"
    /\ Enters(v, "off")
    /\ UNCHANGED <<journal, locals, shown, past>>

View(v) == \/ Connect(v) \/ ReadCursor(v) \/ ReadText(v) \/ Refresh(v)
           \/ SetCursor(v) \/ Leave(v)

LogNext == Write \/ Reset \/ \E v \in Viewers : View(v)

LogSpec == LogInit /\ [][LogNext]_logVars
-----------------------------------------------------------------------------
LogTypeOK ==
    /\ lines \in 0..MaxLines /\ high \in 0..MaxLines /\ redone \subseteq Lines
    /\ cursor \in Cursors
    /\ stage \in [Viewers -> Stages]
    /\ from \in [Viewers -> Cursors] /\ upto \in [Viewers -> Cursors]
    /\ text \in [Viewers -> SUBSET Lines]
    /\ base \in [Viewers -> 0..MaxLines]
    /\ sent \in [Viewers -> [Lines -> 0..2]]
    /\ views \in [Viewers -> 0..MaxViews]
    /\ alone \in [Viewers -> BOOLEAN] /\ failed \in [Viewers -> BOOLEAN]

(* "Uses journalctl cursor for incremental logs": a viewer who has been the  *)
(* only one since connecting, and for whom no refresh failed, gets no line   *)
(* twice, and none as new that the snapshot has shown, whatever starts of    *)
(* the unit and earlier viewers have done to the cursor.                     *)
LinesOnce ==
    /\ LogTypeOK
    /\ \A v \in Viewers, n \in Lines :
          (alone[v] /\ ~failed[v]) => sent[v][n] <= IF n <= base[v] THEN 0 ELSE 1

(* With several viewers, or a journalctl that fails, a viewer does get lines *)
(* twice, but only lines that the shared cursor was put back before, by a    *)
(* poll that ended after a later one or that kept the cursor it had read:    *)
(* the reading of a cursor and its setting never repeat lines on their own.  *)
TwiceAfterStepBack == \A v \in Viewers, n \in Lines : sent[v][n] = 2 => n \in redone
=============================================================================
