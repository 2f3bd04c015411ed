------------------------------ MODULE CmdLine ------------------------------
(***************************************************************************)
(* app/cmdline/cmdline.c sends its arguments to a process in one message   *)
(* of CMD_CELL_SIZE cells, one word each, and their number; the receiver   *)
(* (app_test.c) lists them.  The first argument is the target's name.      *)
(*                                                                         *)
(* A word is its length as far as it matters: empty, shorter than a cell,  *)
(* exactly a cell (its NUL lands behind it) or longer.  A cell is what can *)
(* be read from its first byte on: the word it was filled from, and        *)
(* whether a NUL ends it within the cell.  The cell behind the last is     *)
(* cmd_num.  External: whether a bind or connect works (see IpcMsg).       *)
(*                                                                         *)
(* An operator whose name ends in Fault is a deliberately wrong form of    *)
(* the definition that follows it.                                         *)
(***************************************************************************)
EXTENDS Naturals, Sequences

CONSTANTS
  CellNum,  \* CMD_CELL_SIZE, 16 in the source
  MaxArgs   \* bound: arguments behind the program's name

ASSUME CmdAssumption == CellNum \in Nat \ {0} /\ MaxArgs \in Nat

VARIABLES
  cmdPc,   \* next step of cmdline
  args,    \* its arguments, the target's name first
  hdl,     \* ipc_msg_init returned a handle
  cells,   \* cmds.cmds and, behind them, cmd_num
  num,     \* cmds.cmd_num
  saved,   \* words copied so far
  sent,    \* messages on their way: one at most
  listed   \* what the receiver has printed, one set of words per line

cmdVars == <<cmdPc, args, hdl, cells, num, saved, sent, listed>>

Lengths == {"empty", "short", "full", "long"}
\* Contents of a cell: the number of a word, nothing, or the bytes of cmd_num.
Blank == [from |-> 0, ends |-> TRUE]
Digits == [from |-> MaxArgs + 1, ends |-> TRUE]
Words == Tail(args)

CmdInit ==
  /\ cmdPc = "args" /\ hdl = FALSE /\ num = 0 /\ saved = 0
  /\ args \in UNION {[1..n -> Lengths] : n \in 0..MaxArgs}
  /\ cells = [j \in 1..(CellNum + 1) |-> Blank]
  /\ sent = <<>> /\ listed = <<>>

\* argc counts the program's name.
AcceptedFault(argc) == argc - 2 <= CellNum /\ argc >= 2
Accepted(argc) == argc - 1 <= CellNum /\ argc >= 2

CheckArgs ==
  /\ cmdPc = "args"
  /\ cmdPc' = IF Accepted(Len(args) + 1) THEN "init" ELSE "usage"
  /\ UNCHANGED <<args, hdl, cells, num, saved, sent, listed>>

IpcInit ==
  /\ cmdPc = "init"
  /\ cmdPc' = "save" /\ hdl' \in BOOLEAN
  /\ UNCHANGED <<args, cells, num, saved, sent, listed>>

(***************************************************************************)
(* cmd_save.                                                               *)
(***************************************************************************)
\* Words before the first that is too long.
Intact ==
  CHOOSE n \in 0..Len(Words) :
    /\ \A j \in 1..n : Words[j] # "long"
    /\ n = Len(Words) \/ Words[n + 1] = "long"

\* strcpy
Copied(j, length) ==
  CASE length = "empty" -> [cells EXCEPT ![j] = Blank]
    [] length = "short" -> [cells EXCEPT ![j] = [from |-> j, ends |-> TRUE]]
    [] length = "full" -> [cells EXCEPT ![j] = [from |-> j, ends |-> FALSE],
                                        ![j + 1] = Blank]

SaveWord ==
  /\ cmdPc = "save" /\ saved < Intact
  /\ cells' = Copied(saved + 1, Words[saved + 1])
  /\ saved' = saved + 1
  /\ UNCHANGED <<cmdPc, args, hdl, num, sent, listed>>

NumAfter == IF saved = Len(Words) THEN saved ELSE 0

\* The end of the words, or one that is too long: main does not look.
SaveEnds ==
  /\ cmdPc = "save" /\ saved = Intact
  /\ cmdPc' = "send"
  /\ num' = NumAfter
  /\ cells' = IF num' = 0 THEN cells ELSE [cells EXCEPT ![CellNum + 1] = Digits]
  /\ UNCHANGED <<args, hdl, saved, sent, listed>>

\* ipc_msg_send takes its name from the handle, which may be NULL.
Send ==
  /\ cmdPc = "send" /\ hdl
  /\ cmdPc' = "done"
  /\ sent' \in {<<>>, <<[cells |-> cells, num |-> num]>>}
  /\ UNCHANGED <<args, hdl, cells, num, saved, listed>>

SendCrashes ==
  /\ cmdPc = "send" /\ ~hdl
  /\ cmdPc' = "dead"
  /\ UNCHANGED <<args, hdl, cells, num, saved, sent, listed>>

(***************************************************************************)
(* cmd_parse in the receiver: "%s" from the j-th cell to the next NUL.     *)
(***************************************************************************)
ReadFrom(j) ==
  {k \in j..(CellNum + 1) : \A l \in j..(k - 1) : ~Head(sent).cells[l].ends}
Line(j) == {Head(sent).cells[k].from : k \in ReadFrom(j)} \ {0}

Parse ==
  /\ sent # <<>>
  /\ listed' = Append(listed, [j \in 1..Head(sent).num |-> Line(j)])
  /\ sent' = <<>>
  /\ UNCHANGED <<cmdPc, args, hdl, cells, num, saved>>

CmdNext ==
  \/ CheckArgs \/ IpcInit \/ SaveWord \/ SaveEnds \/ Send \/ SendCrashes
  \/ Parse

CmdSpec == CmdInit /\ [][CmdNext]_cmdVars

-----------------------------------------------------------------------------
(***************************************************************************)
(* The receiver lists all the words or, if one of them was too long, none. *)
(* Every line is the word that was typed, nothing more, except that a word *)
(* of exactly a cell's length runs on into the line of the one behind it;  *)
(* the last word never does, since the target's name leaves one cell free  *)
(* (cmdline.c:38-48, 58, 69-70; app_test.c:51-57).                         *)
(***************************************************************************)
Own(j) == IF Words[j] = "empty" THEN {} ELSE {j}
RunsOn(j) == Words[j] = "full" /\ j < Len(Words)
LinesAsTyped ==
  \A list \in {listed[n] : n \in 1..Len(listed)} :
    /\ Len(list) = IF \E j \in 1..Len(Words) : Words[j] = "long" THEN 0
                   ELSE Len(Words)
    /\ \A j \in 1..Len(list) :
         list[j] = Own(j) \cup (IF RunsOn(j) THEN list[j + 1] ELSE {})
=============================================================================
