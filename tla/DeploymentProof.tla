--------------------------- MODULE DeploymentProof ---------------------------
(***************************************************************************)
(* Proofs about the deployment: what holds of the local file, its          *)
(* snapshots and the hosted tables between any two steps of any number of  *)
(* users' buttons, operator commands and daemons.                          *)
(*                                                                         *)
(* The buttons are scripts, so most of the argument is about the steps     *)
(* that a script still has to do: Shape says which they are and in which   *)
(* order, and no step of the script disturbs it.                           *)
(***************************************************************************)
EXTENDS Deployment, SequenceTheorems, TLAPS

-----------------------------------------------------------------------------
(* The steps left of a script. *)

Saves == {"save_run", "save_stop", "save_sync", "save_off", "save_free", "save_target"}
Starting == {"flag_on", "look", "load", "save_free", "save_target", "spawn"}

StepsOf(op) ==
    CASE op = "connect" -> {"host_on", "save_run", "mailbox_on", "save_sync", "wid"}
                           \cup Starting
      [] op = "pause" -> {"host_off", "save_stop", "load", "save_free"}
      [] op = "resume" -> {"host_on", "save_run"} \cup Starting
      [] op = "disconnect" -> {"host_off", "mailbox_off", "save_off", "others",
                               "host_delete", "flag_off", "load", "save_free"}
      [] op = "deactivate" -> {"host_off", "mailbox_off", "others", "flag_off"}
      [] op = "delete" -> {"others", "flag_off", "host_delete"}
      [] op = "cli_start" -> {"cli_look", "load", "save_free", "spawn"}
      [] op = "cli_stop" -> {"kill", "load", "save_free"}

Left(t, x) == \E i \in 1 .. Len(t) : t[i] = x
\* After x comes y; no y comes after x.
Leads(t, x, y) ==
    \A i \in 1 .. Len(t) : t[i] = x => \E j \in 1 .. Len(t) : i < j /\ t[j] = y
Bars(t, x, y) == \A i, j \in 1 .. Len(t) : i < j => ~(t[i] = x /\ t[j] = y)

\* A load is followed by a save, and a save that is not the next step comes after
\* a load.
Paired(t) ==
    \A i \in 1 .. Len(t) :
        /\ t[i] = "load" => i < Len(t) /\ t[i + 1] \in Saves
        /\ (i > 1 /\ t[i] \in Saves) => t[i - 1] = "load"

Ends(t) == \A i \in 1 .. Len(t) : t[i] \in {"look", "cli_look"} => i = Len(t)

ConnectScript ==
    <<"host_on", "load", "save_run", "mailbox_on", "host_on",
      "load", "save_sync", "wid", "flag_on", "flag_on", "look">>

\* The order of the steps, as far as it matters.
PauseOrder(t) == Bars(t, "save_stop", "host_off")
ResumeOrder(t) == Leads(t, "host_on", "save_run") /\ \A i \in 2 .. Len(t) : t[i] # "host_on"
DisconnectOrder(t) ==
    /\ Leads(t, "host_off", "save_off") /\ Leads(t, "mailbox_off", "save_off")
    /\ Leads(t, "host_delete", "save_off") /\ Bars(t, "save_off", "save_off")
ConnectOrder(t) ==
    /\ Leads(t, "host_on", "save_sync") /\ Leads(t, "mailbox_on", "save_sync")
    /\ Leads(t, "save_run", "mailbox_on")
    /\ Bars(t, "mailbox_on", "mailbox_on") /\ Bars(t, "mailbox_on", "save_run")
    /\ Bars(t, "save_sync", "mailbox_on")
    /\ \A i, j \in 2 .. Len(t) : i < j => ~(t[i] = "host_on" /\ t[j] = "mailbox_on")
    /\ (t # <<>> /\ t[1] = "host_on" /\ Left(t, "mailbox_on")) => t = ConnectScript

Shape(op, t) ==
    /\ t \in Seq(StepsOf(op)) /\ t # <<>>
    /\ Paired(t) /\ Ends(t)
    /\ op = "pause" => PauseOrder(t)
    /\ op = "resume" => ResumeOrder(t)
    /\ op = "disconnect" => DisconnectOrder(t)
    /\ op = "connect" => ConnectOrder(t)

LEMMA StepsAre ==
  /\ \A op \in Op \cup OperatorOp : StepsOf(op) \subseteq Step
  /\ Saves \subseteq Step /\ "load" \notin Saves
  BY DEF Op, OperatorOp, StepsOf, Step, Saves, Starting

LEMMA TailLeads ==
  ASSUME NEW S, NEW t \in Seq(S), t # <<>>, NEW x, NEW y, Leads(t, x, y)
  PROVE  Leads(Tail(t), x, y)
  <1> SUFFICES ASSUME NEW i \in 1 .. Len(Tail(t)), Tail(t)[i] = x
               PROVE  \E j \in 1 .. Len(Tail(t)) : i < j /\ Tail(t)[j] = y
    BY DEF Leads
  <1>1. i + 1 \in 1 .. Len(t) /\ t[i + 1] = x
    OBVIOUS
  <1>2. PICK j \in 1 .. Len(t) : i + 1 < j /\ t[j] = y
    BY <1>1 DEF Leads
  <1>3. j - 1 \in 1 .. Len(Tail(t)) /\ i < j - 1 /\ Tail(t)[j - 1] = y
    BY <1>2
  <1> QED
    BY <1>3

LEMMA TailBars ==
  ASSUME NEW S, NEW t \in Seq(S), t # <<>>, NEW x, NEW y, Bars(t, x, y)
  PROVE  Bars(Tail(t), x, y)
  BY DEF Bars

LEMMA TailPaired ==
  ASSUME NEW S, NEW t \in Seq(S), t # <<>>, Paired(t)
  PROVE  Paired(Tail(t))
  BY DEF Paired

LEMMA TailEnds ==
  ASSUME NEW S, NEW t \in Seq(S), t # <<>>, Ends(t)
  PROVE  Ends(Tail(t))
  BY DEF Ends

\* What is left after a step has the shape too.
LEMMA TailShape ==
  ASSUME NEW op \in Op \cup OperatorOp, NEW t, Shape(op, t), Tail(t) # <<>>
  PROVE  Shape(op, Tail(t))
  <1> DEFINE r == Tail(t)
  <1>1. t \in Seq(StepsOf(op)) /\ t # <<>>
    BY DEF Shape
  <1>2. r \in Seq(StepsOf(op)) /\ Paired(r) /\ Ends(r)
    BY <1>1, TailPaired, TailEnds DEF Shape
  <1>3. op = "pause" => PauseOrder(r)
    BY <1>1, TailBars DEF Shape, PauseOrder
  <1>4. op = "resume" => ResumeOrder(r)
    <2> SUFFICES ASSUME op = "resume" PROVE ResumeOrder(r)
      OBVIOUS
    <2>1. \A i \in 2 .. Len(t) : t[i] # "host_on"
      BY DEF Shape, ResumeOrder
    <2>2. \A i \in 2 .. Len(r) : r[i] # "host_on"
      BY <1>1, <2>1
    <2> QED
      BY <1>1, <2>2, TailLeads DEF Shape, ResumeOrder
  <1>5. op = "disconnect" => DisconnectOrder(r)
    BY <1>1, TailBars, TailLeads DEF Shape, DisconnectOrder
  <1>6. op = "connect" => ConnectOrder(r)
    <2> SUFFICES ASSUME op = "connect" PROVE ConnectOrder(r)
      OBVIOUS
    <2>1. ConnectOrder(t)
      BY DEF Shape
    <2>2. \A i, j \in 2 .. Len(r) : i < j => ~(r[i] = "host_on" /\ r[j] = "mailbox_on")
      BY <1>1, <2>1 DEF ConnectOrder
    <2>3. ~(r[1] = "host_on" /\ Left(r, "mailbox_on"))
      <3>1. \A i, j \in 2 .. Len(t) : i < j => ~(t[i] = "host_on" /\ t[j] = "mailbox_on")
        BY <2>1 DEF ConnectOrder
      <3> QED
        BY <1>1, <3>1 DEF Left
    <2> QED
      BY <1>1, <2>1, <2>2, <2>3, TailBars, TailLeads DEF ConnectOrder
  <1> QED
    BY <1>2, <1>3, <1>4, <1>5, <1>6 DEF Shape
\* A step put before the rest.
LEMMA Before ==
  ASSUME NEW S, NEW t \in Seq(S), NEW n \in S
  PROVE  LET r == <<n>> \o t
         IN  /\ r \in Seq(S) /\ r # <<>> /\ Len(r) = Len(t) + 1 /\ r[1] = n
             /\ \A i \in 1 .. Len(t) : r[i + 1] = t[i]
             /\ \A i \in 2 .. Len(r) : r[i] = t[i - 1] /\ i - 1 \in 1 .. Len(t)
  OBVIOUS

\* A script that puts flag_off, host_delete or another look at the others first:
\* what is left must have the shape, and must not begin with a save.
LEMMA BeforeShape ==
  ASSUME NEW op \in {"disconnect", "deactivate", "delete"}, NEW t, NEW n \in StepsOf(op),
         n \in {"flag_off", "host_delete", "others"},
         t = <<>> \/ (Shape(op, t) /\ t[1] \notin Saves),
         n = "host_delete" => Left(t, "save_off") \/ op # "disconnect"
  PROVE  Shape(op, <<n>> \o t)
  <1> DEFINE r == <<n>> \o t
  <1>0. t \in Seq(StepsOf(op))
    <2>1. CASE t = <<>>
      BY <2>1
    <2>2. CASE Shape(op, t)
      BY <2>2 DEF Shape
    <2> QED
      BY <2>1, <2>2
  <1>1. /\ r \in Seq(StepsOf(op)) /\ r # <<>> /\ Len(r) = Len(t) + 1 /\ r[1] = n
        /\ Len(t) \in Nat
        /\ \A i \in 1 .. Len(t) : r[i + 1] = t[i]
        /\ \A i \in 2 .. Len(r) : r[i] = t[i - 1] /\ i - 1 \in 1 .. Len(t)
    BY <1>0, Before
  <1> HIDE DEF r
  <1>2. Paired(r)
    <2>1. Paired(t)
      BY DEF Shape, Paired
    <2>2. ASSUME NEW i \in 1 .. Len(r), r[i] = "load" PROVE i < Len(r) /\ r[i + 1] \in Saves
      <3>1. i \in 2 .. Len(r)
        BY <1>1, <2>2
      <3>2. t[i - 1] = "load" /\ i - 1 \in 1 .. Len(t)
        BY <1>1, <2>2, <3>1
      <3>3. i - 1 < Len(t) /\ t[i] \in Saves
        BY <2>1, <3>1, <3>2 DEF Paired
      <3> QED
        BY <1>1, <3>1, <3>3
    <2>3. ASSUME NEW i \in 1 .. Len(r), i > 1, r[i] \in Saves PROVE r[i - 1] = "load"
      <3>1. t[i - 1] \in Saves /\ i - 1 \in 1 .. Len(t)
        BY <1>1, <2>3
      <3>2. i - 1 # 1
        BY <1>1, <3>1
      <3>3. t[i - 2] = "load" /\ i - 2 \in 1 .. Len(t)
        BY <2>1, <3>1, <3>2 DEF Paired
      <3> QED
        BY <1>1, <3>2, <3>3
    <2> QED
      BY <2>2, <2>3 DEF Paired
  <1>3. Ends(r)
    BY <1>0, <1>1, SMTT(40) DEF Ends, StepsOf
  <1>4. op = "disconnect" => DisconnectOrder(r)
    <2> SUFFICES ASSUME op = "disconnect" PROVE DisconnectOrder(r)
      OBVIOUS
    <2>1. t # <<>> => DisconnectOrder(t)
      BY DEF Shape
    <2>2. Bars(r, "save_off", "save_off")
      <3>1. Bars(t, "save_off", "save_off")
        BY <2>1 DEF DisconnectOrder, Bars
      <3> SUFFICES ASSUME NEW i \in 1 .. Len(r), NEW j \in 1 .. Len(r), i < j,
                          r[i] = "save_off", r[j] = "save_off"
                   PROVE  FALSE
        BY DEF Bars
      <3>2. i \in 2 .. Len(r) /\ j \in 2 .. Len(r)
        BY <1>1
      <3>3. t[i - 1] = "save_off" /\ t[j - 1] = "save_off"
        BY <1>1, <3>2
      <3> QED
        BY <1>1, <3>1, <3>2, <3>3 DEF Bars
    <2>3. ASSUME NEW x \in {"host_off", "mailbox_off", "host_delete"} PROVE Leads(r, x, "save_off")
      <3> SUFFICES ASSUME NEW i \in 1 .. Len(r), r[i] = x
                   PROVE  \E j \in 1 .. Len(r) : i < j /\ r[j] = "save_off"
        BY DEF Leads
      <3>1. CASE i = 1
        <4>1. PICK j \in 1 .. Len(t) : t[j] = "save_off"
          BY <1>1, <2>3, <3>1 DEF Left
        <4> QED
          BY <1>1, <3>1, <4>1
      <3>2. CASE i # 1
        <4>1. i - 1 \in 1 .. Len(t) /\ t[i - 1] = x
          BY <1>1, <3>2
        <4>2. Leads(t, x, "save_off")
          BY <2>1, <2>3, <4>1 DEF DisconnectOrder
        <4>3. PICK j \in 1 .. Len(t) : i - 1 < j /\ t[j] = "save_off"
          BY <4>1, <4>2 DEF Leads
        <4>4. j + 1 \in 1 .. Len(r) /\ i < j + 1 /\ r[j + 1] = "save_off"
          BY <1>1, <4>3
        <4> QED
          BY <4>4
      <3> QED
        BY <3>1, <3>2
    <2> QED
      BY <2>2, <2>3 DEF DisconnectOrder
  <1> QED
    BY <1>1, <1>2, <1>3, <1>4 DEF Shape, r

\* Every script a page or the operator begins has the shape.
LEMMA BeginShape ==
  ASSUME NEW op \in Op \cup OperatorOp, NEW u, NEW t \in Scripts(u, op)
  PROVE  /\ Shape(op, t) /\ t[1] \notin Saves /\ (op = "connect" => t = ConnectScript)
         /\ op = "pause" => Left(t, "host_off")
         /\ op = "disconnect" => Left(t, "save_off")
  <1>1. CASE op = "connect"
    <2>1. t = ConnectScript
      BY <1>1 DEF Scripts, StartSteps, ConnectScript
    <2>2. /\ t \in Seq(StepsOf(op)) /\ t # <<>> /\ t[1] \notin Saves
      BY <1>1, <2>1 DEF ConnectScript, StepsOf, Starting, Saves
    <2>3. Paired(t) /\ Ends(t)
      BY <2>1 DEF ConnectScript, Paired, Ends, Saves
    <2>4. ConnectOrder(t)
      BY <2>1 DEF ConnectOrder, ConnectScript, Leads, Bars
    <2> QED
      BY <1>1, <2>1, <2>2, <2>3, <2>4 DEF Shape
  <1>2. CASE op = "pause"
    <2>1. CASE t = <<"host_off", "load", "save_stop">>
      <3>1. /\ t \in Seq(StepsOf(op)) /\ t # <<>> /\ t[1] \notin Saves
        BY <1>2, <2>1 DEF StepsOf, Starting, Saves
      <3>2. Paired(t) /\ Ends(t)
        BY <2>1 DEF Paired, Ends, Saves
      <3>3. PauseOrder(t)
        BY <2>1 DEF PauseOrder, Leads, Bars
      <3>4. Left(t, "host_off")
        BY <2>1 DEF Left
      <3> QED
        BY <1>2, <3>1, <3>2, <3>3, <3>4 DEF Shape
    <2>2. CASE t = <<"host_off", "load", "save_stop", "load", "save_free">>
      <3>1. /\ t \in Seq(StepsOf(op)) /\ t # <<>> /\ t[1] \notin Saves
        BY <1>2, <2>2 DEF StepsOf, Starting, Saves
      <3>2. Paired(t) /\ Ends(t)
        BY <2>2 DEF Paired, Ends, Saves
      <3>3. PauseOrder(t)
        BY <2>2 DEF PauseOrder, Leads, Bars
      <3>4. Left(t, "host_off")
        BY <2>2 DEF Left
      <3> QED
        BY <1>2, <3>1, <3>2, <3>3, <3>4 DEF Shape
    <2> QED
      BY <1>2, <2>1, <2>2 DEF Scripts, StartSteps, StopSteps
  <1>3. CASE op = "resume"
    <2>1. CASE t = <<"host_on", "load", "save_run">>
      <3>1. /\ t \in Seq(StepsOf(op)) /\ t # <<>> /\ t[1] \notin Saves
        BY <1>3, <2>1 DEF StepsOf, Starting, Saves
      <3>2. Paired(t) /\ Ends(t)
        BY <2>1 DEF Paired, Ends, Saves
      <3>3. ResumeOrder(t)
        BY <2>1 DEF ResumeOrder, Leads, Bars
      <3> QED
        BY <1>3, <3>1, <3>2, <3>3 DEF Shape
    <2>2. CASE t = <<"host_on", "load", "save_run", "flag_on", "look">>
      <3>1. /\ t \in Seq(StepsOf(op)) /\ t # <<>> /\ t[1] \notin Saves
        BY <1>3, <2>2 DEF StepsOf, Starting, Saves
      <3>2. Paired(t) /\ Ends(t)
        BY <2>2 DEF Paired, Ends, Saves
      <3>3. ResumeOrder(t)
        BY <2>2 DEF ResumeOrder, Leads, Bars
      <3> QED
        BY <1>3, <3>1, <3>2, <3>3 DEF Shape
    <2> QED
      BY <1>3, <2>1, <2>2 DEF Scripts, StartSteps, StopSteps
  <1>4. CASE op = "disconnect"
    <2>1. CASE t = <<"host_off", "mailbox_off", "load", "save_off", "others">>
      <3>1. /\ t \in Seq(StepsOf(op)) /\ t # <<>> /\ t[1] \notin Saves
        BY <1>4, <2>1 DEF StepsOf, Starting, Saves
      <3>2. Paired(t) /\ Ends(t)
        BY <2>1 DEF Paired, Ends, Saves
      <3>3. DisconnectOrder(t)
        BY <2>1 DEF DisconnectOrder, Leads, Bars
      <3>4. Left(t, "save_off")
        BY <2>1 DEF Left
      <3> QED
        BY <1>4, <3>1, <3>2, <3>3, <3>4 DEF Shape
    <2>2. CASE t = <<"host_off", "mailbox_off", "load", "save_off", "others", "load", "save_free">>
      <3>1. /\ t \in Seq(StepsOf(op)) /\ t # <<>> /\ t[1] \notin Saves
        BY <1>4, <2>2 DEF StepsOf, Starting, Saves
      <3>2. Paired(t) /\ Ends(t)
        BY <2>2 DEF Paired, Ends, Saves
      <3>3. DisconnectOrder(t)
        BY <2>2 DEF DisconnectOrder, Leads, Bars
      <3>4. Left(t, "save_off")
        BY <2>2 DEF Left
      <3> QED
        BY <1>4, <3>1, <3>2, <3>3, <3>4 DEF Shape
    <2> QED
      BY <1>4, <2>1, <2>2 DEF Scripts, StartSteps, StopSteps
  <1>5. CASE op = "deactivate"
    <2>1. CASE t = <<"host_off", "mailbox_off", "others">>
      <3>1. /\ t \in Seq(StepsOf(op)) /\ t # <<>> /\ t[1] \notin Saves
        BY <1>5, <2>1 DEF StepsOf, Starting, Saves
      <3>2. Paired(t) /\ Ends(t)
        BY <2>1 DEF Paired, Ends, Saves
      <3> QED
        BY <1>5, <3>1, <3>2 DEF Shape
    <2> QED
      BY <1>5, <2>1 DEF Scripts, StartSteps, StopSteps
  <1>6. CASE op = "delete"
    <2>1. CASE t = <<"others", "host_delete">>
      <3>1. /\ t \in Seq(StepsOf(op)) /\ t # <<>> /\ t[1] \notin Saves
        BY <1>6, <2>1 DEF StepsOf, Starting, Saves
      <3>2. Paired(t) /\ Ends(t)
        BY <2>1 DEF Paired, Ends, Saves
      <3> QED
        BY <1>6, <3>1, <3>2 DEF Shape
    <2> QED
      BY <1>6, <2>1 DEF Scripts, StartSteps, StopSteps
  <1>7. CASE op = "cli_start"
    <2>1. CASE t = <<"cli_look">>
      <3>1. /\ t \in Seq(StepsOf(op)) /\ t # <<>> /\ t[1] \notin Saves
        BY <1>7, <2>1 DEF StepsOf, Starting, Saves
      <3>2. Paired(t) /\ Ends(t)
        BY <2>1 DEF Paired, Ends, Saves
      <3> QED
        BY <1>7, <3>1, <3>2 DEF Shape
    <2> QED
      BY <1>7, <2>1 DEF Scripts, StartSteps, StopSteps
  <1>8. CASE op = "cli_stop"
    <2>1. CASE t = <<"kill", "load", "save_free">>
      <3>1. /\ t \in Seq(StepsOf(op)) /\ t # <<>> /\ t[1] \notin Saves
        BY <1>8, <2>1 DEF StepsOf, Starting, Saves
      <3>2. Paired(t) /\ Ends(t)
        BY <2>1 DEF Paired, Ends, Saves
      <3> QED
        BY <1>8, <3>1, <3>2 DEF Shape
    <2> QED
      BY <1>8, <2>1 DEF Scripts, StartSteps, StopSteps
  <1> QED
    BY <1>1, <1>2, <1>3, <1>4, <1>5, <1>6, <1>7, <1>8 DEF Op, OperatorOp

\* So has what the look at the runtime file puts in the place of a script's rest.
LEMMA StartShape ==
  ASSUME NEW op \in {"connect", "resume", "cli_start"}, NEW t,
         t \in {<<"spawn">>, <<"load", "save_target", "spawn">>,
                StopSteps \o <<"spawn">>, StopSteps \o <<"load", "save_target", "spawn">>},
         op = "cli_start" => t = StopSteps \o <<"spawn">>
  PROVE  Shape(op, t) /\ t[1] \notin Saves
         /\ \A x \in {"host_on", "mailbox_on", "save_run", "save_sync"} : ~Left(t, x)
  <1>1. CASE t = <<"spawn">>
    <2>0. op # "cli_start"
      BY <1>1 DEF StopSteps
    <2>1. /\ t \in Seq(StepsOf(op)) /\ t # <<>> /\ t[1] \notin Saves
      <3>1. t \in Seq({"spawn"})
        BY <1>1
      <3>2. {"spawn"} \subseteq StepsOf(op)
        BY <2>0 DEF StepsOf, Starting
      <3> QED
        BY <1>1, <3>1, <3>2 DEF Saves
    <2>2. Paired(t) /\ Ends(t)
      BY <1>1 DEF Paired, Ends, Saves
    <2>3. \A x \in {"host_on", "mailbox_on", "save_run", "save_sync"} : ~Left(t, x)
      BY <1>1 DEF Left
    <2>4. ResumeOrder(t)
      BY <2>3 DEF ResumeOrder, Leads, Bars, Left
    <2>5. ConnectOrder(t)
      BY <2>1, <2>3 DEF ConnectOrder, Leads, Bars, Left
    <2> QED
      BY <2>1, <2>2, <2>3, <2>4, <2>5 DEF Shape
  <1>2. CASE t = <<"load", "save_target", "spawn">>
    <2>0. op # "cli_start"
      BY <1>2 DEF StopSteps
    <2>1. /\ t \in Seq(StepsOf(op)) /\ t # <<>> /\ t[1] \notin Saves
      <3>1. t \in Seq({"load", "save_target", "spawn"})
        BY <1>2
      <3>2. {"load", "save_target", "spawn"} \subseteq StepsOf(op)
        BY <2>0 DEF StepsOf, Starting
      <3> QED
        BY <1>2, <3>1, <3>2 DEF Saves
    <2>2. Paired(t) /\ Ends(t)
      BY <1>2 DEF Paired, Ends, Saves
    <2>3. \A x \in {"host_on", "mailbox_on", "save_run", "save_sync"} : ~Left(t, x)
      BY <1>2 DEF Left
    <2>4. ResumeOrder(t)
      BY <2>3 DEF ResumeOrder, Leads, Bars, Left
    <2>5. ConnectOrder(t)
      BY <2>1, <2>3 DEF ConnectOrder, Leads, Bars, Left
    <2> QED
      BY <2>1, <2>2, <2>3, <2>4, <2>5 DEF Shape
  <1>3. CASE t = <<"load", "save_free", "spawn">>
    <2>1. /\ t \in Seq(StepsOf(op)) /\ t # <<>> /\ t[1] \notin Saves
      <3>1. t \in Seq({"load", "save_free", "spawn"})
        BY <1>3
      <3>2. {"load", "save_free", "spawn"} \subseteq StepsOf(op)
        BY DEF StepsOf, Starting
      <3> QED
        BY <1>3, <3>1, <3>2 DEF Saves
    <2>2. Paired(t) /\ Ends(t)
      BY <1>3 DEF Paired, Ends, Saves
    <2>3. \A x \in {"host_on", "mailbox_on", "save_run", "save_sync"} : ~Left(t, x)
      BY <1>3 DEF Left
    <2>4. ResumeOrder(t)
      BY <2>3 DEF ResumeOrder, Leads, Bars, Left
    <2>5. ConnectOrder(t)
      BY <2>1, <2>3 DEF ConnectOrder, Leads, Bars, Left
    <2> QED
      BY <2>1, <2>2, <2>3, <2>4, <2>5 DEF Shape
  <1>4. CASE t = <<"load", "save_free", "load", "save_target", "spawn">>
    <2>0. op # "cli_start"
      BY <1>4 DEF StopSteps
    <2>1. /\ t \in Seq(StepsOf(op)) /\ t # <<>> /\ t[1] \notin Saves
      <3>1. t \in Seq({"load", "save_free", "save_target", "spawn"})
        BY <1>4
      <3>2. {"load", "save_free", "save_target", "spawn"} \subseteq StepsOf(op)
        BY <2>0 DEF StepsOf, Starting
      <3> QED
        BY <1>4, <3>1, <3>2 DEF Saves
    <2>2. Paired(t) /\ Ends(t)
      BY <1>4 DEF Paired, Ends, Saves
    <2>3. \A x \in {"host_on", "mailbox_on", "save_run", "save_sync"} : ~Left(t, x)
      BY <1>4 DEF Left
    <2>4. ResumeOrder(t)
      BY <2>3 DEF ResumeOrder, Leads, Bars, Left
    <2>5. ConnectOrder(t)
      BY <2>1, <2>3 DEF ConnectOrder, Leads, Bars, Left
    <2> QED
      BY <2>1, <2>2, <2>3, <2>4, <2>5 DEF Shape
  <1> QED
    BY <1>1, <1>2, <1>3, <1>4 DEF StopSteps

-----------------------------------------------------------------------------
(* The invariant. *)

\* Files whose leases are among the first c.
FilesUpTo(c) == {d \in Db : Sound(d) /\ \A a \in Account : d.lease[a] <= c}

Hosts == [desired : [User -> {"none", "RUNNING", "STOPPED"}],
          gen : [User -> 0 .. MaxGen], active : SUBSET User]
Daemons == [pc : {"off", "boot", "idle", "claim", "renew", "dead"},
            wid : Account \cup {Nobody}, polls : BOOLEAN, token : Nat,
            snap : Db \cup {Nobody}]
Users == User \cup {Operator}

DeployType ==
    /\ hosted \in Hosts
    /\ flag \in BOOLEAN /\ lost \in BOOLEAN
    /\ widfile \in Account \cup {Nobody}
    /\ runtime \in [pid : Process \cup {Nobody}, wid : Account \cup {Nobody}]
    /\ proc \in [Process -> Daemons]
    /\ session \in [Users -> Script \cup {Nobody}]
    /\ live \subseteq 1 .. claims
    /\ claims \in 0 .. MaxClaims /\ ops \in 0 .. MaxOps /\ faults \in 0 .. MaxFaults
    /\ ended \in [User -> {"no"} \cup Ending]

FileInv == db \in FilesUpTo(claims)

\* A daemon's snapshot is a file, and its worker ran in the one it claims from.
GoodDaemon(d, c) ==
    /\ d.token <= c
    /\ d.snap \in FilesUpTo(c) \cup {Nobody}
    /\ d.pc \in {"idle", "claim", "renew"} => d.wid \in Account
    /\ d.pc \in {"claim", "renew"} => d.snap \in FilesUpTo(c)
    /\ d.pc = "claim" => d.wid \in d.snap.run
DaemonInv == \A p \in Process : GoodDaemon(proc[p], claims)

\* A script's steps have their shape, and it has read the file when it saves it.
GoodScript(u, s, c) ==
    /\ s.op \in (IF u = Operator THEN OperatorOp ELSE Op)
    /\ Shape(s.op, s.todo)
    /\ s.snap \in FilesUpTo(c) \cup {Nobody}
    /\ s.todo[1] \in Saves => s.snap \in FilesUpTo(c)
ScriptInv == \A u \in Users : session[u] # Nobody => GoodScript(u, session[u], claims)

\* An account has a generation, a connected mailbox has an account, and a script
\* that makes an account is at its first step.
GoodAccount(u) ==
    /\ HasAccount(u) => hosted.gen[u] >= 1
    /\ u \in hosted.active => HasAccount(u)
    /\ (session[u] # Nobody /\ session[u].op \in {"connect", "resume"} /\ ~HasAccount(u)) =>
          /\ session[u].op = "connect" /\ session[u].todo = ConnectScript
          /\ hosted.gen[u] < MaxGen
AccountInv == \A u \in User : GoodAccount(u)

DeployInv == DeployType /\ FileInv /\ DaemonInv /\ ScriptInv /\ AccountInv

LEMMA FilesGrow ==
  ASSUME NEW c \in Nat, NEW d \in Nat, c <= d
  PROVE  FilesUpTo(c) \subseteq FilesUpTo(d)
  BY DEF FilesUpTo, Db

LEMMA NoDbIsFile == NoDb \in FilesUpTo(0)
  BY DeploymentAssumption DEF NoDb, FilesUpTo, Db, Sound, Account

LEMMA DeployInit == Init => DeployInv
  <1> SUFFICES ASSUME Init PROVE DeployInv
    OBVIOUS
  <1>1. DeployType
    <2>1. Down \in Daemons
      BY DEF Down, Daemons
    <2>2. hosted \in Hosts
      BY DeploymentAssumption DEF Init, Hosts
    <2>3. claims \in 0 .. MaxClaims /\ ops \in 0 .. MaxOps /\ faults \in 0 .. MaxFaults
      BY DeploymentAssumption DEF Init
    <2>4. proc \in [Process -> Daemons]
      BY <2>1 DEF Init
    <2>5. session \in [Users -> Script \cup {Nobody}]
      BY DEF Init, Users
    <2> QED
      BY <2>2, <2>3, <2>4, <2>5 DEF Init, DeployType
  <1>2. FileInv
    BY NoDbIsFile DEF Init, FileInv
  <1>3. DaemonInv
    BY DEF Init, DaemonInv, GoodDaemon, Down
  <1>4. ScriptInv
    BY DEF Init, ScriptInv, Users
  <1>5. AccountInv
    BY DEF Init, AccountInv, GoodAccount, HasAccount
  <1> QED
    BY <1>1, <1>2, <1>3, <1>4, <1>5 DEF DeployInv

-----------------------------------------------------------------------------
(* A step of a script, as far as the script goes. *)

\* What a step of u's script leaves of the scripts.
Session(u) ==
    /\ session' \in [Users -> Script \cup {Nobody}]
    /\ ended' \in [User -> {"no"} \cup Ending]
    /\ ScriptInv'
    /\ session'[u] # Nobody => session'[u].op = session[u].op
    /\ \A v \in Users \ {u} : session'[v] = session[v]
    /\ \A v \in User \ {u} : ended'[v] = ended[v]

\* A script record with other steps left is one.
LEMMA WithTodo ==
  ASSUME NEW s \in Script, NEW t \in Seq(Step)
  PROVE  LET r == [s EXCEPT !.todo = t]
         IN  /\ r \in Script /\ r # Nobody
             /\ r.todo = t /\ r.op = s.op /\ r.snap = s.snap /\ r.target = s.target
  BY DeploymentAssumption DEF Script

LEMMA WithSnap ==
  ASSUME NEW s \in Script, NEW d \in Db \cup {Nobody}
  PROVE  LET r == [s EXCEPT !.snap = d]
         IN  /\ r \in Script /\ r.todo = s.todo /\ r.op = s.op /\ r.snap = d
             /\ r.target = s.target
  BY DEF Script

LEMMA WithTarget ==
  ASSUME NEW s \in Script, NEW a \in Account \cup {Nobody}
  PROVE  LET r == [s EXCEPT !.target = a]
         IN  /\ r \in Script /\ r.todo = s.todo /\ r.op = s.op /\ r.snap = s.snap
             /\ r.target = a
  BY DEF Script

LEMMA ShapeSteps ==
  ASSUME NEW op \in Op \cup OperatorOp, NEW t, Shape(op, t)
  PROVE  /\ t \in Seq(Step) /\ t # <<>> /\ Len(t) \in Nat \ {0} /\ Head(t) = t[1]
         /\ t[1] \in StepsOf(op) /\ Tail(t) \in Seq(Step)
  BY StepsAre DEF Shape

LEMMA Continues ==
  ASSUME DeployInv, claims' = claims, NEW u \in Users, session[u] # Nobody,
         NEW s \in Script, s.op = session[u].op, s.snap \in FilesUpTo(claims) \cup {Nobody},
         NEW rest, rest # <<>> => Shape(s.op, rest)
                                  /\ (rest[1] \in Saves => s.snap \in FilesUpTo(claims)),
         Continue(u, s, rest)
  PROVE  /\ Session(u)
         /\ rest = <<>> => session'[u] = Nobody
         /\ rest # <<>> => session'[u] # Nobody /\ session'[u].todo = rest
                           /\ session'[u].snap = s.snap
  <1>1. /\ session \in [Users -> Script \cup {Nobody}] /\ ended \in [User -> {"no"} \cup Ending]
        /\ \A v \in Users : session[v] # Nobody => GoodScript(v, session[v], claims)
    BY DEF DeployInv, DeployType, ScriptInv
  <1>2. s.op \in (IF u = Operator THEN OperatorOp ELSE Op) /\ s.op \in Op \cup OperatorOp
    BY <1>1 DEF GoodScript
  <1>3. CASE rest = <<>>
    <2>1. /\ session' = [session EXCEPT ![u] = Nobody]
          /\ ended' = IF s.op \in Ending THEN [ended EXCEPT ![u] = s.op] ELSE ended
      BY <1>3 DEF Continue
    <2>2. session' \in [Users -> Script \cup {Nobody}] /\ session'[u] = Nobody
          /\ \A v \in Users \ {u} : session'[v] = session[v]
      BY <1>1, <2>1
    <2>3. ended' \in [User -> {"no"} \cup Ending] /\ \A v \in User \ {u} : ended'[v] = ended[v]
      BY <1>1, <2>1
    <2>4. ScriptInv'
      BY <1>1, <2>2 DEF ScriptInv
    <2> QED
      BY <1>3, <2>2, <2>3, <2>4 DEF Session
  <1>4. CASE rest # <<>>
    <2> DEFINE new == [s EXCEPT !.todo = rest]
    <2>1. session' = [session EXCEPT ![u] = new] /\ ended' = ended
      BY <1>4 DEF Continue
    <2>2. /\ new \in Script /\ new # Nobody
          /\ new.todo = rest /\ new.op = s.op /\ new.snap = s.snap
      BY <1>2, <1>4, WithTodo, ShapeSteps
    <2> HIDE DEF new
    <2>3. session' \in [Users -> Script \cup {Nobody}] /\ session'[u] = new
          /\ \A v \in Users \ {u} : session'[v] = session[v]
      BY <1>1, <2>1, <2>2
    <2>4. GoodScript(u, new, claims)
      BY <1>2, <1>4, <2>2 DEF GoodScript
    <2>5. ScriptInv'
      BY <1>1, <2>3, <2>4 DEF ScriptInv
    <2> QED
      BY <1>1, <1>4, <2>1, <2>2, <2>3, <2>5 DEF Session
  <1> QED
    BY <1>3, <1>4

\* The step at the head of a script.
LEMMA AtHead ==
  ASSUME DeployInv, NEW u \in Users, session[u] # Nobody
  PROVE  /\ session[u] \in Script /\ session[u].op \in Op \cup OperatorOp
         /\ u = Operator => session[u].op \in OperatorOp
         /\ u \in User => session[u].op \in Op
         /\ GoodScript(u, session[u], claims) /\ Shape(session[u].op, session[u].todo)
         /\ Head(session[u].todo) = session[u].todo[1]
         /\ session[u].todo[1] \in StepsOf(session[u].op)
         /\ session[u].todo \in Seq(Step) /\ session[u].todo # <<>>
  <1>1. session[u] \in Script /\ GoodScript(u, session[u], claims)
    BY DEF DeployInv, DeployType, ScriptInv
  <1> QED
    BY <1>1, ShapeSteps, DeploymentAssumption DEF GoodScript

\* After a step that is no load comes no save.
LEMMA RestOf ==
  ASSUME DeployInv, NEW u \in Users, session[u] # Nobody, Remaining(u) # <<>>
  PROVE  /\ Shape(session[u].op, Remaining(u))
         /\ session[u].todo[1] # "load" => Remaining(u)[1] \notin Saves
         /\ session[u].todo[1] = "load" => Remaining(u)[1] \in Saves
  <1>1. Shape(session[u].op, session[u].todo) /\ session[u].op \in Op \cup OperatorOp
    BY AtHead
  <1>2. Shape(session[u].op, Remaining(u))
    BY <1>1, TailShape DEF Remaining
  <1>3. session[u].todo \in Seq(Step) /\ session[u].todo # <<>>
    BY AtHead
  <1>4. Remaining(u)[1] = session[u].todo[2] /\ Len(session[u].todo) \in Nat
        /\ Len(session[u].todo) >= 2
    BY <1>3 DEF Remaining
  <1>5. Paired(session[u].todo)
    BY <1>1 DEF Shape
  <1>6. session[u].todo[1] = "load" => session[u].todo[2] \in Saves
    BY <1>4, <1>5 DEF Paired
  <1>7. session[u].todo[2] \in Saves => session[u].todo[2 - 1] = "load"
    BY <1>4, <1>5 DEF Paired
  <1> QED
    BY <1>2, <1>4, <1>6, <1>7

LEMMA Advances ==
  ASSUME DeployInv, claims' = claims, NEW u \in Users, session[u] # Nobody,
         NEW s \in Script, s.op = session[u].op, s.snap \in FilesUpTo(claims) \cup {Nobody},
         session[u].todo[1] = "load" => s.snap \in FilesUpTo(claims),
         Continue(u, s, Remaining(u))
  PROVE  /\ Session(u)
         /\ Remaining(u) = <<>> => session'[u] = Nobody
         /\ Remaining(u) # <<>> => session'[u] # Nobody /\ session'[u].todo = Remaining(u)
                                   /\ session'[u].snap = s.snap
  BY RestOf, Continues

\* A step that only goes on.
LEMMA AdvanceSession ==
  ASSUME DeployInv, claims' = claims, NEW u \in Users, session[u] # Nobody,
         session[u].todo[1] \notin Saves, session[u].todo[1] # "load", Advance(u)
  PROVE  /\ Session(u)
         /\ Remaining(u) = <<>> => session'[u] = Nobody
         /\ Remaining(u) # <<>> => session'[u] # Nobody /\ session'[u].todo = Remaining(u)
  BY AtHead, Advances DEF Advance, GoodScript

LEMMA SaveSession ==
  ASSUME DeployInv, NEW u \in Users, NEW name \in Saves, NEW new, NEW changes,
         Save(u, name, new, changes)
  PROVE  /\ Session(u) /\ session[u] # Nobody /\ session[u].todo[1] = name
         /\ session[u].snap \in FilesUpTo(claims)
         /\ Remaining(u) = <<>> => session'[u] = Nobody
         /\ Remaining(u) # <<>> => session'[u] # Nobody /\ session'[u].todo = Remaining(u)
                                   /\ session'[u].snap = Nobody
  <1> DEFINE s == [session[u] EXCEPT !.snap = Nobody]
  <1>1. session[u] # Nobody /\ claims' = claims /\ Head(session[u].todo) = name
        /\ Continue(u, s, Remaining(u))
    BY DEF Save, Takes
  <1>2. session[u] \in Script /\ session[u].todo[1] = name /\ GoodScript(u, session[u], claims)
    BY <1>1, AtHead
  <1>3. s \in Script /\ s.op = session[u].op /\ s.snap = Nobody
    BY <1>2, WithSnap
  <1> HIDE DEF s
  <1>4. name # "load"
    BY DEF Saves
  <1> QED
    BY <1>1, <1>2, <1>3, <1>4, Advances DEF GoodScript

LEMMA LoadSession ==
  ASSUME DeployInv, NEW u \in Users, Load(u)
  PROVE  /\ Session(u) /\ session[u] # Nobody /\ session[u].todo[1] = "load"
         /\ Remaining(u) = <<>> => session'[u] = Nobody
         /\ Remaining(u) # <<>> => session'[u] # Nobody /\ session'[u].todo = Remaining(u)
                                   /\ session'[u].snap = db
  <1> DEFINE s == [session[u] EXCEPT !.snap = db]
  <1>1. session[u] # Nobody /\ claims' = claims /\ Head(session[u].todo) = "load"
        /\ Continue(u, s, Remaining(u))
    BY DEF Load, Takes
  <1>2. db \in FilesUpTo(claims) /\ db \in Db
    BY DEF DeployInv, FileInv, FilesUpTo
  <1>3. session[u] \in Script /\ session[u].todo[1] = "load"
    BY <1>1, AtHead
  <1>4. s \in Script /\ s.op = session[u].op /\ s.snap = db
    BY <1>2, <1>3, WithSnap
  <1> HIDE DEF s
  <1> QED
    BY <1>1, <1>2, <1>3, <1>4, Advances

LEMMA LookSession ==
  ASSUME DeployInv, NEW u \in Users, Look(u)
  PROVE  /\ Session(u) /\ session[u] # Nobody /\ session[u].todo[1] = "look"
         /\ session'[u] # Nobody =>
               \A x \in {"host_on", "mailbox_on", "save_run", "save_sync"} :
                   ~Left(session'[u].todo, x)
         /\ session'[u] # Nobody => session'[u].todo[1] \notin Saves
  <1> DEFINE t == widfile
             s == [session[u] EXCEPT !.target = t]
             spawn == IF t = Nobody THEN <<"spawn">> ELSE <<"load", "save_target", "spawn">>
             mismatch == t # Nobody /\ runtime.wid # Nobody /\ t # runtime.wid
             rest == IF ~Alive(runtime.pid) THEN spawn
                     ELSE IF mismatch THEN StopSteps \o spawn ELSE <<>>
  <1>1. session[u] # Nobody /\ claims' = claims /\ Head(session[u].todo) = "look"
        /\ Continue(u, s, rest)
    BY DEF Look, Takes
  <1>2. t \in Account \cup {Nobody}
    BY DEF DeployInv, DeployType
  <1>3. session[u] \in Script /\ session[u].todo[1] = "look" /\ GoodScript(u, session[u], claims)
        /\ "look" \in StepsOf(session[u].op) /\ session[u].op \in Op \cup OperatorOp
    BY <1>1, AtHead
  <1>4. s \in Script /\ s.op = session[u].op /\ s.snap = session[u].snap
    BY <1>2, <1>3, WithTarget
  <1>5. session[u].op \in {"connect", "resume"}
    BY <1>3 DEF StepsOf, Op, OperatorOp
  <1>6. rest # <<>> => rest \in {<<"spawn">>, <<"load", "save_target", "spawn">>,
                StopSteps \o <<"spawn">>, StopSteps \o <<"load", "save_target", "spawn">>}
    OBVIOUS
  <1> HIDE DEF s, rest
  <1>7. rest # <<>> => /\ Shape(s.op, rest) /\ rest[1] \notin Saves
                       /\ \A x \in {"host_on", "mailbox_on", "save_run", "save_sync"} :
                              ~Left(rest, x)
    BY <1>4, <1>5, <1>6, StartShape
  <1>8. /\ Session(u)
        /\ rest = <<>> => session'[u] = Nobody
        /\ rest # <<>> => session'[u] # Nobody /\ session'[u].todo = rest
    BY <1>1, <1>3, <1>4, <1>7, Continues DEF GoodScript
  <1> QED
    BY <1>1, <1>3, <1>7, <1>8

LEMMA CliLookSession ==
  ASSUME DeployInv, NEW u \in Users, CliLook(u)
  PROVE  Session(u) /\ session[u] # Nobody /\ session[u].todo[1] = "cli_look"
  <1> DEFINE rest == IF Alive(runtime.pid) THEN <<>> ELSE <<"load", "save_free", "spawn">>
  <1>1. session[u] # Nobody /\ claims' = claims /\ Head(session[u].todo) = "cli_look"
        /\ Continue(u, session[u], rest)
    BY DEF CliLook, Takes
  <1>2. session[u] \in Script /\ session[u].todo[1] = "cli_look"
        /\ GoodScript(u, session[u], claims)
        /\ "cli_look" \in StepsOf(session[u].op) /\ session[u].op \in Op \cup OperatorOp
    BY <1>1, AtHead
  <1>3. session[u].op = "cli_start"
    BY <1>2 DEF StepsOf, Op, OperatorOp, Starting
  <1>4. rest # <<>> => rest = StopSteps \o <<"spawn">>
    BY DEF StopSteps
  <1> HIDE DEF rest
  <1>5. rest # <<>> => Shape(session[u].op, rest) /\ rest[1] \notin Saves
    BY <1>3, <1>4, StartShape
  <1> QED
    BY <1>1, <1>2, <1>5, Continues DEF GoodScript

LEMMA KillSession ==
  ASSUME DeployInv, NEW u \in Users, Kill(u)
  PROVE  Session(u) /\ session[u] # Nobody /\ session[u].todo[1] = "kill" /\ u = Operator
  <1>1. session[u] # Nobody /\ claims' = claims /\ Head(session[u].todo) = "kill"
        /\ (Advance(u) \/ Continue(u, session[u], <<>>))
    BY DEF Kill, Takes
  <1>2. session[u] \in Script /\ session[u].todo[1] = "kill"
        /\ GoodScript(u, session[u], claims)
        /\ "kill" \in StepsOf(session[u].op) /\ session[u].op \in Op \cup OperatorOp
        /\ (u \in User => session[u].op \in Op)
    BY <1>1, AtHead
  <1>3. session[u].op = "cli_stop"
    BY <1>2 DEF StepsOf, Op, OperatorOp, Starting
  <1>4. u = Operator
    BY <1>2, <1>3 DEF Op, Users
  <1>5. Continue(u, session[u], <<>>) => Session(u)
    BY <1>1, <1>2, Continues DEF GoodScript
  <1>6. Advance(u) => Session(u)
    BY <1>1, <1>2, AdvanceSession DEF Saves
  <1> QED
    BY <1>1, <1>2, <1>4, <1>5, <1>6

LEMMA OthersSession ==
  ASSUME DeployInv, NEW u \in Users, LookForOthers(u)
  PROVE  /\ Session(u) /\ session[u] # Nobody /\ session[u].todo[1] = "others"
         /\ Remaining(u) # <<>> => session'[u] # Nobody
         /\ session'[u] # Nobody => /\ session'[u].todo \in {Remaining(u), <<"flag_off">> \o Remaining(u)}
                                    /\ session'[u].todo[1] \notin Saves
  <1> DEFINE rest == (IF OthersActive(u) THEN <<>> ELSE <<"flag_off">>) \o Remaining(u)
             r == Remaining(u)
  <1>1. session[u] # Nobody /\ claims' = claims /\ Head(session[u].todo) = "others"
        /\ Continue(u, session[u], rest)
    BY DEF LookForOthers, Takes
  <1>2. session[u] \in Script /\ session[u].todo[1] = "others"
        /\ GoodScript(u, session[u], claims) /\ session[u].todo \in Seq(Step)
        /\ "others" \in StepsOf(session[u].op) /\ session[u].op \in Op \cup OperatorOp
        /\ session[u].todo # <<>>
    BY <1>1, AtHead
  <1>3. session[u].op \in {"disconnect", "deactivate", "delete"}
    BY <1>2 DEF StepsOf, Op, OperatorOp, Starting
  <1>4. r \in Seq(Step) /\ (r # <<>> => Shape(session[u].op, r) /\ r[1] \notin Saves)
    BY <1>1, <1>2, RestOf DEF Remaining
  <1>5. "flag_off" \in StepsOf(session[u].op)
    BY <1>3 DEF StepsOf
  <1> HIDE DEF r
  <1>6. Shape(session[u].op, <<"flag_off">> \o r)
    BY <1>3, <1>4, <1>5, BeforeShape
  <1>7. (<<"flag_off">> \o r)[1] = "flag_off" /\ <<"flag_off">> \o r # <<>>
    BY <1>4 DEF Step
  <1>8. rest = r \/ rest = <<"flag_off">> \o r
    BY <1>4 DEF r
  <1> HIDE DEF rest
  <1>9. rest # <<>> => Shape(session[u].op, rest) /\ rest[1] \notin Saves
    BY <1>4, <1>6, <1>7, <1>8 DEF Saves
  <1>10. /\ Session(u)
         /\ rest = <<>> => session'[u] = Nobody
         /\ rest # <<>> => session'[u] # Nobody /\ session'[u].todo = rest
    BY <1>1, <1>2, <1>9, Continues DEF GoodScript
  <1> QED
    BY <1>1, <1>2, <1>7, <1>8, <1>9, <1>10 DEF r

LEMMA HiddenSession ==
  ASSUME DeployInv, NEW u \in Users, MailboxHidden(u)
  PROVE  /\ Session(u) /\ session[u] # Nobody /\ session[u].todo[1] = "mailbox_off"
         /\ session[u].op = "disconnect" /\ session'[u] # Nobody
         /\ session'[u].todo = <<"others">> \o (<<"host_delete">> \o Remaining(u))
         /\ Left(Remaining(u), "save_off") /\ Remaining(u) \in Seq(Step)
         /\ session'[u].todo[1] \notin Saves
  <1> DEFINE r == Remaining(u)
             rest == <<"others", "host_delete">> \o r
  <1>1. session[u] # Nobody /\ claims' = claims /\ Head(session[u].todo) = "mailbox_off"
        /\ Continue(u, session[u], rest) /\ session[u].op = "disconnect"
    BY DEF MailboxHidden, Takes
  <1>2. session[u] \in Script /\ session[u].todo[1] = "mailbox_off"
        /\ GoodScript(u, session[u], claims) /\ session[u].todo \in Seq(Step)
        /\ session[u].todo # <<>> /\ Shape(session[u].op, session[u].todo)
    BY <1>1, AtHead
  <1>3. r \in Seq(Step) /\ (r # <<>> => Shape(session[u].op, r) /\ r[1] \notin Saves)
    BY <1>1, <1>2, RestOf DEF Remaining
  <1>4. Left(r, "save_off")
    <2>1. Leads(session[u].todo, "mailbox_off", "save_off")
      BY <1>1, <1>2 DEF Shape, DisconnectOrder
    <2>2. PICK j \in 1 .. Len(session[u].todo) : 1 < j /\ session[u].todo[j] = "save_off"
      BY <1>2, <2>1 DEF Leads
    <2>3. j - 1 \in 1 .. Len(r) /\ r[j - 1] = "save_off"
      BY <1>2, <2>2 DEF Remaining
    <2> QED
      BY <2>3 DEF Left
  <1> DEFINE q == <<"host_delete">> \o r
  <1>5. {"host_delete", "others"} \subseteq StepsOf("disconnect")
    BY DEF StepsOf
  <1>6. rest = <<"others">> \o q
    BY <1>3 DEF Step
  <1> HIDE DEF r, rest
  <1>7. Shape("disconnect", q)
    BY <1>1, <1>3, <1>4, <1>5, BeforeShape
  <1>8. q \in Seq(Step) /\ q[1] = "host_delete"
    BY <1>3 DEF Step
  <1> HIDE DEF q
  <1>9. Shape("disconnect", <<"others">> \o q)
    BY <1>5, <1>7, <1>8, BeforeShape DEF Saves
  <1>10. (<<"others">> \o q)[1] = "others" /\ <<"others">> \o q # <<>>
    BY <1>8 DEF Step
  <1>11. /\ Session(u)
         /\ rest # <<>> => session'[u] # Nobody /\ session'[u].todo = rest
    BY <1>1, <1>2, <1>6, <1>9, <1>10, Continues DEF GoodScript, Saves
  <1> QED
    BY <1>1, <1>2, <1>3, <1>4, <1>6, <1>10, <1>11 DEF r, q, Saves

\* The steps a connect goes on with when its first write of the desired state fails.
ConnectRest == <<"mailbox_on", "host_on", "load", "save_sync", "wid", "flag_on",
                 "flag_on", "look">>

LEMMA ConnectRestIs ==
  /\ Tail(Tail(Tail(ConnectScript))) = ConnectRest
  /\ ConnectRest # <<>> /\ ConnectRest[1] = "mailbox_on" /\ Shape("connect", ConnectRest)
  /\ ~Left(ConnectRest, "save_run")
  <1>1. Tail(Tail(Tail(ConnectScript))) = ConnectRest
    BY DEF ConnectScript, ConnectRest
  <1>2. ConnectRest # <<>> /\ ConnectRest[1] = "mailbox_on" /\ ~Left(ConnectRest, "save_run")
    BY DEF ConnectRest, Left
  <1>3. ConnectRest \in Seq(StepsOf("connect"))
    BY DEF ConnectRest, StepsOf, Starting
  <1>4. Paired(ConnectRest) /\ Ends(ConnectRest)
    BY DEF ConnectRest, Paired, Ends, Saves
  <1>5. ConnectOrder(ConnectRest)
    BY DEF ConnectRest, ConnectOrder, Leads, Bars
  <1> QED
    BY <1>1, <1>2, <1>3, <1>4, <1>5 DEF Shape

HostedSteps == {"host_on", "host_off", "mailbox_on", "mailbox_off", "host_delete"}

LEMMA FailsSession ==
  ASSUME DeployInv, NEW u \in Users, HostedFails(u)
  PROVE  /\ Session(u) /\ session[u] # Nobody /\ session[u].todo[1] \in HostedSteps
         /\ \/ /\ session'[u] = Nobody /\ ended' = ended
               /\ ~(session[u].op = "disconnect" /\ session[u].todo[1] = "host_delete")
               /\ ~(/\ session[u].op = "connect" /\ session[u].todo[1] = "host_on"
                    /\ HasAccount(u))
            \/ /\ session[u].op = "disconnect" /\ session[u].todo[1] = "host_delete"
               /\ session'[u] # Nobody /\ session'[u].todo = Remaining(u)
               /\ Left(Remaining(u), "save_off") /\ session'[u].todo[1] \notin Saves
            \/ /\ session[u].op = "connect" /\ session[u].todo[1] = "host_on"
               /\ session[u].todo = ConnectScript
               /\ session'[u] # Nobody /\ session'[u].todo = ConnectRest
               /\ session'[u].todo[1] \notin Saves
            \/ /\ session[u].op = "connect" /\ session[u].todo[1] = "host_on"
               /\ ~Left(session[u].todo, "mailbox_on")
               /\ session'[u] # Nobody /\ session'[u].todo = Remaining(u)
               /\ Left(Remaining(u), "save_sync") /\ session'[u].todo[1] \notin Saves
  <1> DEFINE rest == Remaining(u)
             again == Takes(u, "host_on") /\ session[u].op = "connect" /\ HasAccount(u)
             resort == Takes(u, "host_delete") /\ session[u].op = "disconnect"
             t == session[u].todo
  <1>1. /\ session[u] # Nobody /\ claims' = claims /\ Head(t) \in HostedSteps
        /\ IF again \/ resort
           THEN Continue(u, session[u],
                         IF "save_run" \in ToSet(rest) THEN Tail(Tail(rest)) ELSE rest)
           ELSE /\ session' = [session EXCEPT ![u] = Nobody]
                /\ UNCHANGED ended
    BY DEF HostedFails, HostedSteps
  <1>2. session[u] \in Script /\ Head(t) = t[1]
        /\ GoodScript(u, session[u], claims) /\ t \in Seq(Step)
        /\ t # <<>> /\ Shape(session[u].op, t) /\ t[1] \in StepsOf(session[u].op)
    BY <1>1, AtHead
  <1>3. rest \in Seq(Step) /\ \A i \in 1 .. Len(t) : i > 1 => t[i] = rest[i - 1] /\ i - 1 \in 1 .. Len(rest)
    BY <1>2 DEF Remaining
  <1>4. t[1] # "load"
    BY <1>1, <1>2 DEF HostedSteps
  <1>5. rest # <<>> => Shape(session[u].op, rest) /\ rest[1] \notin Saves
    BY <1>1, <1>4, RestOf
  <1>6. "save_run" \in ToSet(rest) <=> Left(rest, "save_run")
    BY <1>3 DEF ToSet, Left
  <1>7. CASE ~again /\ ~resort
    <2>1. session' = [session EXCEPT ![u] = Nobody] /\ ended' = ended
      BY <1>1, <1>7
    <2>2. session \in [Users -> Script \cup {Nobody}] /\ ended \in [User -> {"no"} \cup Ending]
          /\ ScriptInv
      BY DEF DeployInv, DeployType
    <2>3. Session(u) /\ session'[u] = Nobody
      BY <1>1, <2>1, <2>2 DEF Session, ScriptInv
    <2> QED
      BY <1>1, <1>2, <1>7, <2>1, <2>3 DEF Takes
  <1>8. CASE resort
    <2>1. session[u].op = "disconnect" /\ t[1] = "host_delete"
      BY <1>2, <1>8 DEF Takes
    <2>2. ~Left(rest, "save_run")
      BY <1>5, <2>1 DEF Shape, StepsOf, Left
    <2>3. Left(rest, "save_off")
      <3>1. Leads(t, "host_delete", "save_off")
        BY <1>2, <2>1 DEF Shape, DisconnectOrder
      <3>2. PICK j \in 1 .. Len(t) : 1 < j /\ t[j] = "save_off"
        BY <1>2, <2>1, <3>1 DEF Leads
      <3> QED
        BY <1>3, <3>2 DEF Left
    <2>4. rest # <<>>
      BY <2>3 DEF Left
    <2>5. Continue(u, session[u], rest)
      BY <1>1, <1>6, <1>8, <2>2
    <2> HIDE DEF rest, t
    <2>6. Session(u) /\ session'[u] # Nobody /\ session'[u].todo = rest
      BY <1>1, <1>2, <1>5, <2>4, <2>5, Continues DEF GoodScript
    <2> QED
      BY <1>1, <1>2, <1>5, <2>1, <2>3, <2>4, <2>6 DEF rest, t
  <1>9. CASE again
    <2>1. session[u].op = "connect" /\ t[1] = "host_on" /\ ConnectOrder(t)
      BY <1>2, <1>9 DEF Takes, Shape
    <2>2. CASE Left(t, "mailbox_on")
      <3>1. t = ConnectScript
        BY <1>2, <2>1, <2>2 DEF ConnectOrder
      <3>2. rest = Tail(ConnectScript) /\ Tail(Tail(rest)) = ConnectRest
        BY <3>1, ConnectRestIs DEF Remaining
      <3>3. "save_run" \in ToSet(rest)
        <4>1. Left(Tail(ConnectScript), "save_run")
          BY DEF ConnectScript, Left
        <4> QED
          BY <1>6, <3>2, <4>1
      <3>4. Continue(u, session[u], ConnectRest)
        BY <1>1, <1>9, <3>2, <3>3
      <3> HIDE DEF rest, t
      <3>5. Session(u) /\ session'[u] # Nobody /\ session'[u].todo = ConnectRest
        BY <1>1, <1>2, <2>1, <3>4, ConnectRestIs, Continues DEF GoodScript, Saves
      <3> QED
        BY <1>1, <1>2, <2>1, <3>1, <3>5, ConnectRestIs DEF t, Saves
    <2>3. CASE ~Left(t, "mailbox_on")
      <3>1. ~Left(rest, "save_run")
        <4> SUFFICES ASSUME NEW i \in 1 .. Len(rest), rest[i] = "save_run" PROVE FALSE
          BY DEF Left
        <4>1. i + 1 \in 1 .. Len(t) /\ t[i + 1] = "save_run"
          BY <1>2 DEF Remaining
        <4> QED
          BY <2>1, <2>3, <4>1 DEF ConnectOrder, Leads, Left
      <3>2. Left(rest, "save_sync")
        <4>1. PICK j \in 1 .. Len(t) : 1 < j /\ t[j] = "save_sync"
          BY <1>2, <2>1 DEF Leads, ConnectOrder
        <4> QED
          BY <1>3, <4>1 DEF Left
      <3>3. rest # <<>>
        BY <3>2 DEF Left
      <3>4. Continue(u, session[u], rest)
        BY <1>1, <1>6, <1>9, <3>1
      <3> HIDE DEF rest, t
      <3>5. Session(u) /\ session'[u] # Nobody /\ session'[u].todo = rest
        BY <1>1, <1>2, <1>5, <3>3, <3>4, Continues DEF GoodScript
      <3> QED
        BY <1>1, <1>2, <1>5, <2>1, <2>3, <3>2, <3>3, <3>5 DEF rest, t
    <2> QED
      BY <2>2, <2>3
  <1> QED
    BY <1>7, <1>8, <1>9

LEMMA MailboxOnSession ==
  ASSUME DeployInv, NEW u \in Users, MailboxOn(u)
  PROVE  /\ Session(u) /\ session[u] # Nobody /\ session[u].todo[1] = "mailbox_on"
         /\ session[u].op = "connect" /\ u \in User /\ ended'[u] = "no"
         /\ session'[u] # Nobody /\ session'[u].todo = Remaining(u)
         /\ Left(Remaining(u), "save_sync") /\ ~Left(Remaining(u), "mailbox_on")
         /\ session'[u].todo[1] \notin Saves
  <1> DEFINE r == Remaining(u)
             new == [session[u] EXCEPT !.todo = r]
  <1>1. session[u] # Nobody /\ claims' = claims /\ Head(session[u].todo) = "mailbox_on"
        /\ session' = [session EXCEPT ![u].todo = r] /\ ended' = [ended EXCEPT ![u] = "no"]
    BY DEF MailboxOn, Takes
  <1>2. session[u] \in Script /\ session[u].todo[1] = "mailbox_on"
        /\ GoodScript(u, session[u], claims) /\ session[u].todo \in Seq(Step)
        /\ "mailbox_on" \in StepsOf(session[u].op) /\ session[u].op \in Op \cup OperatorOp
        /\ session[u].todo # <<>> /\ Shape(session[u].op, session[u].todo)
        /\ (u = Operator => session[u].op \in OperatorOp)
    BY <1>1, AtHead
  <1>3. session[u].op = "connect"
    BY <1>2 DEF StepsOf, Op, OperatorOp, Starting
  <1>4. u \in User
    BY <1>2, <1>3 DEF Users, OperatorOp
  <1>5. ConnectOrder(session[u].todo)
    BY <1>2, <1>3 DEF Shape
  <1>6. Left(r, "save_sync")
    <2>1. PICK j \in 1 .. Len(session[u].todo) : 1 < j /\ session[u].todo[j] = "save_sync"
      BY <1>2, <1>5 DEF Leads, ConnectOrder
    <2>2. j - 1 \in 1 .. Len(r) /\ r[j - 1] = "save_sync"
      BY <1>2, <2>1 DEF Remaining
    <2> QED
      BY <2>2 DEF Left
  <1>7. ~Left(r, "mailbox_on")
    <2> SUFFICES ASSUME NEW i \in 1 .. Len(r), r[i] = "mailbox_on" PROVE FALSE
      BY DEF Left
    <2>1. i + 1 \in 1 .. Len(session[u].todo) /\ session[u].todo[i + 1] = "mailbox_on"
          /\ 1 \in 1 .. Len(session[u].todo) /\ 1 < i + 1
      BY <1>2 DEF Remaining
    <2>2. Bars(session[u].todo, "mailbox_on", "mailbox_on")
      BY <1>5 DEF ConnectOrder
    <2> QED
      BY <1>2, <2>1, <2>2 DEF Bars
  <1>8. r # <<>>
    BY <1>6 DEF Left
  <1>9. r \in Seq(Step) /\ Shape("connect", r) /\ r[1] \notin Saves
    BY <1>1, <1>2, <1>3, <1>8, RestOf DEF Remaining
  <1>10. session \in [Users -> Script \cup {Nobody}] /\ ended \in [User -> {"no"} \cup Ending]
         /\ ScriptInv
    BY DEF DeployInv, DeployType
  <1> HIDE DEF r
  <1>11. new \in Script /\ new # Nobody /\ new.todo = r /\ new.op = "connect"
         /\ new.snap = session[u].snap
    BY <1>2, <1>3, <1>9, WithTodo
  <1>12. session' = [session EXCEPT ![u] = new]
    BY <1>1
  <1> HIDE DEF new
  <1>13. session' \in [Users -> Script \cup {Nobody}] /\ session'[u] = new
         /\ \A v \in Users \ {u} : session'[v] = session[v]
    BY <1>10, <1>11, <1>12
  <1>14. ended' \in [User -> {"no"} \cup Ending] /\ ended'[u] = "no"
         /\ \A v \in User \ {u} : ended'[v] = ended[v]
    BY <1>1, <1>4, <1>10
  <1>15. GoodScript(u, new, claims)
    BY <1>2, <1>3, <1>9, <1>11 DEF GoodScript
  <1>16. ScriptInv'
    BY <1>1, <1>10, <1>13, <1>15 DEF ScriptInv
  <1> QED
    BY <1>1, <1>2, <1>3, <1>4, <1>6, <1>7, <1>9, <1>11, <1>13, <1>14, <1>16 DEF Session, r

LEMMA BeginSession ==
  ASSUME DeployInv, NEW u \in Users, NEW op \in Op \cup OperatorOp, Begin(u, op)
  PROVE  /\ session[u] = Nobody /\ session'[u] # Nobody /\ session'[u].op = op
         /\ Shape(op, session'[u].todo) /\ session'[u].todo[1] \notin Saves
         /\ op = "pause" => Left(session'[u].todo, "host_off")
         /\ op = "disconnect" => Left(session'[u].todo, "save_off")
         /\ op = "connect" => session'[u].todo = ConnectScript
         /\ u \in User => op \in Op /\ Offered(u, op)
         /\ session' \in [Users -> Script \cup {Nobody}] /\ ended' = ended /\ ScriptInv'
         /\ \A v \in Users \ {u} : session'[v] = session[v]
  <1>1. PICK script \in Scripts(u, op) :
          session' = [session EXCEPT ![u] = [op |-> op, todo |-> script,
                                             snap |-> Nobody, target |-> Nobody]]
    BY DEF Begin
  <1> DEFINE new == [op |-> op, todo |-> script, snap |-> Nobody, target |-> Nobody]
  <1>2. /\ Shape(op, script) /\ script[1] \notin Saves
        /\ op = "connect" => script = ConnectScript
        /\ op = "pause" => Left(script, "host_off")
        /\ op = "disconnect" => Left(script, "save_off")
    BY BeginShape
  <1>3. script \in Seq(Step)
    BY <1>2, ShapeSteps
  <1>4. new \in Script /\ new.op = op /\ new.todo = script /\ new.snap = Nobody
    BY <1>3 DEF Script
  <1>5. new # Nobody
    BY <1>4, DeploymentAssumption
  <1> HIDE DEF new
  <1>6. /\ session[u] = Nobody /\ ended' = ended /\ claims' = claims
        /\ op \in (IF u = Operator THEN OperatorOp ELSE Op)
        /\ u \in User => op \in Op /\ Offered(u, op)
    BY DeploymentAssumption DEF Begin
  <1>7. session \in [Users -> Script \cup {Nobody}] /\ ScriptInv
    BY DEF DeployInv, DeployType
  <1>8. session' \in [Users -> Script \cup {Nobody}] /\ session'[u] = new
        /\ \A v \in Users \ {u} : session'[v] = session[v]
    BY <1>1, <1>4, <1>7 DEF new
  <1>9. GoodScript(u, new, claims)
    BY <1>2, <1>4, <1>6 DEF GoodScript
  <1>10. ScriptInv'
    BY <1>6, <1>7, <1>8, <1>9 DEF ScriptInv
  <1> QED
    BY <1>2, <1>4, <1>5, <1>6, <1>7, <1>8, <1>10

\* A step that is neither a read nor a write of the JSON file, and puts nothing in
\* the place of the rest.
Plain(u) ==
    \/ HostOn(u) \/ HostOff(u) \/ MailboxOff(u) \/ HostDelete(u)
    \/ WriteWid(u) \/ FlagOn(u) \/ FlagOff(u) \/ \E p \in Process : Spawn(u, p)

Plainly == {"host_on", "host_off", "mailbox_off", "host_delete", "wid", "flag_on",
            "flag_off", "spawn"}

LEMMA PlainSession ==
  ASSUME DeployInv, NEW u \in Users, Plain(u)
  PROVE  /\ Session(u) /\ session[u] # Nobody /\ session[u].todo[1] \in Plainly
         /\ Advance(u) /\ claims' = claims
         /\ Remaining(u) = <<>> => session'[u] = Nobody
         /\ Remaining(u) # <<>> => /\ session'[u] # Nobody /\ session'[u].todo = Remaining(u)
                                   /\ session'[u].todo[1] \notin Saves
  <1>1. session[u] # Nobody /\ claims' = claims /\ Head(session[u].todo) \in Plainly /\ Advance(u)
    BY DEF Plain, Plainly, HostOn, HostOff, MailboxOff, HostDelete, WriteWid, FlagOn,
           FlagOff, Spawn, Takes
  <1>2. session[u].todo[1] \in Plainly
    BY <1>1, AtHead
  <1>3. session[u].todo[1] \notin Saves /\ session[u].todo[1] # "load"
    BY <1>2 DEF Plainly, Saves
  <1>4. Remaining(u) # <<>> => Remaining(u)[1] \notin Saves
    BY <1>1, <1>3, RestOf
  <1> QED
    BY <1>1, <1>2, <1>3, <1>4, AdvanceSession

\* A save of one of the six kinds.
Saving(u) ==
    \/ SaveRun(u) \/ SaveStop(u) \/ SaveSync(u) \/ SaveOff(u) \/ SaveFree(u) \/ SaveTarget(u)

LEMMA SavingSession ==
  ASSUME DeployInv, NEW u \in Users, Saving(u)
  PROVE  /\ Session(u) /\ session[u] # Nobody /\ session[u].todo[1] \in Saves
         /\ session[u].snap \in FilesUpTo(claims)
         /\ Remaining(u) = <<>> => session'[u] = Nobody
         /\ Remaining(u) # <<>> => session'[u] # Nobody /\ session'[u].todo = Remaining(u)
                                   /\ session'[u].todo[1] \notin Saves
  <1>1. PICK name \in Saves : \E new, changes : Save(u, name, new, changes)
    BY DEF Saving, SaveRun, SaveStop, SaveSync, SaveOff, SaveFree, SaveTarget, Saves
  <1>0. PICK new, changes : Save(u, name, new, changes)
    BY <1>1
  <1>2. /\ Session(u) /\ session[u] # Nobody /\ session[u].todo[1] = name
        /\ session[u].snap \in FilesUpTo(claims)
        /\ Remaining(u) = <<>> => session'[u] = Nobody
        /\ Remaining(u) # <<>> => session'[u] # Nobody /\ session'[u].todo = Remaining(u)
    BY <1>0, SaveSession
  <1>3. name # "load"
    BY DEF Saves
  <1>4. Remaining(u) # <<>> => Remaining(u)[1] \notin Saves
    BY <1>2, <1>3, RestOf
  <1> QED
    BY <1>2, <1>4

\* Every step of a script is one of these.
LEMMA ActKinds ==
  ASSUME NEW u, Act(u)
  PROVE  \/ Plain(u) \/ Saving(u) \/ Load(u) \/ MailboxOn(u) \/ MailboxHidden(u)
         \/ HostedFails(u) \/ LookForOthers(u) \/ Look(u) \/ CliLook(u) \/ Kill(u)
  BY DEF Act, Plain, Saving

LEMMA ActSession ==
  ASSUME DeployInv, NEW u \in Users, Act(u)
  PROVE  Session(u) /\ session[u] # Nobody
  BY ActKinds, PlainSession, SavingSession, LoadSession, MailboxOnSession, HiddenSession,
     FailsSession, OthersSession, LookSession, CliLookSession, KillSession

-----------------------------------------------------------------------------
(* The files and the daemons. *)

LEMMA FileIs ==
  ASSUME NEW c \in Nat, NEW d \in FilesUpTo(c)
  PROVE  d \in Db /\ Sound(d) /\ \A a \in Account : d.lease[a] <= c
  BY DEF FilesUpTo

LEMMA DesiredIsFile ==
  ASSUME NEW c \in Nat, NEW d \in FilesUpTo(c), NEW u, NEW running \in BOOLEAN
  PROVE  Desired(d, u, running) \in FilesUpTo(c)
  <1> DEFINE mine == {a \in d.known : Owner(a) = u}
             run == IF running THEN d.run \cup mine ELSE d.run \ mine
             e == [d EXCEPT !.run = run]
  <1>1. d \in Db /\ Sound(d) /\ \A a \in Account : d.lease[a] <= c
    BY FileIs
  <1>2. run \subseteq d.known /\ run \in SUBSET Account
    BY <1>1 DEF Sound, Db
  <1> HIDE DEF run
  <1>3. e \in Db /\ e.known = d.known /\ e.run = run /\ e.lease = d.lease
        /\ e.active = d.active /\ e.usable = d.usable
    BY <1>1, <1>2 DEF Db
  <1>4. Desired(d, u, running) = e
    BY DEF Desired, run
  <1> HIDE DEF e
  <1> QED
    BY <1>1, <1>2, <1>3, <1>4 DEF FilesUpTo, Sound

LEMMA SyncedIsFile ==
  ASSUME NEW c \in Nat, NEW d \in FilesUpTo(c), NEW b \in Account
  PROVE  Synced(d, b) \in FilesUpTo(c)
  <1> DEFINE e == Synced(d, b)
             lease == [d.lease EXCEPT ![b] = 0]
             active == {a \in d.active : Owner(a) # Owner(b)} \cup {b}
  <1>1. d \in Db /\ Sound(d) /\ \A a \in Account : d.lease[a] <= c
    BY FileIs
  <1>2. lease \in [Account -> 0 .. MaxClaims] /\ lease[b] = 0
        /\ \A a \in Account : a # b => lease[a] = d.lease[a]
    BY <1>1, DeploymentAssumption DEF Db
  <1>3. active \subseteq d.active \cup {b} /\ b \in active
        /\ \A a \in active : a # b => Owner(a) # Owner(b)
    OBVIOUS
  <1>4. e.lease = lease /\ e.known = d.known \cup {b} /\ e.run = d.run \cup {b}
        /\ e.active = active /\ e.usable = d.usable \cup {b}
    BY DEF Synced
  <1>5. e = [known |-> d.known \cup {b}, run |-> d.run \cup {b}, lease |-> lease,
             active |-> active, usable |-> d.usable \cup {b}]
    BY DEF Synced
  <1> HIDE DEF lease, active
  <1>6. e \in Db
    BY <1>1, <1>2, <1>3, <1>5 DEF Db
  <1> HIDE DEF e
  <1>7. /\ e.active \subseteq e.usable /\ e.usable \cup e.run \subseteq e.known
        /\ \A a1, a2 \in e.active : Owner(a1) = Owner(a2) => a1 = a2
    BY <1>1, <1>3, <1>4 DEF Sound
  <1>8. \A a1, a2 \in Account :
          e.lease[a1] # 0 => a1 \in e.known /\ (e.lease[a2] = e.lease[a1] => a1 = a2)
    BY <1>1, <1>2, <1>4 DEF Sound
  <1>9. \A a \in Account : e.lease[a] <= c
    BY <1>1, <1>2, <1>4
  <1>10. Sound(e)
    BY <1>7, <1>8 DEF Sound
  <1> QED
    BY <1>6, <1>9, <1>10 DEF FilesUpTo, e

LEMMA DeactivatedIsFile ==
  ASSUME NEW c \in Nat, NEW d \in FilesUpTo(c), NEW u
  PROVE  Deactivated(d, u) \in FilesUpTo(c)
  <1> DEFINE others == {a \in Account : Owner(a) # u}
             lease == [a \in Account |-> IF a \in others THEN d.lease[a] ELSE 0]
             e == [d EXCEPT !.run = d.run \cap others, !.active = d.active \cap others,
                            !.usable = d.usable \cap others, !.lease = lease]
  <1>1. d \in Db /\ Sound(d) /\ \A a \in Account : d.lease[a] <= c
    BY FileIs
  <1>2. lease \in [Account -> 0 .. MaxClaims]
    BY <1>1, DeploymentAssumption DEF Db
  <1>3. \A a \in Account : lease[a] = 0 \/ lease[a] = d.lease[a]
    OBVIOUS
  <1> HIDE DEF lease, others
  <1>4. e \in Db /\ e.known = d.known /\ e.run = d.run \cap others /\ e.lease = lease
        /\ e.active = d.active \cap others /\ e.usable = d.usable \cap others
    BY <1>1, <1>2 DEF Db
  <1>5. Deactivated(d, u) = e
    BY DEF Deactivated, others, lease
  <1> HIDE DEF e
  <1>6. \A a1, a2 \in Account :
          e.lease[a1] # 0 => a1 \in e.known /\ (e.lease[a2] = e.lease[a1] => a1 = a2)
    BY <1>1, <1>3, <1>4 DEF Sound
  <1>7. /\ e.active \subseteq e.usable /\ e.usable \cup e.run \subseteq e.known
        /\ \A a1, a2 \in e.active : Owner(a1) = Owner(a2) => a1 = a2
    BY <1>1, <1>4 DEF Sound
  <1>8. \A a \in Account : e.lease[a] <= c
    BY <1>1, <1>3, <1>4
  <1>9. Sound(e)
    BY <1>6, <1>7 DEF Sound
  <1> QED
    BY <1>4, <1>5, <1>8, <1>9 DEF FilesUpTo

LEMMA ReleasedIsFile ==
  ASSUME NEW c \in Nat, NEW d \in FilesUpTo(c)
  PROVE  Released(d) \in FilesUpTo(c)
  <1> DEFINE e == Released(d)
             lease == [a \in Account |-> 0]
  <1>1. d \in Db /\ Sound(d) /\ \A a \in Account : d.lease[a] <= c
    BY FileIs
  <1>2. lease \in [Account -> 0 .. MaxClaims] /\ \A a \in Account : lease[a] = 0
    BY DeploymentAssumption
  <1> HIDE DEF lease
  <1>3. e \in Db /\ e.known = d.known /\ e.run = d.run /\ e.lease = lease
        /\ e.active = d.active /\ e.usable = d.usable
    BY <1>1, <1>2 DEF Db, Released, lease
  <1> HIDE DEF e
  <1> QED
    BY <1>1, <1>2, <1>3 DEF FilesUpTo, Sound, e

LEMMA TargetedIsFile ==
  ASSUME NEW c \in Nat, NEW d \in FilesUpTo(c), NEW b
  PROVE  Targeted(d, b) \in FilesUpTo(c)
  <1> SUFFICES ASSUME b \in d.known PROVE Targeted(d, b) \in FilesUpTo(c)
    BY DEF Targeted
  <1> DEFINE lease == [d.lease EXCEPT ![b] = 0]
             e == [d EXCEPT !.run = @ \cup {b}, !.lease[b] = 0]
  <1>1. d \in Db /\ Sound(d) /\ \A a \in Account : d.lease[a] <= c
    BY FileIs
  <1>2. b \in Account
    BY <1>1 DEF Db
  <1>3. lease \in [Account -> 0 .. MaxClaims]
        /\ \A a \in Account : lease[a] = 0 \/ lease[a] = d.lease[a]
    BY <1>1, DeploymentAssumption DEF Db
  <1>4. e = [[d EXCEPT !.run = d.run \cup {b}] EXCEPT !.lease = lease]
    OBVIOUS
  <1> HIDE DEF lease
  <1>5. e \in Db /\ e.known = d.known /\ e.run = d.run \cup {b} /\ e.lease = lease
        /\ e.active = d.active /\ e.usable = d.usable
    BY <1>1, <1>2, <1>3, <1>4 DEF Db
  <1>6. Targeted(d, b) = e
    BY DEF Targeted
  <1> HIDE DEF e
  <1>7. \A a1, a2 \in Account :
          e.lease[a1] # 0 => a1 \in e.known /\ (e.lease[a2] = e.lease[a1] => a1 = a2)
    BY <1>1, <1>3, <1>5 DEF Sound
  <1>8. /\ e.active \subseteq e.usable /\ e.usable \cup e.run \subseteq e.known
        /\ \A a1, a2 \in e.active : Owner(a1) = Owner(a2) => a1 = a2
    BY <1>1, <1>5 DEF Sound
  <1>9. \A a \in Account : e.lease[a] <= c
    BY <1>1, <1>3, <1>5
  <1>10. Sound(e)
    BY <1>7, <1>8 DEF Sound
  <1> QED
    BY <1>5, <1>6, <1>9, <1>10 DEF FilesUpTo

\* A claim gives the lease a number no file has yet, to a worker the snapshot knows.
LEMMA ClaimedIsFile ==
  ASSUME NEW c \in Nat, c + 1 <= MaxClaims, NEW d \in FilesUpTo(c), NEW b \in d.run
  PROVE  [d EXCEPT !.lease[b] = c + 1] \in FilesUpTo(c + 1)
  <1> DEFINE lease == [d.lease EXCEPT ![b] = c + 1]
             e == [d EXCEPT !.lease[b] = c + 1]
  <1>1. d \in Db /\ Sound(d) /\ \A a \in Account : d.lease[a] <= c
    BY FileIs
  <1>2. b \in Account /\ b \in d.known
    BY <1>1 DEF Db, Sound
  <1>3. lease \in [Account -> 0 .. MaxClaims] /\ lease[b] = c + 1
        /\ \A a \in Account : a # b => lease[a] = d.lease[a]
    BY <1>1, <1>2, DeploymentAssumption DEF Db
  <1>4. e = [d EXCEPT !.lease = lease]
    OBVIOUS
  <1> HIDE DEF lease
  <1>5. e \in Db /\ e.known = d.known /\ e.run = d.run /\ e.lease = lease
        /\ e.active = d.active /\ e.usable = d.usable
    BY <1>1, <1>3, <1>4 DEF Db
  <1> HIDE DEF e
  <1>6. \A a \in Account : d.lease[a] \in Nat /\ d.lease[a] <= c
    BY <1>1, DeploymentAssumption DEF Db
  <1>7. \A a1, a2 \in Account :
          e.lease[a1] # 0 => a1 \in e.known /\ (e.lease[a2] = e.lease[a1] => a1 = a2)
    BY <1>1, <1>2, <1>3, <1>5, <1>6 DEF Sound
  <1>8. Sound(e)
    BY <1>1, <1>5, <1>7 DEF Sound
  <1>9. \A a \in Account : e.lease[a] <= c + 1
    BY <1>3, <1>5, <1>6
  <1> QED
    BY <1>5, <1>8, <1>9 DEF FilesUpTo, e

\* The account a script is about, past the step that makes it.
LEMMA AccountIs ==
  ASSUME DeployInv, NEW u \in User, HasAccount(u)
  PROVE  AccountOf(u) \in Account /\ Owner(AccountOf(u)) = u
  <1>1. hosted.gen[u] \in 0 .. MaxGen /\ hosted.gen[u] >= 1
    BY DEF DeployInv, DeployType, AccountInv, GoodAccount, Hosts
  <1> QED
    BY <1>1, DeploymentAssumption DEF AccountOf, Account, Owner

\* A connect that writes the worker's files has its account, and so has every script
\* of a user that resumes or connects, but for the first step.
LEMMA PastFirst ==
  ASSUME DeployInv, NEW u \in Users, session[u] # Nobody,
         session[u].todo[1] \in {"wid", "save_sync", "mailbox_on"}
  PROVE  u \in User /\ session[u].op = "connect" /\ HasAccount(u)
  <1>1. /\ session[u].todo[1] \in StepsOf(session[u].op) /\ session[u].op \in Op \cup OperatorOp
        /\ (u = Operator => session[u].op \in OperatorOp)
    BY AtHead
  <1>2. session[u].op = "connect"
    BY <1>1 DEF StepsOf, Op, OperatorOp, Starting
  <1>3. u \in User
    BY <1>1, <1>2 DEF Users, OperatorOp
  <1>4. session[u].todo # ConnectScript
    BY DEF ConnectScript
  <1> QED
    BY <1>2, <1>3, <1>4 DEF DeployInv, AccountInv, GoodAccount

\* The rest of the state after a step.
Rest ==
    /\ flag' \in BOOLEAN /\ lost' \in BOOLEAN
    /\ widfile' \in Account \cup {Nobody}
    /\ runtime' \in [pid : Process \cup {Nobody}, wid : Account \cup {Nobody}]
    /\ proc' \in [Process -> Daemons]
    /\ live' \subseteq 1 .. claims'
    /\ claims' \in 0 .. MaxClaims /\ ops' \in 0 .. MaxOps /\ faults' \in 0 .. MaxFaults
    /\ FileInv' /\ DaemonInv'

\* A step that leaves the file and the daemons alone.
LEMMA SameFiles ==
  ASSUME DeployInv, UNCHANGED <<db, proc, live, claims, runtime, lost>>,
         flag' \in BOOLEAN, widfile' \in Account \cup {Nobody},
         ops' \in 0 .. MaxOps, faults' \in 0 .. MaxFaults
  PROVE  Rest
  BY DEF Rest, DeployInv, DeployType, FileInv, DaemonInv, GoodDaemon

LEMMA SavingFile ==
  ASSUME DeployInv, NEW u \in Users, Saving(u)
  PROVE  db' \in FilesUpTo(claims) /\ lost' \in BOOLEAN
  <1>1. claims \in Nat /\ db \in FilesUpTo(claims) /\ session[u].snap \in FilesUpTo(claims)
        /\ lost \in BOOLEAN
    BY SavingSession DEF DeployInv, DeployType, FileInv
  <1>2. CASE SaveRun(u)
    <2>1. Desired(session[u].snap, u, TRUE) \in FilesUpTo(claims)
      BY <1>1, DesiredIsFile
    <2> QED
      BY <1>1, <1>2, <2>1 DEF SaveRun, Save
  <1>3. CASE SaveStop(u)
    <2>1. Desired(session[u].snap, u, FALSE) \in FilesUpTo(claims)
      BY <1>1, DesiredIsFile
    <2> QED
      BY <1>1, <1>3, <2>1 DEF SaveStop, Save
  <1>4. CASE SaveSync(u)
    <2>1. session[u] # Nobody /\ session[u].todo[1] = "save_sync"
      BY <1>4, AtHead DEF SaveSync, Save, Takes
    <2>2. AccountOf(u) \in Account
      BY <2>1, PastFirst, AccountIs
    <2>3. Synced(session[u].snap, AccountOf(u)) \in FilesUpTo(claims)
      BY <1>1, <2>2, SyncedIsFile
    <2> QED
      BY <1>1, <1>4, <2>3 DEF SaveSync, Save
  <1>5. CASE SaveOff(u)
    <2>1. Deactivated(session[u].snap, u) \in FilesUpTo(claims)
      BY <1>1, DeactivatedIsFile
    <2> QED
      BY <1>1, <1>5, <2>1 DEF SaveOff, Save
  <1>6. CASE SaveFree(u)
    <2>1. Released(session[u].snap) \in FilesUpTo(claims)
      BY <1>1, ReleasedIsFile
    <2> QED
      BY <1>1, <1>6, <2>1 DEF SaveFree, Save
  <1>7. CASE SaveTarget(u)
    <2>1. Targeted(session[u].snap, session[u].target) \in FilesUpTo(claims)
      BY <1>1, TargetedIsFile
    <2> QED
      BY <1>1, <1>7, <2>1 DEF SaveTarget, Save
  <1> QED
    BY <1>2, <1>3, <1>4, <1>5, <1>6, <1>7 DEF Saving

LEMMA ActRest ==
  ASSUME DeployInv, NEW u \in Users, Act(u)
  PROVE  Rest
  <1>1. /\ flag \in BOOLEAN /\ widfile \in Account \cup {Nobody}
        /\ runtime \in [pid : Process \cup {Nobody}, wid : Account \cup {Nobody}]
        /\ proc \in [Process -> Daemons]
        /\ live \subseteq 1 .. claims
        /\ claims \in 0 .. MaxClaims /\ ops \in 0 .. MaxOps /\ faults \in 0 .. MaxFaults
    BY DEF DeployInv, DeployType
  <1>2. /\ Down \in Daemons /\ Down.token = 0 /\ Down.snap = Nobody
        /\ Down.pc = "off"
    BY DEF Down, Daemons
  <1>3. CASE HostOn(u) \/ HostOff(u) \/ MailboxOff(u) \/ HostDelete(u)
    BY <1>1, <1>3, SameFiles DEF HostOn, HostOff, MailboxOff, HostDelete
  <1>4. CASE FlagOn(u) \/ FlagOff(u)
    BY <1>1, <1>4, SameFiles DEF FlagOn, FlagOff
  <1>5. CASE WriteWid(u)
    <2>1. session[u] # Nobody /\ session[u].todo[1] = "wid"
      BY <1>5, AtHead DEF WriteWid, Takes
    <2>2. AccountOf(u) \in Account
      BY <2>1, PastFirst, AccountIs
    <2> QED
      BY <1>1, <1>5, <2>2, SameFiles DEF WriteWid
  <1>6. ASSUME NEW p \in Process, Spawn(u, p) PROVE Rest
    <2> DEFINE reaped == [q \in Process |->
                           IF u # Operator /\ proc[q].pc = "dead" THEN Down ELSE proc[q]]
               new == [Down EXCEPT !.pc = "boot", !.polls = u # Operator,
                                   !.wid = session[u].target]
    <2>1. session[u] # Nobody /\ proc' = [reaped EXCEPT ![p] = new]
          /\ UNCHANGED <<db, flag, widfile, runtime, live, claims, ops, faults, lost>>
      BY <1>6 DEF Spawn, Takes
    <2>2. session[u].target \in Account \cup {Nobody}
      BY <2>1, AtHead DEF Script
    <2>3. new \in Daemons /\ new.token = 0 /\ new.pc = "boot" /\ new.snap = Nobody
      BY <2>2 DEF Down, Daemons
    <2>4. reaped \in [Process -> Daemons] /\ \A q \in Process : reaped[q] \in {proc[q], Down}
      BY <1>1, <1>2
    <2> HIDE DEF new, reaped
    <2>5. proc' \in [Process -> Daemons] /\ \A q \in Process : proc'[q] \in {proc[q], Down, new}
      BY <2>1, <2>3, <2>4
    <2>6. claims \in Nat
      BY <1>1
    <2>7. GoodDaemon(Down, claims) /\ GoodDaemon(new, claims)
      BY <1>2, <2>3, <2>6 DEF GoodDaemon
    <2>8. DaemonInv'
      BY <2>1, <2>5, <2>7 DEF DeployInv, DaemonInv
    <2> QED
      BY <1>1, <2>1, <2>5, <2>8 DEF Rest, DeployInv, DeployType, FileInv
  <1>7. CASE Plain(u)
    BY <1>3, <1>4, <1>5, <1>6, <1>7 DEF Plain
  <1>8. CASE Saving(u)
    <2>1. UNCHANGED <<hosted, flag, widfile, runtime, proc, live, claims, ops, faults>>
      BY <1>8 DEF Saving, SaveRun, SaveStop, SaveSync, SaveOff, SaveFree, SaveTarget, Save
    <2>2. db' \in FilesUpTo(claims) /\ lost' \in BOOLEAN
      BY <1>8, SavingFile
    <2> QED
      BY <1>1, <2>1, <2>2 DEF Rest, DeployInv, FileInv, DaemonInv, GoodDaemon
  <1>9. CASE Load(u) \/ MailboxOn(u) \/ MailboxHidden(u) \/ LookForOthers(u) \/ Look(u)
             \/ CliLook(u)
    BY <1>1, <1>9, SameFiles DEF Load, MailboxOn, MailboxHidden, LookForOthers, Look, CliLook
  <1>10. CASE HostedFails(u)
    BY <1>1, <1>10, SameFiles, DeploymentAssumption DEF HostedFails
  <1>11. CASE Kill(u)
    <2>1. UNCHANGED <<hosted, db, flag, widfile, live, claims, ops, faults, lost>>
      BY <1>11 DEF Kill
    <2>2. CASE UNCHANGED <<proc, runtime>>
      BY <1>1, <2>1, <2>2, SameFiles
    <2>3. CASE /\ Alive(runtime.pid)
               /\ proc' = [proc EXCEPT ![runtime.pid] = IF @.pc = "dead" THEN @ ELSE Down]
               /\ runtime' = [runtime EXCEPT !.pid = Nobody]
      <3>1. runtime.pid \in Process
        BY <1>1, <2>3 DEF Alive
      <3>2. proc' \in [Process -> Daemons] /\ \A q \in Process : proc'[q] \in {proc[q], Down}
        BY <1>1, <1>2, <2>3, <3>1
      <3>3. claims \in Nat
        BY <1>1
      <3>4. GoodDaemon(Down, claims)
        BY <1>2, <3>3 DEF GoodDaemon
      <3>5. DaemonInv'
        BY <2>1, <3>2, <3>4 DEF DeployInv, DaemonInv
      <3>6. runtime' \in [pid : Process \cup {Nobody}, wid : Account \cup {Nobody}]
        BY <1>1, <2>3
      <3> QED
        BY <1>1, <2>1, <3>2, <3>5, <3>6 DEF Rest, DeployInv, DeployType, FileInv
    <2> QED
      BY <1>11, <2>2, <2>3 DEF Kill
  <1> QED
    BY <1>7, <1>8, <1>9, <1>10, <1>11, ActKinds

\* The daemon's new record.
LEMMA DaemonGoes ==
  ASSUME DeployInv, NEW p \in Process, NEW d \in Daemons, Go(p, d),
         NEW c \in Nat, claims' = c, claims <= c, GoodDaemon(d, c)
  PROVE  proc' \in [Process -> Daemons] /\ DaemonInv'
  <1>1. proc \in [Process -> Daemons] /\ claims \in Nat /\ DaemonInv
    BY DEF DeployInv, DeployType
  <1>2. proc' \in [Process -> Daemons] /\ proc'[p] = d
        /\ \A q \in Process \ {p} : proc'[q] = proc[q]
    BY <1>1 DEF Go
  <1>3. FilesUpTo(claims) \subseteq FilesUpTo(c)
    BY <1>1, FilesGrow
  <1>4. ASSUME NEW q \in Process PROVE GoodDaemon(proc[q], c)
    <2>1. proc[q].token \in Nat
      BY <1>1 DEF Daemons
    <2> QED
      BY <1>1, <1>3, <2>1 DEF DaemonInv, GoodDaemon
  <1> QED
    BY <1>2, <1>4 DEF DaemonInv

LEMMA DaemonRest ==
  ASSUME DeployInv, NEW p \in Process, Daemon(p)
  PROVE  Rest /\ claims <= claims'
  <1>1. /\ flag \in BOOLEAN /\ lost \in BOOLEAN /\ widfile \in Account \cup {Nobody}
        /\ runtime \in [pid : Process \cup {Nobody}, wid : Account \cup {Nobody}]
        /\ proc \in [Process -> Daemons] /\ proc[p] \in Daemons
        /\ live \subseteq 1 .. claims
        /\ claims \in 0 .. MaxClaims /\ ops \in 0 .. MaxOps /\ faults \in 0 .. MaxFaults
        /\ claims \in Nat
    BY DEF DeployInv, DeployType
  <1>2. db \in FilesUpTo(claims) /\ db \in Db /\ GoodDaemon(proc[p], claims)
    BY DEF DeployInv, FileInv, DaemonInv, FilesUpTo
  <1>3. CASE Boot(p)
    <2>1. PICK a \in IF proc[p].wid # Nobody THEN {proc[p].wid}
                     ELSE IF widfile # Nobody THEN {widfile} ELSE db.known :
            /\ Go(p, [proc[p] EXCEPT !.pc = "idle", !.wid = a, !.polls = @ \/ flag])
            /\ runtime' = [pid |-> p, wid |-> a]
      BY <1>3 DEF Boot
    <2> DEFINE d == [proc[p] EXCEPT !.pc = "idle", !.wid = a, !.polls = @ \/ flag]
    <2>2. a \in Account
      BY <1>1, <1>2, <2>1 DEF Db, Daemons
    <2>3. d \in Daemons /\ d.pc = "idle" /\ d.wid = a /\ d.token = proc[p].token
          /\ d.snap = proc[p].snap
      BY <1>1, <2>2 DEF Daemons
    <2> HIDE DEF d
    <2>4. GoodDaemon(d, claims) /\ Go(p, d)
      BY <1>2, <2>1, <2>2, <2>3 DEF GoodDaemon, d
    <2>5. UNCHANGED <<hosted, db, flag, widfile, session, live, claims, ops, faults, lost, ended>>
      BY <1>3 DEF Boot
    <2>6. proc' \in [Process -> Daemons] /\ DaemonInv'
      BY <1>1, <2>3, <2>4, <2>5, DaemonGoes
    <2>7. runtime' \in [pid : Process \cup {Nobody}, wid : Account \cup {Nobody}]
      BY <2>1, <2>2
    <2> QED
      BY <1>1, <1>2, <2>5, <2>6, <2>7 DEF Rest, FileInv
  <1>4. CASE ClaimLoad(p)
    <2> DEFINE d == [proc[p] EXCEPT !.pc = "claim", !.snap = db]
    <2>1. Go(p, d) /\ proc[p].pc = "idle" /\ proc[p].wid \in db.run
          /\ UNCHANGED <<hosted, db, flag, widfile, runtime, session, live, claims, ops, faults,
                         lost, ended>>
      BY <1>4 DEF ClaimLoad, Claimable
    <2>2. d \in Daemons /\ d.pc = "claim" /\ d.wid = proc[p].wid /\ d.token = proc[p].token
          /\ d.snap = db
      BY <1>1, <1>2 DEF Daemons
    <2> HIDE DEF d
    <2>3. GoodDaemon(d, claims)
      BY <1>2, <2>1, <2>2 DEF GoodDaemon
    <2>4. proc' \in [Process -> Daemons] /\ DaemonInv'
      BY <1>1, <2>1, <2>2, <2>3, DaemonGoes
    <2> QED
      BY <1>1, <1>2, <2>1, <2>4 DEF Rest, FileInv
  <1>5. CASE ClaimSave(p)
    <2> DEFINE c == claims + 1
               d == [proc[p] EXCEPT !.pc = "idle", !.snap = Nobody, !.token = c]
               e == [proc[p].snap EXCEPT !.lease[proc[p].wid] = c]
    <2>1. /\ proc[p].pc = "claim" /\ claims < MaxClaims /\ claims' = c
          /\ live' = live \cup {c} /\ db' = e /\ lost' = (lost \/ proc[p].snap # db)
          /\ Go(p, d)
          /\ UNCHANGED <<hosted, flag, widfile, runtime, session, ops, faults, ended>>
      BY <1>5 DEF ClaimSave, Write
    <2>2. c \in Nat /\ c <= MaxClaims /\ claims <= c /\ live \cup {c} \subseteq 1 .. c
      BY <1>1, <2>1, DeploymentAssumption
    <2>3. d \in Daemons /\ d.pc = "idle" /\ d.wid = proc[p].wid /\ d.token = c
          /\ d.snap = Nobody
      BY <1>1, <2>2 DEF Daemons
    <2>4. e \in FilesUpTo(c)
      BY <1>1, <1>2, <2>1, <2>2, ClaimedIsFile DEF GoodDaemon
    <2> HIDE DEF c, d, e
    <2>5. GoodDaemon(d, c)
      BY <1>2, <2>1, <2>2, <2>3 DEF GoodDaemon
    <2>6. proc' \in [Process -> Daemons] /\ DaemonInv'
      BY <2>1, <2>2, <2>3, <2>5, DaemonGoes
    <2>7. lost' \in BOOLEAN
      BY <1>1, <2>1
    <2>8. c \in 0 .. MaxClaims
      BY <2>2
    <2> QED
      BY <1>1, <2>1, <2>2, <2>4, <2>6, <2>7, <2>8 DEF Rest, FileInv
  <1>6. CASE RenewLoad(p)
    <2> DEFINE d == [proc[p] EXCEPT !.pc = "renew", !.snap = db]
    <2>1. Go(p, d) /\ proc[p].pc = "idle"
          /\ UNCHANGED <<hosted, db, flag, widfile, runtime, session, live, claims, ops, faults,
                         lost, ended>>
      BY <1>6 DEF RenewLoad
    <2>2. d \in Daemons /\ d.pc = "renew" /\ d.wid = proc[p].wid /\ d.token = proc[p].token
          /\ d.snap = db
      BY <1>1, <1>2 DEF Daemons
    <2> HIDE DEF d
    <2>3. GoodDaemon(d, claims)
      BY <1>2, <2>1, <2>2 DEF GoodDaemon
    <2>4. proc' \in [Process -> Daemons] /\ DaemonInv'
      BY <1>1, <2>1, <2>2, <2>3, DaemonGoes
    <2> QED
      BY <1>1, <1>2, <2>1, <2>4 DEF Rest, FileInv
  <1>7. CASE RenewSave(p)
    <2> DEFINE d == [proc[p] EXCEPT !.pc = "idle", !.snap = Nobody]
    <2>1. Go(p, d) /\ proc[p].pc = "renew" /\ db' = proc[p].snap
          /\ lost' = (lost \/ proc[p].snap # db)
          /\ UNCHANGED <<hosted, flag, widfile, runtime, session, live, claims, ops, faults, ended>>
      BY <1>7 DEF RenewSave, Write
    <2>2. d \in Daemons /\ d.pc = "idle" /\ d.wid = proc[p].wid /\ d.token = proc[p].token
          /\ d.snap = Nobody
      BY <1>1 DEF Daemons
    <2> HIDE DEF d
    <2>3. GoodDaemon(d, claims)
      BY <1>2, <2>1, <2>2 DEF GoodDaemon
    <2>4. proc' \in [Process -> Daemons] /\ DaemonInv'
      BY <1>1, <2>1, <2>2, <2>3, DaemonGoes
    <2>5. lost' \in BOOLEAN /\ db' \in FilesUpTo(claims)
      BY <1>1, <1>2, <2>1 DEF GoodDaemon
    <2> QED
      BY <1>1, <2>1, <2>4, <2>5 DEF Rest, FileInv
  <1>8. CASE Heartbeat(p)
    <2>1. proc[p].wid \in Account
      BY <1>2, <1>8 DEF Heartbeat, GoodDaemon
    <2>2. runtime' \in [pid : Process \cup {Nobody}, wid : Account \cup {Nobody}]
          /\ UNCHANGED <<db, flag, widfile, proc, live, claims, ops, faults, lost>>
      BY <1>8, <2>1 DEF Heartbeat
    <2> QED
      BY <1>1, <2>2 DEF Rest, DeployInv, FileInv, DaemonInv, GoodDaemon
  <1>9. ASSUME NEW pc \in {"off", "dead"}, Die(p, pc) PROVE Rest /\ claims <= claims'
    <2> DEFINE d == [Down EXCEPT !.pc = pc]
    <2>1. Go(p, d) /\ faults < MaxFaults /\ faults' = faults + 1
          /\ UNCHANGED <<hosted, db, flag, widfile, runtime, session, live, claims, ops, lost, ended>>
      BY <1>9 DEF Die
    <2>2. d \in Daemons /\ d.pc = pc /\ d.token = 0 /\ d.snap = Nobody
      BY DEF Daemons, Down
    <2> HIDE DEF d
    <2>3. GoodDaemon(d, claims)
      BY <1>1, <2>2 DEF GoodDaemon
    <2>4. proc' \in [Process -> Daemons] /\ DaemonInv'
      BY <1>1, <2>1, <2>2, <2>3, DaemonGoes
    <2>5. faults' \in 0 .. MaxFaults
      BY <1>1, <2>1, DeploymentAssumption
    <2> QED
      BY <1>1, <1>2, <2>1, <2>4, <2>5 DEF Rest, FileInv
  <1> QED
    BY <1>3, <1>4, <1>5, <1>6, <1>7, <1>8, <1>9 DEF Daemon

-----------------------------------------------------------------------------
(* The hosted tables. *)

HostedSame(v) ==
    /\ hosted'.desired[v] = hosted.desired[v] /\ hosted'.gen[v] = hosted.gen[v]
    /\ v \in hosted'.active <=> v \in hosted.active

\* A step changes the rows of its user only; it makes an account only as the first
\* step of a connect, and deletes one only at the end of the monitoring.
LEMMA ActHosted ==
  ASSUME DeployInv, NEW u \in Users, Act(u)
  PROVE  /\ hosted' \in Hosts
         /\ \A v \in User \ {u} : HostedSame(v)
         /\ u \in User => GoodAccount(u)'
  <1>1. /\ hosted \in Hosts /\ session[u] # Nobody /\ session[u] \in Script
        /\ session[u].op \in Op \cup OperatorOp
        /\ session[u].todo[1] \in StepsOf(session[u].op)
        /\ Head(session[u].todo) = session[u].todo[1]
        /\ (u = Operator => session[u].op \in OperatorOp)
        /\ Session(u)
    BY ActSession, AtHead DEF DeployInv, DeployType
  <1>2. u \in User => GoodAccount(u)
    BY DEF DeployInv, AccountInv
  <1>3. session'[u] # Nobody => session'[u].op = session[u].op
    BY <1>1 DEF Session
  <1>4. session[u].todo[1] \in HostedSteps => u \in User
    BY <1>1 DEF HostedSteps, StepsOf, OperatorOp, Op, Users
  <1>5. u \in User /\ session[u].op \in {"connect", "resume"} /\ ~HasAccount(u)
          => session[u].todo[1] = "host_on" /\ session[u].op = "connect"
    BY <1>1, <1>2 DEF GoodAccount, ConnectScript
  <1>6. CASE HostOn(u)
    <2>1. /\ hosted' = [hosted EXCEPT !.desired[u] = "RUNNING",
                                      !.gen[u] = IF HasAccount(u) THEN @ ELSE @ + 1]
          /\ session[u].todo[1] = "host_on"
      BY <1>1, <1>6 DEF HostOn, Takes
    <2>2. u \in User /\ session[u].op \in {"connect", "resume"}
      BY <1>1, <1>4, <2>1 DEF HostedSteps, StepsOf, Op, OperatorOp
    <2>3. ~HasAccount(u) => hosted.gen[u] < MaxGen
      BY <1>1, <1>2, <2>2 DEF GoodAccount
    <2>4. hosted.gen[u] \in 0 .. MaxGen /\ MaxGen \in Nat
      BY <1>1, <2>2, DeploymentAssumption DEF Hosts
    <2> DEFINE gen == [hosted.gen EXCEPT ![u] = IF HasAccount(u) THEN @ ELSE @ + 1]
               desired == [hosted.desired EXCEPT ![u] = "RUNNING"]
    <2>5. gen \in [User -> 0 .. MaxGen] /\ gen[u] >= 1
          /\ \A v \in User \ {u} : gen[v] = hosted.gen[v]
      BY <1>1, <1>2, <2>2, <2>3, <2>4 DEF Hosts, GoodAccount
    <2>6. desired \in [User -> {"none", "RUNNING", "STOPPED"}] /\ desired[u] = "RUNNING"
          /\ \A v \in User \ {u} : desired[v] = hosted.desired[v]
      BY <1>1, <2>2 DEF Hosts
    <2>7. hosted' = [[hosted EXCEPT !.desired = desired] EXCEPT !.gen = gen]
      BY <1>1, <2>1 DEF Hosts
    <2> HIDE DEF gen, desired
    <2>8. hosted' \in Hosts /\ hosted'.gen = gen /\ hosted'.desired = desired
          /\ hosted'.active = hosted.active
      BY <1>1, <2>5, <2>6, <2>7 DEF Hosts
    <2>9. GoodAccount(u)'
      BY <2>2, <2>5, <2>6, <2>8 DEF GoodAccount, HasAccount
    <2> QED
      BY <2>5, <2>6, <2>8, <2>9 DEF HostedSame
  <1>7. CASE HostOff(u)
    <2>1. /\ hosted' = [hosted EXCEPT !.desired[u] = IF @ = "none" THEN @ ELSE "STOPPED"]
          /\ session[u].todo[1] = "host_off"
      BY <1>1, <1>7 DEF HostOff, Takes
    <2>2. u \in User
      BY <1>4, <2>1 DEF HostedSteps
    <2> DEFINE desired == [hosted.desired EXCEPT ![u] = IF @ = "none" THEN @ ELSE "STOPPED"]
    <2>3. desired \in [User -> {"none", "RUNNING", "STOPPED"}]
          /\ (desired[u] # "none" <=> HasAccount(u))
          /\ \A v \in User \ {u} : desired[v] = hosted.desired[v]
      BY <1>1, <2>2 DEF Hosts, HasAccount
    <2>4. hosted' = [hosted EXCEPT !.desired = desired]
      BY <1>1, <2>1 DEF Hosts
    <2> HIDE DEF desired
    <2>5. hosted' \in Hosts /\ hosted'.gen = hosted.gen /\ hosted'.desired = desired
          /\ hosted'.active = hosted.active
      BY <1>1, <2>3, <2>4 DEF Hosts
    <2>6. HasAccount(u)' <=> HasAccount(u)
      BY <2>3, <2>5 DEF HasAccount
    <2>7. session'[u] # Nobody /\ session'[u].op \in {"connect", "resume"} => HasAccount(u)
      BY <1>3, <1>5, <2>1, <2>2
    <2>8. GoodAccount(u)'
      BY <1>2, <2>2, <2>5, <2>6, <2>7 DEF GoodAccount
    <2> QED
      BY <2>3, <2>5, <2>8 DEF HostedSame
  <1>8. CASE MailboxOn(u)
    <2>1. /\ hosted' = [hosted EXCEPT !.active = @ \cup {u}]
          /\ session[u].todo[1] = "mailbox_on"
      BY <1>1, <1>8 DEF MailboxOn, Takes
    <2>2. u \in User /\ HasAccount(u)
      BY <1>1, <2>1, PastFirst
    <2>3. hosted' \in Hosts /\ hosted'.gen = hosted.gen /\ hosted'.desired = hosted.desired
          /\ hosted'.active = hosted.active \cup {u}
      BY <1>1, <2>1, <2>2 DEF Hosts
    <2>4. GoodAccount(u)'
      BY <1>2, <2>2, <2>3 DEF GoodAccount, HasAccount
    <2> QED
      BY <2>3, <2>4 DEF HostedSame
  <1>9. CASE MailboxOff(u)
    <2>1. /\ hosted' = [hosted EXCEPT !.active = @ \ {u}]
          /\ session[u].todo[1] = "mailbox_off"
      BY <1>1, <1>9 DEF MailboxOff, Takes
    <2>2. u \in User
      BY <1>4, <2>1 DEF HostedSteps
    <2>3. hosted' \in Hosts /\ hosted'.gen = hosted.gen /\ hosted'.desired = hosted.desired
          /\ hosted'.active = hosted.active \ {u}
      BY <1>1, <2>1 DEF Hosts
    <2>4. session'[u] # Nobody /\ session'[u].op \in {"connect", "resume"} => HasAccount(u)
      BY <1>3, <1>5, <2>1, <2>2
    <2>5. GoodAccount(u)'
      BY <1>2, <2>2, <2>3, <2>4 DEF GoodAccount, HasAccount
    <2> QED
      BY <2>3, <2>5 DEF HostedSame
  <1>10. CASE HostDelete(u)
    <2>1. /\ hosted' = [hosted EXCEPT !.desired[u] = "none", !.active = @ \ {u}]
          /\ session[u].todo[1] = "host_delete"
      BY <1>1, <1>10 DEF HostDelete, Takes
    <2>2. u \in User /\ session[u].op \in {"disconnect", "delete"}
      BY <1>1, <1>4, <2>1 DEF HostedSteps, StepsOf, Op, OperatorOp, Starting
    <2> DEFINE desired == [hosted.desired EXCEPT ![u] = "none"]
    <2>3. desired \in [User -> {"none", "RUNNING", "STOPPED"}] /\ desired[u] = "none"
          /\ \A v \in User \ {u} : desired[v] = hosted.desired[v]
      BY <1>1, <2>2 DEF Hosts
    <2>4. hosted' = [[hosted EXCEPT !.desired = desired] EXCEPT !.active = hosted.active \ {u}]
      BY <1>1, <2>1 DEF Hosts
    <2> HIDE DEF desired
    <2>5. hosted' \in Hosts /\ hosted'.gen = hosted.gen /\ hosted'.desired = desired
          /\ hosted'.active = hosted.active \ {u}
      BY <1>1, <2>3, <2>4 DEF Hosts
    <2>6. GoodAccount(u)'
      BY <1>3, <2>2, <2>3, <2>5 DEF GoodAccount, HasAccount
    <2> QED
      BY <2>3, <2>5, <2>6 DEF HostedSame
  <1>11. CASE hosted' = hosted
    <2>1. \A v \in User \ {u} : HostedSame(v)
      BY <1>11 DEF HostedSame
    <2>2. ASSUME u \in User PROVE GoodAccount(u)'
      <3>1. CASE session[u].op \in {"connect", "resume"} /\ ~HasAccount(u)
        <4>1. session[u].todo[1] = "host_on" /\ session[u].op = "connect"
          BY <1>5, <2>2, <3>1
        <4>2. CASE HostedFails(u)
          <5>1. session'[u] = Nobody
            <6>1. session' = [session EXCEPT ![u] = Nobody]
              BY <1>1, <3>1, <4>1, <4>2 DEF HostedFails, Takes
            <6>2. session \in [Users -> Script \cup {Nobody}]
              BY DEF DeployInv, DeployType
            <6> QED
              BY <6>1, <6>2
          <5> QED
            BY <1>2, <1>11, <2>2, <5>1 DEF GoodAccount, HasAccount
        <4>3. CASE HostOn(u)
          <5>1. hosted \in Hosts
            BY DEF DeployInv, DeployType
          <5>2. hosted' = [hosted EXCEPT !.desired[u] = "RUNNING",
                                         !.gen[u] = IF HasAccount(u) THEN @ ELSE @ + 1]
            BY <4>3 DEF HostOn
          <5>3. hosted'.desired[u] = "RUNNING"
            BY <2>2, <5>1, <5>2 DEF Hosts
          <5> QED
            BY <1>11, <3>1, <5>3 DEF HasAccount
        <4>4. ~HostedFails(u) /\ ~HostOn(u) => FALSE
          BY <1>1, <4>1 DEF Act, HostOff, MailboxOn, MailboxOff, MailboxHidden, HostDelete,
             Load, SaveRun, SaveStop, SaveSync, SaveOff, SaveFree, SaveTarget, Save, WriteWid,
             FlagOn, LookForOthers, FlagOff, Look, CliLook, Kill, Spawn, Takes
        <4> QED
          BY <4>2, <4>3, <4>4
      <3>2. CASE ~(session[u].op \in {"connect", "resume"} /\ ~HasAccount(u))
        BY <1>2, <1>3, <1>11, <2>2, <3>2 DEF GoodAccount, HasAccount
      <3> QED
        BY <3>1, <3>2
    <2> QED
      BY <1>1, <1>11, <2>1, <2>2
  <1> QED
    BY <1>6, <1>7, <1>8, <1>9, <1>10, <1>11
    DEF Act, MailboxHidden, HostedFails,
        Load, SaveRun, SaveStop, SaveSync, SaveOff, SaveFree, SaveTarget, Save, WriteWid,
        FlagOn, LookForOthers, FlagOff, Look, CliLook, Kill, Spawn

\* A user's account is as good as it was when nothing of it changes.
LEMMA AccountKept ==
  ASSUME NEW v \in User, GoodAccount(v), HostedSame(v), session'[v] = session[v]
  PROVE  GoodAccount(v)'
  BY DEF GoodAccount, HostedSame, HasAccount

\* Scripts stay good when only more leases were claimed.
LEMMA ScriptsKept ==
  ASSUME DeployInv, session' = session, claims <= claims', claims' \in Nat
  PROVE  ScriptInv'
  <1>1. claims \in Nat /\ FilesUpTo(claims) \subseteq FilesUpTo(claims')
    BY FilesGrow DEF DeployInv, DeployType
  <1>2. \A u \in Users : session[u] # Nobody => GoodScript(u, session[u], claims)
    BY DEF DeployInv, ScriptInv
  <1> QED
    BY <1>1, <1>2 DEF ScriptInv, GoodScript

LEMMA DeployStep ==
  ASSUME DeployInv, [Next]_vars
  PROVE  DeployInv'
  <1>1. ASSUME NEW u \in Users, Act(u) PROVE DeployInv'
    <2>1. Session(u) /\ Rest
      BY <1>1, ActSession, ActRest
    <2>2. hosted' \in Hosts /\ (\A v \in User \ {u} : HostedSame(v))
          /\ (u \in User => GoodAccount(u)')
      BY <1>1, ActHosted
    <2>3. \A v \in User \ {u} : session'[v] = session[v]
      BY <2>1 DEF Session, Users
    <2>4. \A v \in User \ {u} : GoodAccount(v)'
      BY <2>2, <2>3, AccountKept DEF DeployInv, AccountInv
    <2>5. AccountInv'
      BY <2>2, <2>4 DEF AccountInv
    <2> QED
      BY <2>1, <2>2, <2>5 DEF Session, Rest, DeployInv, DeployType
  <1>2. ASSUME NEW u \in Users, NEW op \in Op \cup OperatorOp, Begin(u, op) PROVE DeployInv'
    <2>1. /\ session'[u] # Nobody /\ session'[u].op = op
          /\ op = "connect" => session'[u].todo = ConnectScript
          /\ u \in User => op \in Op /\ Offered(u, op)
          /\ session' \in [Users -> Script \cup {Nobody}] /\ ended' = ended /\ ScriptInv'
          /\ \A v \in Users \ {u} : session'[v] = session[v]
      BY <1>2, BeginSession
    <2>2. /\ ops < MaxOps /\ ops' = ops + 1
          /\ UNCHANGED <<hosted, db, flag, widfile, runtime, proc, live, claims, faults, lost>>
      BY <1>2 DEF Begin
    <2>3. /\ flag \in BOOLEAN /\ widfile \in Account \cup {Nobody}
          /\ ops \in 0 .. MaxOps /\ faults \in 0 .. MaxFaults /\ hosted \in Hosts
          /\ ended \in [User -> {"no"} \cup Ending]
      BY DEF DeployInv, DeployType
    <2>4. Rest
      BY <2>2, <2>3, SameFiles, DeploymentAssumption
    <2>5. ASSUME NEW v \in User \ {u} PROVE GoodAccount(v)'
      BY <2>1, <2>2, AccountKept DEF DeployInv, AccountInv, HostedSame, Users
    <2>6. ASSUME u \in User PROVE GoodAccount(u)'
      <3>1. op = "connect" => HasAccount(u) \/ hosted.gen[u] < MaxGen
        BY <2>1, <2>6 DEF Offered
      <3>2. op = "resume" => HasAccount(u)
        BY <2>1, <2>6 DEF Offered
      <3>3. GoodAccount(u)
        BY <2>6 DEF DeployInv, AccountInv
      <3> QED
        BY <2>1, <2>2, <3>1, <3>2, <3>3 DEF GoodAccount, HasAccount
    <2>7. AccountInv'
      BY <2>5, <2>6 DEF AccountInv
    <2> QED
      BY <2>1, <2>2, <2>3, <2>4, <2>7 DEF Rest, DeployInv, DeployType
  <1>3. ASSUME NEW p \in Process, Daemon(p) PROVE DeployInv'
    <2>1. Rest /\ claims <= claims'
      BY <1>3, DaemonRest
    <2>2. UNCHANGED <<hosted, session, ended>>
      BY <1>3 DEF Daemon, Boot, ClaimLoad, ClaimSave, RenewLoad, RenewSave, Heartbeat, Die
    <2>3. ScriptInv'
      BY <2>1, <2>2, ScriptsKept DEF Rest
    <2>4. AccountInv'
      BY <2>2 DEF DeployInv, AccountInv, GoodAccount, HasAccount
    <2> QED
      BY <2>1, <2>2, <2>3, <2>4 DEF Rest, DeployInv, DeployType
  <1>4. ASSUME NEW c \in live, LeaseRunsOut(c) PROVE DeployInv'
    BY <1>4 DEF LeaseRunsOut, DeployInv, DeployType, FileInv, DaemonInv, GoodDaemon, ScriptInv,
                GoodScript, AccountInv, GoodAccount, HasAccount
  <1>5. CASE UNCHANGED vars
    BY <1>5 DEF vars, DeployInv, DeployType, FileInv, DaemonInv, GoodDaemon, ScriptInv,
                GoodScript, AccountInv, GoodAccount, HasAccount
  <1> QED
    BY <1>1, <1>2, <1>3, <1>4, <1>5 DEF Next, Users

LEMMA DeployInvariant == Spec => []DeployInv
  <1>1. Init => DeployInv
    BY DeployInit
  <1>2. DeployInv /\ [Next]_vars => DeployInv'
    BY DeployStep
  <1> QED
    BY <1>1, <1>2, PTL DEF Spec

\* Every variable of the deployment keeps its type: the hosted tables, the local
\* files and their snapshots, the daemons and the scripts of any number of users.
THEOREM DeploymentTypeCorrect == Spec => []TypeOK
  <1>1. DeployInv => TypeOK
    <2> SUFFICES ASSUME DeployInv PROVE TypeOK
      OBVIOUS
    <2>1. DeployType /\ db \in Db
      BY DEF DeployInv, FileInv, FilesUpTo
    <2>2. ASSUME NEW p \in Process
          PROVE  /\ proc[p].pc \in {"off", "boot", "idle", "claim", "renew", "dead"}
                 /\ proc[p].wid \in Account \cup {Nobody} /\ proc[p].token \in 0..claims
                 /\ proc[p].snap \in Db \cup {Nobody}
      BY <2>1 DEF DeployType, Daemons, DeployInv, DaemonInv, GoodDaemon
    <2>3. ASSUME NEW u \in User \cup {Operator}, session[u] # Nobody
          PROVE  session[u] \in Script /\ session[u].todo # <<>>
      BY <2>3, AtHead DEF Users
    <2> QED
      BY <2>1, <2>2, <2>3 DEF TypeOK, DeployType, Hosts
  <1> QED
    BY <1>1, DeployInvariant, PTL

\* Whatever saves overtake each other, the file and every snapshot of it is one that
\* a script or a daemon meant.
THEOREM LocalStateStaysSound == Spec => []LocalStateSound
  <1>1. DeployInv => LocalStateSound
    <2> SUFFICES ASSUME DeployInv PROVE LocalStateSound
      OBVIOUS
    <2>1. Sound(db)
      BY DEF DeployInv, FileInv, FilesUpTo
    <2>2. ASSUME NEW p \in Process, proc[p].snap # Nobody PROVE Sound(proc[p].snap)
      BY <2>2 DEF DeployInv, DaemonInv, GoodDaemon, FilesUpTo
    <2>3. ASSUME NEW u \in Users, session[u] # Nobody, session[u].snap # Nobody
          PROVE  Sound(session[u].snap)
      BY <2>3 DEF DeployInv, ScriptInv, GoodScript, FilesUpTo
    <2> QED
      BY <2>1, <2>2, <2>3 DEF LocalStateSound, Snapshots, Users
  <1> QED
    BY <1>1, DeployInvariant, PTL

-----------------------------------------------------------------------------
(* Each user's accounts in the file and in the hosted tables. *)

\* What a script is about to save is, as to which accounts of its own user the file
\* knows, what the file says.
KnowsOwn(u) ==
    (session[u] # Nobody /\ session[u].todo[1] \in Saves) =>
        \A a \in Account : Owner(a) = u => (a \in session[u].snap.known <=> a \in db.known)

Revoked(u) == \A a \in Account : Owner(a) = u => a \notin db.active \cup db.usable

\* The script of u's button op, with (without) the step x still to do.
Still(u, op, x) == session[u] # Nobody /\ session[u].op = op /\ Left(session[u].todo, x)
Done(u, op, x) == session[u] # Nobody /\ session[u].op = op /\ ~Left(session[u].todo, x)

GoodRevocation(u) ==
    /\ Done(u, "connect", "mailbox_on") => ended[u] = "no"
    /\ ~lost => KnowsOwn(u)
    /\ (~lost /\ (ended[u] = "disconnect" \/ Done(u, "disconnect", "save_off"))) => Revoked(u)

OnFile(u) == AccountOf(u) \in db.active \cap db.usable
Running(u) == hosted.desired[u] = "RUNNING" => AccountOf(u) \in db.run
Followed(u) == OnFile(u) /\ Running(u)
Monitored(u) == ~lost /\ u \in hosted.active /\ ended[u] = "no"

\* How far the file follows the hosted tables while a button of the user's is at work:
\* a resume or a connect that has set the desired state has its save_run to come, a
\* connect that has activated the mailbox its save_sync, a pause has stopped the hosted
\* worker before it stops the local one, and a disconnect may fail before its save_off
\* only.
GoodFollowing(u) ==
    /\ Done(u, "pause", "host_off") => hosted.desired[u] # "RUNNING"
    /\ Monitored(u) =>
          /\ session[u] = Nobody => Followed(u)
          /\ (session[u] # Nobody /\ session[u].op \in {"pause", "deactivate", "delete"})
                => Followed(u)
          /\ Still(u, "disconnect", "save_off") => Followed(u)
          /\ ((session[u] # Nobody /\ session[u].op = "resume")
                 \/ Still(u, "connect", "mailbox_on"))
                => /\ OnFile(u)
                   /\ \/ Left(session[u].todo, "save_run") /\ session[u].todo[1] # "host_on"
                      \/ Running(u)
          /\ Done(u, "connect", "mailbox_on")
                => Left(session[u].todo, "save_sync") \/ Followed(u)

UserInv == \A u \in User : GoodRevocation(u) /\ GoodFollowing(u)

Marks == {"host_off", "mailbox_on", "save_run", "save_sync", "save_off"}

LEMMA LeftOf ==
  ASSUME NEW S, NEW t \in Seq(S), t # <<>>, NEW x
  PROVE  Left(t, x) <=> t[1] = x \/ Left(Tail(t), x)
  <1>1. Left(t, x) => t[1] = x \/ Left(Tail(t), x)
    <2> SUFFICES ASSUME NEW i \in 1 .. Len(t), t[i] = x, i # 1 PROVE Left(Tail(t), x)
      BY DEF Left
    <2>1. i - 1 \in 1 .. Len(Tail(t)) /\ Tail(t)[i - 1] = x
      OBVIOUS
    <2> QED
      BY <2>1 DEF Left
  <1>2. t[1] = x => Left(t, x)
    <2>1. 1 \in 1 .. Len(t)
      OBVIOUS
    <2> QED
      BY <2>1 DEF Left
  <1>3. Left(Tail(t), x) => Left(t, x)
    <2> SUFFICES ASSUME NEW i \in 1 .. Len(Tail(t)), Tail(t)[i] = x PROVE Left(t, x)
      BY DEF Left
    <2>1. i + 1 \in 1 .. Len(t) /\ t[i + 1] = x
      OBVIOUS
    <2> QED
      BY <2>1 DEF Left
  <1> QED
    BY <1>1, <1>2, <1>3

LEMMA Leading ==
  ASSUME NEW S, NEW t \in Seq(S), t # <<>>, NEW x, NEW y, t[1] = x, Leads(t, x, y)
  PROVE  Left(Tail(t), y)
  <1>1. PICK j \in 1 .. Len(t) : 1 < j /\ t[j] = y
    BY DEF Leads
  <1>2. j - 1 \in 1 .. Len(Tail(t)) /\ Tail(t)[j - 1] = y
    BY <1>1
  <1> QED
    BY <1>2 DEF Left

LEMMA Barring ==
  ASSUME NEW S, NEW t \in Seq(S), t # <<>>, NEW x, NEW y, t[1] = x, Bars(t, x, y)
  PROVE  ~Left(Tail(t), y)
  <1> SUFFICES ASSUME NEW i \in 1 .. Len(Tail(t)), Tail(t)[i] = y PROVE FALSE
    BY DEF Left
  <1>1. i + 1 \in 1 .. Len(t) /\ 1 \in 1 .. Len(t) /\ t[i + 1] = y /\ 1 < i + 1
    OBVIOUS
  <1> QED
    BY <1>1 DEF Bars

\* What the first step of a script says of the ones after it.
LEMMA AfterHead ==
  ASSUME DeployInv, NEW u \in User, session[u] # Nobody
  PROVE  LET t == session[u].todo
             op == session[u].op
         IN  /\ \A x : Left(t, x) <=> t[1] = x \/ Left(Remaining(u), x)
             /\ Remaining(u) = <<>> => \A x : ~Left(Remaining(u), x)
             /\ (op = "resume" /\ Remaining(u) # <<>>) => Remaining(u)[1] # "host_on"
             /\ (op = "connect" /\ Left(Remaining(u), "mailbox_on")) => Remaining(u)[1] # "host_on"
  <1> DEFINE t == session[u].todo
             r == Remaining(u)
  <1>1. t \in Seq(Step) /\ t # <<>> /\ r = Tail(t) /\ Shape(session[u].op, t)
    BY AtHead DEF Users, Remaining
  <1>2. \A x : Left(t, x) <=> t[1] = x \/ Left(r, x)
    BY <1>1, LeftOf
  <1>3. r = <<>> => \A x : ~Left(r, x)
    BY DEF Left
  <1>4. ASSUME session[u].op = "resume", r # <<>> PROVE r[1] # "host_on"
    <2>1. r[1] = t[2] /\ 2 \in 2 .. Len(t)
      BY <1>1, <1>4
    <2> QED
      BY <1>1, <1>4, <2>1 DEF Shape, ResumeOrder
  <1>5. ASSUME session[u].op = "connect", Left(r, "mailbox_on") PROVE r[1] # "host_on"
    <2>1. PICK j \in 1 .. Len(r) : r[j] = "mailbox_on"
      BY <1>5 DEF Left
    <2> SUFFICES ASSUME r[1] = "host_on" PROVE FALSE
      OBVIOUS
    <2>2. j # 1
      BY <2>1
    <2>3. 2 \in 2 .. Len(t) /\ j + 1 \in 2 .. Len(t) /\ 2 < j + 1 /\ t[2] = "host_on"
          /\ t[j + 1] = "mailbox_on"
      BY <1>1, <2>1, <2>2
    <2> QED
      BY <1>1, <1>5, <2>3 DEF Shape, ConnectOrder
  <1> QED
    BY <1>2, <1>3, <1>4, <1>5

\* The usual step of a user's script: it takes its first step off, puts none of the
\* marks in its place, and harms nothing of the user's but what it means to stop.
Script1(u) ==
    /\ session'[u] # Nobody =>
          /\ session'[u].op = session[u].op /\ ended'[u] = ended[u]
          /\ \A y \in Marks : Left(session'[u].todo, y) <=> Left(Remaining(u), y)
          /\ session'[u].todo[1] = "host_on" => session'[u].todo = Remaining(u)
    /\ session'[u] = Nobody =>
          /\ ended'[u] = (IF session[u].op \in Ending THEN session[u].op ELSE ended[u])
          /\ \A y \in Marks : ~Left(Remaining(u), y)

Hosted1(u) ==
    /\ u \in hosted'.active => u \in hosted.active /\ hosted'.gen[u] = hosted.gen[u]
    /\ hosted'.desired[u] = "RUNNING" => hosted.desired[u] = "RUNNING"
    /\ session[u].todo[1] = "host_off" => hosted'.desired[u] # "RUNNING"

File1(u) ==
    ~lost' =>
        /\ ~lost
        /\ \A a \in Account : Owner(a) = u =>
              /\ a \in db'.active <=> a \in db.active
              /\ a \in db'.usable <=> a \in db.usable
              /\ (hosted'.desired[u] = "RUNNING" /\ a \in db.run) => a \in db'.run
        /\ (session[u].todo[1] = "save_run" /\ OnFile(u)) => AccountOf(u) \in db'.run

LEMMA Goes ==
  ASSUME DeployInv, DeployInv', NEW u \in User, GoodRevocation(u), GoodFollowing(u),
         session[u] # Nobody,
         session[u].todo[1] \notin {"host_on", "mailbox_on", "save_off", "save_sync"},
         Script1(u), Hosted1(u), File1(u), KnowsOwn(u)'
  PROVE  GoodRevocation(u)' /\ GoodFollowing(u)'
  <1> DEFINE t == session[u].todo
             op == session[u].op
  <1>1. /\ \A x : Left(t, x) <=> t[1] = x \/ Left(Remaining(u), x)
        /\ (op = "resume" /\ Remaining(u) # <<>>) => Remaining(u)[1] # "host_on"
        /\ (op = "connect" /\ Left(Remaining(u), "mailbox_on")) => Remaining(u)[1] # "host_on"
    BY AfterHead
  <1>2. \A y \in {"mailbox_on", "save_sync", "save_off"} :
            session'[u] # Nobody => (Left(session'[u].todo, y) <=> Left(t, y))
    BY <1>1 DEF Script1, Marks
  <1>3. \A y \in {"mailbox_on", "save_sync", "save_off"} : session'[u] = Nobody => ~Left(t, y)
    BY <1>1 DEF Script1, Marks
  <1>4. GoodRevocation(u)'
    <2>1. Done(u, "connect", "mailbox_on")' => ended'[u] = "no"
      BY <1>2 DEF GoodRevocation, Done, Script1
    <2>2. ASSUME ~lost', ended'[u] = "disconnect" \/ Done(u, "disconnect", "save_off")'
          PROVE  Revoked(u)'
      <3>1. ended[u] = "disconnect" \/ Done(u, "disconnect", "save_off")
        BY <1>2, <1>3, <2>2 DEF Done, Script1
      <3>2. Revoked(u)
        BY <2>2, <3>1 DEF GoodRevocation, File1
      <3> QED
        BY <2>2, <3>2 DEF Revoked, File1
    <2> QED
      BY <2>1, <2>2 DEF GoodRevocation
  <1>5. Done(u, "pause", "host_off")' => hosted'.desired[u] # "RUNNING"
    BY <1>1 DEF Done, GoodFollowing, Hosted1, Script1, Marks
  <1>6. ASSUME Monitored(u)'
        PROVE  /\ session'[u] = Nobody => Followed(u)'
               /\ (session'[u] # Nobody /\ session'[u].op \in {"pause", "deactivate", "delete"})
                     => Followed(u)'
               /\ Still(u, "disconnect", "save_off")' => Followed(u)'
               /\ ((session'[u] # Nobody /\ session'[u].op = "resume")
                     \/ Still(u, "connect", "mailbox_on")')
                     => /\ OnFile(u)'
                        /\ \/ Left(session'[u].todo, "save_run") /\ session'[u].todo[1] # "host_on"
                           \/ Running(u)'
               /\ Done(u, "connect", "mailbox_on")'
                     => Left(session'[u].todo, "save_sync") \/ Followed(u)'
    <2>1. ~lost' /\ ~lost /\ u \in hosted.active /\ u \in hosted'.active /\ ended'[u] = "no"
          /\ hosted'.gen[u] = hosted.gen[u]
      BY <1>6 DEF Monitored, Hosted1, File1
    <2>2. HasAccount(u)
      BY <2>1 DEF DeployInv, AccountInv, GoodAccount
    <2>3. AccountOf(u) \in Account /\ Owner(AccountOf(u)) = u /\ AccountOf(u)' = AccountOf(u)
      BY <2>1, <2>2, AccountIs DEF AccountOf
    <2>4. ended[u] = "no" /\ (session'[u] = Nobody => op \notin Ending)
      BY <2>1 DEF Script1, Ending
    <2>5. Monitored(u)
      BY <2>1, <2>4 DEF Monitored
    <2>6. (OnFile(u) => OnFile(u)') /\ (Running(u) => Running(u)')
      BY <2>1, <2>3 DEF OnFile, Running, File1, Hosted1
    <2>7. OnFile(u) /\ t[1] = "save_run" => Running(u)'
      BY <2>1, <2>3 DEF Running, File1
    <2>8. op \in Op
      BY AtHead DEF Users
    <2>9. CASE op \in {"pause", "deactivate", "delete"}
      BY <2>5, <2>6, <2>9 DEF GoodFollowing, Followed, Still, Done, Script1
    <2>10. CASE op = "disconnect"
      BY <1>2, <2>4, <2>5, <2>6, <2>10 DEF GoodFollowing, Followed, Still, Done, Script1, Ending
    <2>11. CASE op = "resume" \/ (op = "connect" /\ Left(t, "mailbox_on"))
      <3>1. OnFile(u) /\ ((Left(t, "save_run") /\ t[1] # "host_on") \/ Running(u))
        BY <2>5, <2>11 DEF GoodFollowing, Still
      <3>2. session'[u] = Nobody => ~Left(t, "save_run") \/ t[1] = "save_run"
        BY <1>1 DEF Script1, Marks
      <3>3. session'[u] = Nobody => Running(u)'
        BY <2>6, <2>7, <3>1, <3>2
      <3>4. ASSUME session'[u] # Nobody
            PROVE  \/ Left(session'[u].todo, "save_run") /\ session'[u].todo[1] # "host_on"
                   \/ Running(u)'
        <4>1. session'[u].todo[1] # "host_on" \/ session'[u].todo = <<>>
          <5> SUFFICES ASSUME session'[u].todo[1] = "host_on", session'[u].todo # <<>>
                       PROVE  FALSE
            OBVIOUS
          <5>1. session'[u].todo = Remaining(u)
            BY <3>4 DEF Script1
          <5>2. op = "connect" => Left(Remaining(u), "mailbox_on")
            BY <1>1, <2>11
          <5> QED
            BY <1>1, <2>11, <5>1, <5>2
        <4>2. session'[u].todo # <<>>
          BY <3>4 DEF DeployInv, ScriptInv, GoodScript, Shape, Users
        <4>3. Left(t, "save_run") => t[1] = "save_run" \/ Left(session'[u].todo, "save_run")
          BY <1>1, <3>4 DEF Script1, Marks
        <4> QED
          BY <2>6, <2>7, <3>1, <4>1, <4>2, <4>3
      <3>5. OnFile(u)'
        BY <2>6, <3>1
      <3>6. session'[u] # Nobody => session'[u].op = op
        BY DEF Script1
      <3>7. op = "connect" => ~Done(u, "connect", "mailbox_on")'
        BY <1>2, <2>11 DEF Done
      <3> QED
        BY <2>11, <3>3, <3>4, <3>5, <3>6, <3>7 DEF Followed, Still, Done
    <2>12. CASE op = "connect" /\ ~Left(t, "mailbox_on")
      <3>1. Left(t, "save_sync") \/ Followed(u)
        BY <2>5, <2>12 DEF GoodFollowing, Done
      <3>2. Followed(u) => Followed(u)'
        BY <2>6 DEF Followed
      <3>3. session'[u] # Nobody => session'[u].op = op
        BY DEF Script1
      <3> QED
        BY <1>2, <1>3, <2>12, <3>1, <3>2, <3>3 DEF Still, Done
    <2> QED
      BY <2>8, <2>9, <2>10, <2>11, <2>12 DEF Op
  <1> QED
    BY <1>4, <1>5, <1>6 DEF GoodFollowing

-----------------------------------------------------------------------------
(* What a save does to the accounts of a user. *)

\* From d to e, u's accounts lose nothing but the will to run (Alike), or nothing at
\* all (Unharmed).
Alike(d, e, u) ==
    \A a \in Account : Owner(a) = u =>
        /\ a \in e.known <=> a \in d.known
        /\ a \in e.active <=> a \in d.active
        /\ a \in e.usable <=> a \in d.usable
Unharmed(d, e, u) ==
    /\ Alike(d, e, u)
    /\ \A a \in Account : (Owner(a) = u /\ a \in d.run) => a \in e.run

LEMMA DesiredAlike ==
  ASSUME NEW d \in Db, NEW v, NEW u, NEW running \in BOOLEAN
  PROVE  /\ Alike(d, Desired(d, v, running), u)
         /\ (running \/ u # v) => Unharmed(d, Desired(d, v, running), u)
  BY DEF Db, Desired, Alike, Unharmed

LEMMA SyncedUnharmed ==
  ASSUME NEW d \in Db, NEW b \in Account, NEW u, Owner(b) # u
  PROVE  Unharmed(d, Synced(d, b), u)
  BY DEF Db, Synced, Alike, Unharmed

LEMMA DeactivatedUnharmed ==
  ASSUME NEW d \in Db, NEW v, NEW u, u # v
  PROVE  Unharmed(d, Deactivated(d, v), u)
  BY DEF Db, Deactivated, Alike, Unharmed

LEMMA ReleasedUnharmed ==
  ASSUME NEW d \in Db, NEW u
  PROVE  Unharmed(d, Released(d), u)
  BY DEF Db, Released, Alike, Unharmed

LEMMA TargetedUnharmed ==
  ASSUME NEW d \in Db, NEW u, NEW b
  PROVE  Unharmed(d, Targeted(d, b), u)
  BY DEF Db, Targeted, Alike, Unharmed

\* A save that loses nothing is of the file as it is.
LEMMA SaveNow ==
  ASSUME NEW w, NEW name, NEW new, NEW changes, Save(w, name, new, changes), ~lost'
  PROVE  ~lost /\ (db' = db \/ (changes /\ session[w].snap = db /\ db' = new))
  BY DEF Save

\* A save of w's script leaves u's accounts unharmed, unless it is one of u's own that
\* means to change them.
LEMMA SavingHarmless ==
  ASSUME DeployInv, NEW w \in Users, NEW u \in User, Saving(w), ~lost',
         w = u => SaveRun(w) \/ SaveFree(w) \/ SaveTarget(w)
  PROVE  ~lost /\ Unharmed(db, db', u)
  <1>1. db \in Db /\ session[w].snap \in Db /\ session[w] # Nobody
    BY SavingSession DEF DeployInv, FileInv, FilesUpTo
  <1>2. Unharmed(db, db, u)
    BY DEF Unharmed, Alike
  <1>3. CASE SaveRun(w)
    <2> DEFINE new == Desired(session[w].snap, w, TRUE)
    <2>1. Save(w, "save_run", new, Mine(w) # {})
      BY <1>3 DEF SaveRun
    <2>2. Unharmed(session[w].snap, new, u)
      BY <1>1, DesiredAlike
    <2> HIDE DEF new
    <2>3. ~lost /\ (db' = db \/ (session[w].snap = db /\ db' = new))
      BY <2>1, SaveNow
    <2> QED
      BY <1>2, <2>2, <2>3
  <1>4. CASE SaveStop(w) /\ w # u
    <2> DEFINE new == Desired(session[w].snap, w, FALSE)
    <2>1. Save(w, "save_stop", new, Mine(w) # {})
      BY <1>4 DEF SaveStop
    <2>2. Unharmed(session[w].snap, new, u)
      BY <1>1, <1>4, DesiredAlike
    <2> HIDE DEF new
    <2>3. ~lost /\ (db' = db \/ (session[w].snap = db /\ db' = new))
      BY <2>1, SaveNow
    <2> QED
      BY <1>2, <2>2, <2>3
  <1>5. CASE SaveSync(w) /\ w # u
    <2> DEFINE new == Synced(session[w].snap, AccountOf(w))
    <2>4. session[w].todo[1] = "save_sync"
      BY <1>1, <1>5, AtHead DEF SaveSync, Save, Takes
    <2>5. AccountOf(w) \in Account /\ Owner(AccountOf(w)) = w
      BY <1>1, <2>4, PastFirst, AccountIs
    <2>1. Save(w, "save_sync", new, TRUE)
      BY <1>5 DEF SaveSync
    <2>2. Unharmed(session[w].snap, new, u)
      BY <1>1, <1>5, <2>5, SyncedUnharmed
    <2> HIDE DEF new
    <2>3. ~lost /\ (db' = db \/ (session[w].snap = db /\ db' = new))
      BY <2>1, SaveNow
    <2> QED
      BY <1>2, <2>2, <2>3
  <1>6. CASE SaveOff(w) /\ w # u
    <2> DEFINE new == Deactivated(session[w].snap, w)
    <2>1. Save(w, "save_off", new, Mine(w) # {})
      BY <1>6 DEF SaveOff
    <2>2. Unharmed(session[w].snap, new, u)
      BY <1>1, <1>6, DeactivatedUnharmed
    <2> HIDE DEF new
    <2>3. ~lost /\ (db' = db \/ (session[w].snap = db /\ db' = new))
      BY <2>1, SaveNow
    <2> QED
      BY <1>2, <2>2, <2>3
  <1>7. CASE SaveFree(w)
    <2> DEFINE new == Released(session[w].snap)
    <2>1. Save(w, "save_free", new, session[w].snap.known # {} \/ w = Operator)
      BY <1>7 DEF SaveFree
    <2>2. Unharmed(session[w].snap, new, u)
      BY <1>1, ReleasedUnharmed
    <2> HIDE DEF new
    <2>3. ~lost /\ (db' = db \/ (session[w].snap = db /\ db' = new))
      BY <2>1, SaveNow
    <2> QED
      BY <1>2, <2>2, <2>3
  <1>8. CASE SaveTarget(w)
    <2> DEFINE new == Targeted(session[w].snap, session[w].target)
    <2>1. Save(w, "save_target", new, TRUE)
      BY <1>8 DEF SaveTarget
    <2>2. Unharmed(session[w].snap, new, u)
      BY <1>1, TargetedUnharmed
    <2> HIDE DEF new
    <2>3. ~lost /\ (db' = db \/ (session[w].snap = db /\ db' = new))
      BY <2>1, SaveNow
    <2> QED
      BY <1>2, <2>2, <2>3
  <1> QED
    BY <1>3, <1>4, <1>5, <1>6, <1>7, <1>8 DEF Saving

-----------------------------------------------------------------------------
(* A step that is not the user's. *)

Frame(u) ==
    /\ session'[u] = session[u] /\ ended'[u] = ended[u] /\ HostedSame(u)
    /\ ~lost' => ~lost /\ Unharmed(db, db', u)

LEMMA FrameKeeps ==
  ASSUME DeployInv, NEW u \in User, GoodRevocation(u), GoodFollowing(u), Frame(u)
  PROVE  GoodRevocation(u)' /\ GoodFollowing(u)'
  <1>1. KnowsOwn(u) /\ ~lost' => KnowsOwn(u)'
    BY DEF Frame, KnowsOwn, Unharmed, Alike
  <1>2. Revoked(u) /\ ~lost' => Revoked(u)'
    BY DEF Frame, Revoked, Unharmed, Alike
  <1>3. \A op, x : (Done(u, op, x)' <=> Done(u, op, x)) /\ (Still(u, op, x)' <=> Still(u, op, x))
    BY DEF Frame, Done, Still
  <1>4. GoodRevocation(u)'
    BY <1>1, <1>2, <1>3 DEF GoodRevocation, Frame
  <1>5. Monitored(u)' => Monitored(u) /\ ~lost'
    BY DEF Monitored, Frame, HostedSame
  <1>6. ASSUME Monitored(u)'
        PROVE  (OnFile(u) => OnFile(u)') /\ (Running(u) => Running(u)')
    <2>1. HasAccount(u)
      BY <1>5, <1>6 DEF Monitored, DeployInv, AccountInv, GoodAccount
    <2>2. AccountOf(u) \in Account /\ Owner(AccountOf(u)) = u /\ AccountOf(u)' = AccountOf(u)
      BY <2>1, AccountIs DEF AccountOf, Frame, HostedSame
    <2> QED
      BY <1>5, <1>6, <2>2 DEF OnFile, Running, Frame, HostedSame, Unharmed, Alike
  <1>7. Monitored(u)' => (Followed(u) => Followed(u)')
    BY <1>6 DEF Followed
  <1>8. Done(u, "pause", "host_off")' => hosted'.desired[u] # "RUNNING"
    BY <1>3 DEF GoodFollowing, Frame, HostedSame
  <1>9. session'[u] = session[u]
    BY DEF Frame
  <1> QED
    BY <1>3, <1>4, <1>5, <1>6, <1>7, <1>8, <1>9 DEF GoodFollowing

LEMMA ActFrame ==
  ASSUME DeployInv, NEW w \in Users, NEW u \in User, u # w, Act(w)
  PROVE  Frame(u)
  <1>1. session'[u] = session[u] /\ ended'[u] = ended[u]
    BY ActSession DEF Session, Users
  <1>2. HostedSame(u)
    BY ActHosted
  <1>3. CASE Saving(w)
    BY <1>1, <1>2, <1>3, SavingHarmless DEF Frame
  <1>4. CASE db' = db /\ lost' = lost
    BY <1>1, <1>2, <1>4 DEF Frame, Unharmed, Alike
  <1> QED
    BY <1>3, <1>4, ActKinds
    DEF Plain, HostOn, HostOff, MailboxOff, HostDelete, WriteWid, FlagOn, FlagOff, Spawn,
        Load, MailboxOn, MailboxHidden, HostedFails, LookForOthers, Look, CliLook, Kill

LEMMA DaemonFrame ==
  ASSUME DeployInv, NEW p \in Process, NEW u \in User, Daemon(p)
  PROVE  Frame(u)
  <1>1. UNCHANGED <<hosted, session, ended>>
    BY DEF Daemon, Boot, ClaimLoad, ClaimSave, RenewLoad, RenewSave, Heartbeat, Die
  <1>2. CASE ClaimSave(p)
    <2>1. ~lost' => ~lost /\ proc[p].snap = db
      BY <1>2 DEF ClaimSave, Write
    <2>2. db \in Db
      BY DEF DeployInv, FileInv, FilesUpTo
    <2>3. db' = [proc[p].snap EXCEPT !.lease[proc[p].wid] = claims']
      BY <1>2 DEF ClaimSave, Write
    <2>4. ~lost' => db'.known = db.known /\ db'.active = db.active /\ db'.usable = db.usable
                    /\ db'.run = db.run
      BY <2>1, <2>2, <2>3 DEF Db
    <2> QED
      BY <1>1, <2>1, <2>4 DEF Frame, HostedSame, Unharmed, Alike
  <1>3. CASE RenewSave(p)
    <2>1. ~lost' => ~lost /\ db' = db
      BY <1>3 DEF RenewSave, Write
    <2> QED
      BY <1>1, <2>1 DEF Frame, HostedSame, Unharmed, Alike
  <1>4. CASE db' = db /\ lost' = lost
    BY <1>1, <1>4 DEF Frame, HostedSame, Unharmed, Alike
  <1> QED
    BY <1>2, <1>3, <1>4 DEF Daemon, Boot, ClaimLoad, RenewLoad, Heartbeat, Die

-----------------------------------------------------------------------------
(* A step of the user's own script. *)

LEMMA ContinueGoes ==
  ASSUME DeployInv, NEW u \in User, session[u] # Nobody, Session(u),
         NEW s, s.op = session[u].op, NEW rest, Continue(u, s, rest),
         rest = <<>> => session'[u] = Nobody,
         rest # <<>> => session'[u] # Nobody /\ session'[u].todo = rest,
         \A y \in Marks : Left(rest, y) <=> Left(Remaining(u), y),
         rest # <<>> /\ rest[1] = "host_on" => rest = Remaining(u)
  PROVE  Script1(u)
  <1>1. ended \in [User -> {"no"} \cup Ending]
    BY DEF DeployInv, DeployType
  <1>2. CASE rest = <<>>
    <2>1. ended'[u] = (IF session[u].op \in Ending THEN session[u].op ELSE ended[u])
      BY <1>1, <1>2 DEF Continue
    <2>2. \A y : ~Left(<<>>, y)
      BY DEF Left
    <2> QED
      BY <1>2, <2>1, <2>2 DEF Script1
  <1>3. CASE rest # <<>>
    <2>1. ended'[u] = ended[u]
      BY <1>3 DEF Continue
    <2> QED
      BY <1>3, <2>1 DEF Script1, Session
  <1> QED
    BY <1>2, <1>3

LEMMA AdvanceGoes ==
  ASSUME DeployInv, NEW u \in User, session[u] # Nobody, Session(u),
         NEW s, s.op = session[u].op, Continue(u, s, Remaining(u)),
         Remaining(u) = <<>> => session'[u] = Nobody,
         Remaining(u) # <<>> => session'[u] # Nobody /\ session'[u].todo = Remaining(u)
  PROVE  Script1(u)
  BY ContinueGoes

\* A script that is about to save has just read the file.
LEMMA KnowsUnless ==
  ASSUME NEW u, session'[u] # Nobody => session'[u].todo[1] \notin Saves
  PROVE  KnowsOwn(u)'
  BY DEF KnowsOwn

LEMMA PlainOwn ==
  ASSUME DeployInv, DeployInv', NEW u \in User, GoodRevocation(u), GoodFollowing(u),
         Plain(u), ~HostOn(u)
  PROVE  GoodRevocation(u)' /\ GoodFollowing(u)'
  <1>1. /\ Session(u) /\ session[u] # Nobody /\ Advance(u) /\ u \in Users
        /\ session[u].todo[1] \in Plainly
        /\ Remaining(u) = <<>> => session'[u] = Nobody
        /\ Remaining(u) # <<>> => /\ session'[u] # Nobody /\ session'[u].todo = Remaining(u)
                                  /\ session'[u].todo[1] \notin Saves
    BY PlainSession DEF Users
  <1>2. Script1(u)
    BY <1>1, AdvanceGoes DEF Advance
  <1>3. KnowsOwn(u)'
    BY <1>1, KnowsUnless
  <1>4. Head(session[u].todo) = session[u].todo[1] /\ hosted \in Hosts
    BY <1>1, AtHead DEF DeployInv, DeployType
  <1>5. db' = db /\ lost' = lost
    BY DEF Plain, HostOn, HostOff, MailboxOff, HostDelete, WriteWid, FlagOn, FlagOff, Spawn
  <1>6. /\ session[u].todo[1] # "host_on" /\ Hosted1(u)
    <2>1. CASE HostOff(u)
      <3>1. hosted' = [hosted EXCEPT !.desired[u] = IF @ = "none" THEN @ ELSE "STOPPED"]
            /\ session[u].todo[1] = "host_off"
        BY <1>4, <2>1 DEF HostOff, Takes
      <3> QED
        BY <1>4, <3>1 DEF Hosted1, Hosts
    <2>2. CASE MailboxOff(u)
      <3>1. hosted' = [hosted EXCEPT !.active = @ \ {u}] /\ session[u].todo[1] = "mailbox_off"
        BY <1>4, <2>2 DEF MailboxOff, Takes
      <3> QED
        BY <1>4, <3>1 DEF Hosted1, Hosts
    <2>3. CASE HostDelete(u)
      <3>1. hosted' = [hosted EXCEPT !.desired[u] = "none", !.active = @ \ {u}]
            /\ session[u].todo[1] = "host_delete"
        BY <1>4, <2>3 DEF HostDelete, Takes
      <3> QED
        BY <1>4, <3>1 DEF Hosted1, Hosts
    <2>4. CASE WriteWid(u) \/ FlagOn(u) \/ FlagOff(u) \/ \E p \in Process : Spawn(u, p)
      <3>1. hosted' = hosted /\ session[u].todo[1] \in {"wid", "flag_on", "flag_off", "spawn"}
        BY <1>4, <2>4 DEF WriteWid, FlagOn, FlagOff, Spawn, Takes
      <3> QED
        BY <3>1 DEF Hosted1
    <2> QED
      BY <2>1, <2>2, <2>3, <2>4 DEF Plain
  <1>7. File1(u)
    BY <1>1, <1>5 DEF File1, Plainly
  <1>8. session[u].todo[1] \notin {"host_on", "mailbox_on", "save_off", "save_sync"}
    BY <1>1, <1>6 DEF Plainly
  <1> QED
    BY <1>1, <1>2, <1>3, <1>6, <1>7, <1>8, Goes

LEMMA HostOnOwn ==
  ASSUME DeployInv, DeployInv', NEW u \in User, GoodRevocation(u), GoodFollowing(u), HostOn(u)
  PROVE  GoodRevocation(u)' /\ GoodFollowing(u)'
  <1> DEFINE t == session[u].todo
             r == Remaining(u)
             op == session[u].op
  <1>1. /\ Session(u) /\ session[u] # Nobody /\ Advance(u) /\ u \in Users
        /\ r = <<>> => session'[u] = Nobody
        /\ r # <<>> => /\ session'[u] # Nobody /\ session'[u].todo = r
                       /\ session'[u].todo[1] \notin Saves
    BY PlainSession DEF Users, Plain
  <1>2. /\ Head(t) = t[1] /\ t \in Seq(Step) /\ t # <<>> /\ op \in Op /\ Shape(op, t)
        /\ t[1] \in StepsOf(op) /\ hosted \in Hosts /\ r = Tail(t)
    BY <1>1, AtHead DEF DeployInv, DeployType, Remaining
  <1>3. /\ t[1] = "host_on" /\ db' = db /\ lost' = lost
        /\ hosted' = [hosted EXCEPT !.desired[u] = "RUNNING",
                                    !.gen[u] = IF HasAccount(u) THEN @ ELSE @ + 1]
    BY <1>2 DEF HostOn, Takes
  <1>4. op \in {"connect", "resume"}
    BY <1>2, <1>3 DEF StepsOf, Op
  <1>5. op = "resume" => Left(r, "save_run") /\ r[1] # "host_on"
    <2> SUFFICES ASSUME op = "resume" PROVE Left(r, "save_run") /\ r[1] # "host_on"
      OBVIOUS
    <2>1. Left(r, "save_run")
      BY <1>2, <1>3, Leading DEF Shape, ResumeOrder
    <2>2. r # <<>>
      BY <2>1 DEF Left
    <2> QED
      BY <1>1, <2>1, <2>2, AfterHead
  <1>6. op = "connect" => Left(r, "save_sync")
    BY <1>2, <1>3, Leading DEF Shape, ConnectOrder
  <1>7. op = "connect" /\ Left(r, "mailbox_on") => Left(r, "save_run") /\ r[1] # "host_on"
    <2> SUFFICES ASSUME op = "connect", Left(r, "mailbox_on")
                 PROVE  Left(r, "save_run") /\ r[1] # "host_on"
      OBVIOUS
    <2>1. Left(t, "mailbox_on")
      BY <1>1, AfterHead
    <2>2. t = ConnectScript
      BY <1>2, <1>3, <2>1 DEF Shape, ConnectOrder
    <2>3. r = Tail(ConnectScript)
      BY <1>2, <2>2
    <2>4. Left(Tail(ConnectScript), "save_run") /\ Tail(ConnectScript)[1] = "load"
      BY DEF ConnectScript, Left
    <2> QED
      BY <2>3, <2>4
  <1>8. r # <<>>
    BY <1>4, <1>5, <1>6 DEF Left
  <1>9. /\ session'[u] # Nobody /\ session'[u].todo = r /\ session'[u].op = op
        /\ ended'[u] = ended[u]
    BY <1>1, <1>8 DEF Session, Advance, Continue
  <1>10. KnowsOwn(u)'
    BY <1>1, KnowsUnless
  <1>11. \A x \in Marks : Left(r, x) <=> Left(t, x)
    BY <1>1, <1>3, AfterHead DEF Marks
  <1>12. GoodRevocation(u)'
    <2>1. Done(u, "connect", "mailbox_on")' => Done(u, "connect", "mailbox_on")
      BY <1>1, <1>9, <1>11 DEF Done, Marks
    <2>2. ~Done(u, "disconnect", "save_off")'
      BY <1>4, <1>9 DEF Done
    <2>3. Revoked(u)' <=> Revoked(u)
      BY <1>3 DEF Revoked
    <2> QED
      BY <1>3, <1>9, <1>10, <2>1, <2>2, <2>3 DEF GoodRevocation
  <1>13. Monitored(u)' => Monitored(u) /\ AccountOf(u)' = AccountOf(u)
    <2> SUFFICES ASSUME Monitored(u)' PROVE Monitored(u) /\ AccountOf(u)' = AccountOf(u)
      OBVIOUS
    <2>1. Monitored(u)
      BY <1>2, <1>3, <1>9 DEF Monitored, Hosts
    <2>2. HasAccount(u)
      BY <2>1 DEF Monitored, DeployInv, AccountInv, GoodAccount
    <2> QED
      BY <1>2, <1>3, <2>1, <2>2 DEF AccountOf, Hosts
  <1>14. (Monitored(u)' /\ OnFile(u)) => OnFile(u)'
    BY <1>3, <1>13 DEF OnFile
  <1>15. Monitored(u)' /\ (op = "resume" \/ Left(r, "mailbox_on")) => OnFile(u)'
    <2>1. Left(r, "mailbox_on") <=> Left(t, "mailbox_on")
      BY <1>11 DEF Marks
    <2> QED
      BY <1>1, <1>4, <1>13, <1>14, <2>1 DEF GoodFollowing, Still
  <1> QED
    BY <1>4, <1>5, <1>6, <1>7, <1>9, <1>12, <1>15 DEF GoodFollowing, Still, Done

LEMMA MailboxOnOwn ==
  ASSUME DeployInv, DeployInv', NEW u \in User, GoodRevocation(u), GoodFollowing(u), MailboxOn(u)
  PROVE  GoodRevocation(u)' /\ GoodFollowing(u)'
  <1>1. /\ Session(u) /\ session[u] # Nobody /\ session[u].op = "connect" /\ ended'[u] = "no"
        /\ session'[u] # Nobody /\ session'[u].todo = Remaining(u)
        /\ Left(Remaining(u), "save_sync") /\ ~Left(Remaining(u), "mailbox_on")
        /\ session'[u].todo[1] \notin Saves
    BY MailboxOnSession DEF Users
  <1>2. session'[u].op = "connect"
    BY <1>1 DEF Session
  <1>3. KnowsOwn(u)'
    BY <1>1, KnowsUnless
  <1>4. GoodRevocation(u)'
    BY <1>1, <1>2, <1>3 DEF GoodRevocation, Done
  <1> QED
    BY <1>1, <1>2, <1>4 DEF GoodFollowing, Done, Still

LEMMA LoadOwn ==
  ASSUME DeployInv, DeployInv', NEW u \in User, GoodRevocation(u), GoodFollowing(u), Load(u)
  PROVE  GoodRevocation(u)' /\ GoodFollowing(u)'
  <1> DEFINE s == [session[u] EXCEPT !.snap = db]
  <1>1. /\ Session(u) /\ session[u] # Nobody /\ session[u].todo[1] = "load"
        /\ Remaining(u) = <<>> => session'[u] = Nobody
        /\ Remaining(u) # <<>> => session'[u] # Nobody /\ session'[u].todo = Remaining(u)
                                  /\ session'[u].snap = db
    BY LoadSession DEF Users
  <1>2. Continue(u, s, Remaining(u)) /\ hosted' = hosted /\ db' = db /\ lost' = lost
    BY DEF Load
  <1>3. session[u] \in Script /\ db \in Db
    BY <1>1, AtHead DEF Users, DeployInv, FileInv, FilesUpTo
  <1>4. s.op = session[u].op
    BY <1>3, WithSnap
  <1> HIDE DEF s
  <1>5. Script1(u)
    BY <1>1, <1>2, <1>4, AdvanceGoes
  <1>6. KnowsOwn(u)'
    BY <1>1, <1>2 DEF KnowsOwn
  <1>7. Hosted1(u) /\ File1(u)
    BY <1>1, <1>2 DEF Hosted1, File1
  <1> QED
    BY <1>1, <1>5, <1>6, <1>7, Goes

\* What all of the user's saves have in common.
LEMMA SavingOwn ==
  ASSUME DeployInv, NEW u \in User, NEW name \in Saves, NEW new, NEW changes,
         Saving(u), Save(u, name, new, changes)
  PROVE  /\ Session(u) /\ session[u] # Nobody /\ session[u].todo[1] = name
         /\ session[u].todo \in Seq(Step) /\ session[u].todo # <<>>
         /\ Remaining(u) = Tail(session[u].todo)
         /\ session[u].op \in Op /\ Shape(session[u].op, session[u].todo)
         /\ name \in StepsOf(session[u].op)
         /\ Remaining(u) = <<>> => session'[u] = Nobody
         /\ Remaining(u) # <<>> => session'[u] # Nobody /\ session'[u].todo = Remaining(u)
         /\ session[u].snap \in FilesUpTo(claims) /\ session[u].snap \in Db
         /\ Script1(u) /\ KnowsOwn(u)' /\ hosted' = hosted
  <1> DEFINE s == [session[u] EXCEPT !.snap = Nobody]
  <1>1. /\ Session(u) /\ session[u] # Nobody
        /\ session[u].snap \in FilesUpTo(claims) /\ session[u].snap \in Db
        /\ Remaining(u) = <<>> => session'[u] = Nobody
        /\ Remaining(u) # <<>> => session'[u] # Nobody /\ session'[u].todo = Remaining(u)
                                  /\ session'[u].todo[1] \notin Saves
    BY SavingSession DEF Users, FilesUpTo
  <1>2. /\ session[u] \in Script /\ Head(session[u].todo) = session[u].todo[1]
        /\ session[u].op \in Op /\ Shape(session[u].op, session[u].todo)
        /\ session[u].todo[1] \in StepsOf(session[u].op)
        /\ session[u].todo \in Seq(Step) /\ session[u].todo # <<>>
    BY <1>1, AtHead DEF Users
  <1>3. session[u].todo[1] = name /\ Continue(u, s, Remaining(u)) /\ hosted' = hosted
    BY <1>2 DEF Save, Takes
  <1>4. s.op = session[u].op
    BY <1>2, WithSnap
  <1> HIDE DEF s
  <1>5. Script1(u)
    BY <1>1, <1>3, <1>4, AdvanceGoes
  <1>6. KnowsOwn(u)'
    BY <1>1, KnowsUnless
  <1> QED
    BY <1>1, <1>2, <1>3, <1>5, <1>6 DEF Remaining

LEMMA HarmlessOwn ==
  ASSUME DeployInv, DeployInv', NEW u \in User, GoodRevocation(u), GoodFollowing(u),
         SaveFree(u) \/ SaveTarget(u)
  PROVE  GoodRevocation(u)' /\ GoodFollowing(u)'
  <1>0. PICK name \in {"save_free", "save_target"} :
          \E new, changes : Save(u, name, new, changes)
    BY DEF SaveFree, SaveTarget
  <1>1. PICK new, changes : Save(u, name, new, changes)
    BY <1>0
  <1>2. name \in Saves /\ Saving(u)
    BY DEF Saves, Saving
  <1>3. /\ session[u] # Nobody /\ session[u].todo[1] = name
        /\ Script1(u) /\ KnowsOwn(u)' /\ hosted' = hosted
    BY <1>1, <1>2, SavingOwn
  <1>4. ~lost' => ~lost /\ Unharmed(db, db', u)
    BY <1>2, SavingHarmless DEF Users
  <1>5. Hosted1(u) /\ File1(u)
    BY <1>3, <1>4 DEF Hosted1, File1, Unharmed, Alike
  <1> QED
    BY <1>3, <1>5, Goes

LEMMA SaveRunOwn ==
  ASSUME DeployInv, DeployInv', NEW u \in User, GoodRevocation(u), GoodFollowing(u), SaveRun(u)
  PROVE  GoodRevocation(u)' /\ GoodFollowing(u)'
  <1> DEFINE new == Desired(session[u].snap, u, TRUE)
  <1>1. Save(u, "save_run", new, Mine(u) # {}) /\ "save_run" \in Saves /\ Saving(u)
    BY DEF SaveRun, Saves, Saving
  <1> HIDE DEF new
  <1>2. /\ session[u] # Nobody /\ session[u].todo[1] = "save_run" /\ session[u].snap \in Db
        /\ Script1(u) /\ KnowsOwn(u)' /\ hosted' = hosted
    BY <1>1, SavingOwn
  <1> USE DEF new
  <1>3. ~lost' => ~lost /\ Unharmed(db, db', u)
    BY <1>1, SavingHarmless DEF Users
  <1>4. ASSUME ~lost', OnFile(u) PROVE AccountOf(u) \in db'.run
    <2>1. ~lost /\ (db' = db \/ (Mine(u) # {} /\ session[u].snap = db /\ db' = new))
      BY <1>1, <1>4, SaveNow
    <2>2. db \in Db /\ Sound(db)
      BY DEF DeployInv, FileInv, FilesUpTo
    <2>3. AccountOf(u) \in Account /\ AccountOf(u) \in db.known
      BY <1>4, <2>2 DEF OnFile, Sound, Db
    <2>4. Owner(AccountOf(u)) = u
      BY DEF AccountOf, Owner
    <2>5. AccountOf(u) \in session[u].snap.known
      BY <1>2, <2>1, <2>3, <2>4 DEF GoodRevocation, KnowsOwn, Saves
    <2>6. Mine(u) # {}
      BY <2>4, <2>5 DEF Mine
    <2>7. db' = new
      BY <1>1, <2>6 DEF Save
    <2> QED
      BY <1>2, <2>4, <2>5, <2>7 DEF Desired, Db
  <1>5. Hosted1(u)
    BY <1>2 DEF Hosted1
  <1>6. File1(u)
    BY <1>3, <1>4 DEF File1, Unharmed, Alike
  <1> QED
    BY <1>2, <1>5, <1>6, Goes

LEMMA SaveStopOwn ==
  ASSUME DeployInv, DeployInv', NEW u \in User, GoodRevocation(u), GoodFollowing(u), SaveStop(u)
  PROVE  GoodRevocation(u)' /\ GoodFollowing(u)'
  <1> DEFINE new == Desired(session[u].snap, u, FALSE)
             t == session[u].todo
  <1>1. Save(u, "save_stop", new, Mine(u) # {}) /\ "save_stop" \in Saves /\ Saving(u)
    BY DEF SaveStop, Saves, Saving
  <1> HIDE DEF new
  <1>2. /\ session[u] # Nobody /\ t[1] = "save_stop" /\ session[u].snap \in Db
        /\ t \in Seq(Step) /\ t # <<>> /\ Remaining(u) = Tail(t)
        /\ Shape(session[u].op, t) /\ session[u].op \in Op /\ "save_stop" \in StepsOf(session[u].op)
        /\ Script1(u) /\ KnowsOwn(u)' /\ hosted' = hosted
    BY <1>1, SavingOwn
  <1> USE DEF new
  <1>3. session[u].op = "pause"
    BY <1>2 DEF StepsOf, Op, Starting
  <1>4. ~Left(t, "host_off")
    <2>1. ~Left(Remaining(u), "host_off")
      BY <1>2, <1>3, Barring DEF Shape, PauseOrder
    <2> QED
      BY <1>2, <2>1, AfterHead
  <1>5. hosted.desired[u] # "RUNNING"
    BY <1>2, <1>3, <1>4 DEF GoodFollowing, Done
  <1>6. ~lost' => ~lost /\ Alike(db, db', u)
    <2>1. Alike(session[u].snap, new, u)
      BY <1>2, DesiredAlike
    <2>2. Alike(db, db, u)
      BY DEF Alike
    <2> HIDE DEF new
    <2> QED
      BY <1>1, <2>1, <2>2, SaveNow
  <1>7. Hosted1(u) /\ File1(u)
    BY <1>2, <1>5, <1>6 DEF Hosted1, File1, Alike
  <1> QED
    BY <1>2, <1>7, Goes

LEMMA SaveSyncOwn ==
  ASSUME DeployInv, DeployInv', NEW u \in User, GoodRevocation(u), GoodFollowing(u), SaveSync(u)
  PROVE  GoodRevocation(u)' /\ GoodFollowing(u)'
  <1> DEFINE new == Synced(session[u].snap, AccountOf(u))
             t == session[u].todo
  <1>1. Save(u, "save_sync", new, TRUE) /\ "save_sync" \in Saves /\ Saving(u)
    BY DEF SaveSync, Saves, Saving
  <1> HIDE DEF new
  <1>2. /\ session[u] # Nobody /\ t[1] = "save_sync" /\ Session(u)
        /\ t \in Seq(Step) /\ t # <<>> /\ Remaining(u) = Tail(t)
        /\ Shape(session[u].op, t) /\ session[u].op \in Op
        /\ Script1(u) /\ KnowsOwn(u)' /\ hosted' = hosted
    BY <1>1, SavingOwn
  <1> USE DEF new
  <1>3. session[u].op = "connect"
    BY <1>2, PastFirst DEF Users
  <1>4. ~Left(t, "mailbox_on")
    <2>1. ~Left(Remaining(u), "mailbox_on")
      BY <1>2, <1>3, Barring DEF Shape, ConnectOrder
    <2> QED
      BY <1>2, <2>1, AfterHead
  <1>5. ended[u] = "no" /\ ended'[u] = "no"
    BY <1>2, <1>3, <1>4 DEF GoodRevocation, Done, Script1, Ending
  <1>6. session'[u] # Nobody => session'[u].op = "connect"
    BY <1>2, <1>3 DEF Session
  <1>7. GoodRevocation(u)'
    BY <1>2, <1>5, <1>6 DEF GoodRevocation, Done
  <1>8. Followed(u)'
    <2>1. db' = new /\ AccountOf(u)' = AccountOf(u)
      BY <1>1, <1>2 DEF Save, AccountOf
    <2> QED
      BY <2>1 DEF Followed, OnFile, Running, Synced
  <1> QED
    BY <1>6, <1>7, <1>8 DEF GoodFollowing, Followed, Still, Done

LEMMA SaveOffOwn ==
  ASSUME DeployInv, DeployInv', NEW u \in User, GoodRevocation(u), GoodFollowing(u), SaveOff(u)
  PROVE  GoodRevocation(u)' /\ GoodFollowing(u)'
  <1> DEFINE new == Deactivated(session[u].snap, u)
             t == session[u].todo
  <1>1. Save(u, "save_off", new, Mine(u) # {}) /\ "save_off" \in Saves /\ Saving(u)
    BY DEF SaveOff, Saves, Saving
  <1> HIDE DEF new
  <1>2. /\ session[u] # Nobody /\ t[1] = "save_off" /\ Session(u) /\ session[u].snap \in Db
        /\ t \in Seq(Step) /\ t # <<>> /\ Remaining(u) = Tail(t)
        /\ Shape(session[u].op, t) /\ session[u].op \in Op /\ "save_off" \in StepsOf(session[u].op)
        /\ Remaining(u) = <<>> => session'[u] = Nobody
        /\ Remaining(u) # <<>> => session'[u] # Nobody /\ session'[u].todo = Remaining(u)
        /\ Script1(u) /\ KnowsOwn(u)' /\ hosted' = hosted
    BY <1>1, SavingOwn
  <1> USE DEF new
  <1>3. session[u].op = "disconnect"
    BY <1>2 DEF StepsOf, Op, Starting
  <1>4. ~Left(Remaining(u), "save_off")
    BY <1>2, <1>3, Barring DEF Shape, DisconnectOrder
  <1>5. session'[u] # Nobody => session'[u].op = "disconnect"
    BY <1>2, <1>3 DEF Session
  <1>6. ~lost' => Revoked(u)'
    <2> SUFFICES ASSUME ~lost' PROVE Revoked(u)'
      OBVIOUS
    <2>1. ~lost
      BY <1>1, SaveNow
    <2>2. CASE Mine(u) = {}
      <3>1. db' = db
        BY <1>1, <2>2 DEF Save
      <3>2. db \in Db /\ Sound(db)
        BY DEF DeployInv, FileInv, FilesUpTo
      <3>3. \A a \in Account : Owner(a) = u => a \notin session[u].snap.known
        BY <2>2 DEF Mine
      <3>4. \A a \in Account : Owner(a) = u => a \notin db.known
        BY <1>2, <2>1, <3>3 DEF GoodRevocation, KnowsOwn, Saves
      <3> QED
        BY <3>1, <3>2, <3>4 DEF Revoked, Sound
    <2>3. CASE Mine(u) # {}
      <3>1. db' = new
        BY <1>1, <2>3 DEF Save
      <3>2. \A a \in Account : Owner(a) = u => a \notin new.active /\ a \notin new.usable
        BY <1>2 DEF Deactivated, Db
      <3> QED
        BY <3>1, <3>2 DEF Revoked
    <2> QED
      BY <2>2, <2>3
  <1>7. GoodRevocation(u)'
    BY <1>2, <1>5, <1>6 DEF GoodRevocation, Done
  <1>8. session'[u] = Nobody => ended'[u] = "disconnect"
    BY <1>3, <1>2 DEF Script1, Ending
  <1> QED
    BY <1>2, <1>4, <1>5, <1>7, <1>8 DEF GoodFollowing, Monitored, Still, Done

LEMMA LookOwn ==
  ASSUME DeployInv, DeployInv', NEW u \in User, GoodRevocation(u), GoodFollowing(u), Look(u)
  PROVE  GoodRevocation(u)' /\ GoodFollowing(u)'
  <1> DEFINE t == session[u].todo
             op == session[u].op
             Absent == {"host_on", "mailbox_on", "save_run", "save_sync"}
  <1>1. /\ Session(u) /\ session[u] # Nobody /\ t[1] = "look"
        /\ session'[u] # Nobody => \A x \in Absent : ~Left(session'[u].todo, x)
        /\ session'[u] # Nobody => session'[u].todo[1] \notin Saves
    BY LookSession DEF Users
  <1>2. /\ session[u] \in Script /\ t \in Seq(Step) /\ t # <<>> /\ op \in Op /\ Shape(op, t)
        /\ t[1] \in StepsOf(op)
    BY <1>1, AtHead DEF Users
  <1>3. op \in {"connect", "resume"}
    BY <1>1, <1>2 DEF StepsOf, Op
  <1>4. Len(t) = 1
    <2>1. 1 \in 1 .. Len(t) /\ Ends(t)
      BY <1>2 DEF Shape
    <2> QED
      BY <1>1, <2>1 DEF Ends
  <1>5. \A x \in Absent : ~Left(t, x)
    BY <1>1, <1>4 DEF Left
  <1>6. hosted' = hosted /\ db' = db /\ lost' = lost
    BY DEF Look
  <1>7. ended'[u] = ended[u]
    <2> DEFINE s == [session[u] EXCEPT !.target = widfile]
    <2>1. widfile \in Account \cup {Nobody}
      BY DEF DeployInv, DeployType
    <2>2. s.op = op
      BY <1>2, <2>1, WithTarget
    <2> HIDE DEF s
    <2>3. op \notin Ending
      BY <1>3 DEF Ending
    <2>4. PICK rest : Continue(u, s, rest)
      BY DEF Look, s
    <2> QED
      BY <2>2, <2>3, <2>4 DEF Continue
  <1>8. session'[u] # Nobody => session'[u].op = op
    BY <1>1 DEF Session
  <1>9. KnowsOwn(u)'
    BY <1>1, KnowsUnless
  <1>10. Done(u, "connect", "mailbox_on")' => Done(u, "connect", "mailbox_on")
    BY <1>1, <1>5, <1>8 DEF Done
  <1>11. Revoked(u)' <=> Revoked(u)
    BY <1>6 DEF Revoked
  <1>12. GoodRevocation(u)'
    BY <1>3, <1>6, <1>7, <1>8, <1>9, <1>10, <1>11 DEF GoodRevocation, Done
  <1>13. Monitored(u) => Followed(u)
    BY <1>1, <1>3, <1>5 DEF GoodFollowing, Followed, Done
  <1>14. (Monitored(u)' => Monitored(u)) /\ (Followed(u) => Followed(u)')
    BY <1>6, <1>7 DEF Monitored, Followed, OnFile, Running, AccountOf
  <1> QED
    BY <1>3, <1>8, <1>12, <1>13, <1>14 DEF GoodFollowing, Followed, Still, Done

LEMMA OthersOwn ==
  ASSUME DeployInv, DeployInv', NEW u \in User, GoodRevocation(u), GoodFollowing(u),
         LookForOthers(u)
  PROVE  GoodRevocation(u)' /\ GoodFollowing(u)'
  <1> DEFINE r == Remaining(u)
             rest == (IF OthersActive(u) THEN <<>> ELSE <<"flag_off">>) \o r
  <1>1. /\ Session(u) /\ session[u] # Nobody /\ session[u].todo[1] = "others"
        /\ session'[u] # Nobody => session'[u].todo[1] \notin Saves
    BY OthersSession DEF Users
  <1>2. r \in Seq(Step)
    BY <1>1, AtHead DEF Users, Remaining
  <1>3. Continue(u, session[u], rest) /\ hosted' = hosted /\ db' = db /\ lost' = lost
    BY DEF LookForOthers
  <1>4. rest = r \/ rest = <<"flag_off">> \o r
    BY <1>2
  <1> HIDE DEF rest
  <1>5. \A y \in Marks : Left(<<"flag_off">> \o r, y) <=> Left(r, y)
    <2>1. <<"flag_off">> \o r \in Seq(Step) /\ <<"flag_off">> \o r # <<>>
          /\ (<<"flag_off">> \o r)[1] = "flag_off" /\ Tail(<<"flag_off">> \o r) = r
      BY <1>2 DEF Step
    <2>3. "flag_off" \notin Marks
      BY DEF Marks
    <2>4. \A y : Left(<<"flag_off">> \o r, y) <=> y = "flag_off" \/ Left(r, y)
      BY <2>1, LeftOf
    <2> QED
      BY <2>3, <2>4
  <1>6. (<<"flag_off">> \o r)[1] = "flag_off"
    BY <1>2
  <1>7. session \in [Users -> Script \cup {Nobody}] /\ session[u] \in Script
    BY <1>1, AtHead DEF DeployInv, DeployType, Users
  <1>8. /\ rest = <<>> => session'[u] = Nobody
        /\ rest # <<>> => session'[u] # Nobody /\ session'[u].todo = rest
    <2>1. rest \in Seq(Step)
      BY <1>2, <1>4, SMTT(40) DEF Step
    <2>2. CASE rest = <<>>
      BY <1>3, <1>7, <2>2 DEF Continue, Users
    <2>3. CASE rest # <<>>
      <3> DEFINE n == [session[u] EXCEPT !.todo = rest]
      <3>1. n # Nobody /\ n.todo = rest
        BY <1>7, <2>1, WithTodo
      <3>2. session' = [session EXCEPT ![u] = n]
        BY <1>3, <2>3 DEF Continue
      <3> HIDE DEF n
      <3> QED
        BY <1>7, <2>3, <3>1, <3>2 DEF Users
    <2> QED
      BY <2>2, <2>3
  <1>9. Script1(u)
    BY <1>1, <1>3, <1>4, <1>5, <1>6, <1>8, ContinueGoes DEF r
  <1>10. KnowsOwn(u)'
    BY <1>1, KnowsUnless
  <1>11. Hosted1(u) /\ File1(u)
    BY <1>1, <1>3 DEF Hosted1, File1
  <1> QED
    BY <1>1, <1>9, <1>10, <1>11, Goes

LEMMA HiddenOwn ==
  ASSUME DeployInv, DeployInv', NEW u \in User, GoodRevocation(u), GoodFollowing(u),
         MailboxHidden(u)
  PROVE  GoodRevocation(u)' /\ GoodFollowing(u)'
  <1> DEFINE r == Remaining(u)
             q == <<"host_delete">> \o r
             n == <<"others">> \o q
  <1>1. /\ Session(u) /\ session[u] # Nobody /\ session[u].todo[1] = "mailbox_off"
        /\ session[u].op = "disconnect" /\ session'[u] # Nobody
        /\ session'[u].todo = n /\ r \in Seq(Step)
        /\ session'[u].todo[1] \notin Saves
    BY HiddenSession DEF Users
  <1>2. hosted' = hosted /\ db' = db /\ lost' = lost /\ ended' = ended
    <2>1. <<"others", "host_delete">> \o r # <<>>
      BY <1>1
    <2> QED
      BY <2>1 DEF MailboxHidden, Continue
  <1>3. \A y \in Marks : Left(q, y) <=> Left(r, y)
    <2>1. q \in Seq(Step) /\ q # <<>> /\ q[1] = "host_delete" /\ Tail(q) = r
      BY <1>1 DEF Step
    <2>3. "host_delete" \notin Marks
      BY DEF Marks
    <2>4. \A y : Left(q, y) <=> y = "host_delete" \/ Left(r, y)
      BY <2>1, LeftOf
    <2> QED
      BY <2>3, <2>4
  <1>4. \A y \in Marks : Left(n, y) <=> Left(q, y)
    <2>1. q \in Seq(Step)
      BY <1>1 DEF Step
    <2> HIDE DEF q
    <2>2. n \in Seq(Step) /\ n # <<>> /\ n[1] = "others" /\ Tail(n) = q
      BY <2>1 DEF Step
    <2>3. "others" \notin Marks
      BY DEF Marks
    <2>4. \A y : Left(n, y) <=> y = "others" \/ Left(q, y)
      BY <2>2, LeftOf
    <2> QED
      BY <2>3, <2>4
  <1>5. n[1] = "others"
    BY <1>1 DEF Step
  <1> HIDE DEF n, q
  <1>6. Script1(u)
    BY <1>1, <1>2, <1>3, <1>4, <1>5 DEF Script1, Session
  <1>7. KnowsOwn(u)'
    BY <1>1, KnowsUnless
  <1>8. Hosted1(u) /\ File1(u)
    BY <1>1, <1>2 DEF Hosted1, File1
  <1> QED
    BY <1>1, <1>6, <1>7, <1>8, Goes

\* A hosted call fails: a button that ends leaves the file as the hosted tables have it,
\* and one that goes on still has the save to come that brings the file after them.
LEMMA FailsOwn ==
  ASSUME DeployInv, DeployInv', NEW u \in User, GoodRevocation(u), GoodFollowing(u),
         HostedFails(u)
  PROVE  GoodRevocation(u)' /\ GoodFollowing(u)'
  <1> DEFINE t == session[u].todo
             r == Remaining(u)
             op == session[u].op
             Over == /\ session'[u] = Nobody /\ ended' = ended
                     /\ ~(op = "disconnect" /\ t[1] = "host_delete")
                     /\ ~(op = "connect" /\ t[1] = "host_on" /\ HasAccount(u))
             Resorts == /\ op = "disconnect" /\ t[1] = "host_delete"
                        /\ session'[u] # Nobody /\ session'[u].todo = r
                        /\ session'[u].todo[1] \notin Saves
             First == /\ op = "connect" /\ t[1] = "host_on" /\ t = ConnectScript
                      /\ session'[u] # Nobody /\ session'[u].todo = ConnectRest
                      /\ session'[u].todo[1] \notin Saves
             Second == /\ op = "connect" /\ t[1] = "host_on" /\ ~Left(t, "mailbox_on")
                       /\ session'[u] # Nobody /\ session'[u].todo = r
                       /\ Left(r, "save_sync") /\ session'[u].todo[1] \notin Saves
  <1>1. /\ Session(u) /\ session[u] # Nobody /\ t[1] \in HostedSteps
        /\ Over \/ Resorts \/ First \/ Second
    BY FailsSession DEF Users
  <1>2. /\ t \in Seq(Step) /\ t # <<>> /\ op \in Op /\ Shape(op, t) /\ t[1] \in StepsOf(op)
        /\ r = Tail(t) /\ session \in [Users -> Script \cup {Nobody}]
    BY <1>1, AtHead DEF Users, Remaining, DeployInv, DeployType
  <1>3. hosted' = hosted /\ db' = db /\ lost' = lost
    BY DEF HostedFails
  <1>4. ended'[u] = ended[u]
    <2>1. session' = [session EXCEPT ![u] = Nobody] \/ ended' = ended
      BY DEF HostedFails, Continue
    <2>2. session' = [session EXCEPT ![u] = Nobody] => session'[u] = Nobody
      BY <1>2 DEF Users
    <2> QED
      BY <1>1, <2>1, <2>2
  <1>5. session'[u] # Nobody => session'[u].op = op
    BY <1>1 DEF Session
  <1>6. KnowsOwn(u)'
    BY <1>1, KnowsUnless
  <1>7. (Monitored(u)' <=> Monitored(u)) /\ (OnFile(u)' <=> OnFile(u))
        /\ (Running(u)' <=> Running(u)) /\ (Revoked(u)' <=> Revoked(u))
    BY <1>3, <1>4 DEF Monitored, OnFile, Running, Revoked, AccountOf
  <1>8. (Followed(u)' <=> Followed(u))
    BY <1>7 DEF Followed
  <1>9. CASE Over
    <2>1. \A o, x : ~Done(u, o, x)' /\ ~Still(u, o, x)'
      BY <1>9 DEF Done, Still
    <2>2. GoodRevocation(u)'
      BY <1>3, <1>4, <1>6, <1>7, <2>1 DEF GoodRevocation
    <2>3. ASSUME Monitored(u) PROVE Followed(u)
      <3>1. HasAccount(u)
        BY <2>3 DEF Monitored, DeployInv, AccountInv, GoodAccount
      <3>2. CASE op \in {"pause", "deactivate", "delete"}
        BY <1>1, <2>3, <3>2 DEF GoodFollowing
      <3>3. CASE op = "disconnect"
        <4>1. t[1] \in {"host_off", "mailbox_off"}
          BY <1>1, <1>2, <1>9, <3>3 DEF HostedSteps, StepsOf
        <4>2. Left(r, "save_off")
          BY <1>2, <3>3, <4>1, Leading DEF Shape, DisconnectOrder
        <4>3. Left(t, "save_off")
          BY <1>1, <4>2, AfterHead
        <4> QED
          BY <1>1, <2>3, <3>3, <4>3 DEF GoodFollowing, Still
      <3>4. CASE op = "resume"
        <4>1. t[1] = "host_on"
          BY <1>1, <1>2, <3>4 DEF HostedSteps, StepsOf, Starting
        <4> QED
          BY <1>1, <2>3, <3>4, <4>1 DEF GoodFollowing, Followed
      <3>5. CASE op = "connect"
        <4>1. t[1] = "mailbox_on"
          BY <1>1, <1>2, <1>9, <3>1, <3>5 DEF HostedSteps, StepsOf, Starting
        <4>2. Left(t, "mailbox_on") /\ ~Left(t, "save_run")
          <5>1. ~Left(r, "save_run")
            BY <1>2, <3>5, <4>1, Barring DEF Shape, ConnectOrder
          <5> QED
            BY <1>1, <4>1, <5>1, AfterHead
        <4> QED
          BY <1>1, <2>3, <3>5, <4>2 DEF GoodFollowing, Still, Followed
      <3> QED
        BY <1>2, <3>2, <3>3, <3>4, <3>5 DEF Op
    <2> QED
      BY <1>7, <1>8, <1>9, <2>1, <2>2, <2>3 DEF GoodFollowing
  <1>10. CASE Resorts
    <2>1. Script1(u)
      BY <1>1, <1>4, <1>10 DEF Script1, Session
    <2>2. Hosted1(u) /\ File1(u)
      BY <1>3, <1>10 DEF Hosted1, File1
    <2> QED
      BY <1>1, <1>6, <1>10, <2>1, <2>2, Goes
  <1>11. CASE First
    <2>1. Left(t, "mailbox_on") /\ Left(ConnectRest, "mailbox_on")
      BY <1>11 DEF Left, ConnectScript, ConnectRest
    <2>2. ~Done(u, "connect", "mailbox_on")' /\ ~Done(u, "disconnect", "save_off")'
          /\ ~Done(u, "pause", "host_off")' /\ ~Still(u, "disconnect", "save_off")'
      BY <1>5, <1>11, <2>1 DEF Done, Still
    <2>3. GoodRevocation(u)'
      BY <1>3, <1>4, <1>6, <1>7, <2>2 DEF GoodRevocation
    <2>4. Monitored(u) => OnFile(u) /\ Running(u)
      BY <1>1, <1>11, <2>1 DEF GoodFollowing, Still
    <2> QED
      BY <1>5, <1>7, <1>11, <2>2, <2>3, <2>4 DEF GoodFollowing
  <1>12. CASE Second
    <2>1. ~Left(r, "mailbox_on")
      BY <1>1, <1>12, AfterHead
    <2>2. ended[u] = "no"
      BY <1>1, <1>12 DEF GoodRevocation, Done
    <2>3. ~Done(u, "disconnect", "save_off")' /\ ~Done(u, "pause", "host_off")'
          /\ ~Still(u, "disconnect", "save_off")' /\ ~Still(u, "connect", "mailbox_on")'
      BY <1>5, <1>12, <2>1 DEF Done, Still
    <2>4. GoodRevocation(u)'
      BY <1>3, <1>4, <1>6, <1>7, <2>2, <2>3 DEF GoodRevocation
    <2> QED
      BY <1>5, <1>12, <2>3, <2>4 DEF GoodFollowing
  <1> QED
    BY <1>1, <1>9, <1>10, <1>11, <1>12

\* A button pressed starts from a file that follows.
LEMMA BeginOwn ==
  ASSUME DeployInv, NEW u \in User, GoodRevocation(u), GoodFollowing(u), NEW op \in Op,
         Begin(u, op)
  PROVE  GoodRevocation(u)' /\ GoodFollowing(u)'
  <1>1. /\ session[u] = Nobody /\ session'[u] # Nobody /\ session'[u].op = op
        /\ session'[u].todo[1] \notin Saves
        /\ op = "pause" => Left(session'[u].todo, "host_off")
        /\ op = "disconnect" => Left(session'[u].todo, "save_off")
        /\ op = "connect" => session'[u].todo = ConnectScript
        /\ ended' = ended
    BY BeginSession DEF Users
  <1>2. hosted' = hosted /\ db' = db /\ lost' = lost
    BY DEF Begin
  <1>3. KnowsOwn(u)'
    BY <1>1, KnowsUnless
  <1>4. Left(ConnectScript, "mailbox_on")
    BY DEF Left, ConnectScript
  <1>5. ~Done(u, "connect", "mailbox_on")' /\ ~Done(u, "disconnect", "save_off")'
        /\ ~Done(u, "pause", "host_off")'
    BY <1>1, <1>4 DEF Done
  <1>6. (Monitored(u)' <=> Monitored(u)) /\ (OnFile(u)' <=> OnFile(u))
        /\ (Running(u)' <=> Running(u)) /\ (Revoked(u)' <=> Revoked(u))
    BY <1>1, <1>2 DEF Monitored, OnFile, Running, Revoked, AccountOf
  <1>7. GoodRevocation(u)'
    BY <1>1, <1>2, <1>3, <1>5, <1>6 DEF GoodRevocation
  <1>8. Monitored(u) => OnFile(u) /\ Running(u)
    BY <1>1 DEF GoodFollowing, Followed
  <1> QED
    BY <1>1, <1>5, <1>6, <1>7, <1>8 DEF GoodFollowing, Followed

-----------------------------------------------------------------------------
(* The two invariants. *)

LEMMA UserInit == Init => UserInv
  <1> SUFFICES ASSUME Init, NEW u \in User PROVE GoodRevocation(u) /\ GoodFollowing(u)
    BY DEF UserInv
  <1>1. session[u] = Nobody /\ ended[u] = "no" /\ u \notin hosted.active
    BY DEF Init
  <1> QED
    BY <1>1 DEF GoodRevocation, GoodFollowing, KnowsOwn, Done, Still, Monitored

LEMMA ActOwn ==
  ASSUME DeployInv, DeployInv', NEW u \in User, GoodRevocation(u), GoodFollowing(u), Act(u)
  PROVE  GoodRevocation(u)' /\ GoodFollowing(u)'
  <1>1. CASE Plain(u)
    BY <1>1, PlainOwn, HostOnOwn
  <1>2. CASE Saving(u)
    BY <1>2, HarmlessOwn, SaveRunOwn, SaveStopOwn, SaveSyncOwn, SaveOffOwn DEF Saving
  <1>3. ~CliLook(u) /\ ~Kill(u)
    <2>1. ~Kill(u)
      BY KillSession, DeploymentAssumption DEF Users
    <2>2. ~CliLook(u)
      <3> SUFFICES ASSUME CliLook(u) PROVE FALSE
        OBVIOUS
      <3>1. session[u] # Nobody /\ session[u].todo[1] = "cli_look"
        BY CliLookSession DEF Users
      <3>2. session[u].op \in Op /\ "cli_look" \in StepsOf(session[u].op)
        BY <3>1, AtHead DEF Users
      <3> QED
        BY <3>2 DEF Op, StepsOf, Starting
    <2> QED
      BY <2>1, <2>2
  <1> QED
    BY <1>1, <1>2, <1>3, ActKinds, LoadOwn, MailboxOnOwn, HiddenOwn, FailsOwn, OthersOwn, LookOwn

LEMMA UserStep ==
  ASSUME DeployInv, DeployInv', UserInv, [Next]_vars
  PROVE  UserInv'
  <1> SUFFICES ASSUME NEW u \in User PROVE GoodRevocation(u)' /\ GoodFollowing(u)'
    BY DEF UserInv
  <1>1. GoodRevocation(u) /\ GoodFollowing(u)
    BY DEF UserInv
  <1>2. ASSUME NEW w \in Users, Act(w) PROVE GoodRevocation(u)' /\ GoodFollowing(u)'
    <2>1. CASE w = u
      BY <1>1, <1>2, <2>1, ActOwn
    <2>2. CASE w # u
      BY <1>1, <1>2, <2>2, ActFrame, FrameKeeps
    <2> QED
      BY <2>1, <2>2
  <1>3. ASSUME NEW w \in Users, NEW op \in Op \cup OperatorOp, Begin(w, op)
        PROVE  GoodRevocation(u)' /\ GoodFollowing(u)'
    <2>1. CASE w = u
      <3>1. op \in Op
        BY <1>3, <2>1, BeginSession
      <3> QED
        BY <1>1, <1>3, <2>1, <3>1, BeginOwn
    <2>2. CASE w # u
      <3>1. session'[u] = session[u] /\ ended' = ended
        BY <1>3, <2>2, BeginSession DEF Users
      <3>2. hosted' = hosted /\ db' = db /\ lost' = lost
        BY <1>3 DEF Begin
      <3>3. Frame(u)
        BY <3>1, <3>2 DEF Frame, HostedSame, Unharmed, Alike
      <3> QED
        BY <1>1, <3>3, FrameKeeps
    <2> QED
      BY <2>1, <2>2
  <1>4. ASSUME NEW p \in Process, Daemon(p) PROVE GoodRevocation(u)' /\ GoodFollowing(u)'
    BY <1>1, <1>4, DaemonFrame, FrameKeeps
  <1>5. CASE UNCHANGED vars \/ \E c \in live : LeaseRunsOut(c)
    <2>1. UNCHANGED <<hosted, db, lost, session, ended>>
      BY <1>5 DEF vars, LeaseRunsOut
    <2>2. Frame(u)
      BY <2>1 DEF Frame, HostedSame, Unharmed, Alike
    <2> QED
      BY <1>1, <2>2, FrameKeeps
  <1> QED
    BY <1>2, <1>3, <1>4, <1>5 DEF Next, Users

LEMMA UserInvariant == Spec => []UserInv
  <1>1. Init => UserInv
    BY UserInit
  <1>2. DeployInv /\ DeployInv' /\ UserInv /\ [Next]_vars => UserInv'
    BY UserStep
  <1> QED
    BY <1>1, <1>2, DeployInvariant, PTL DEF Spec

\* Unless a save was lost, the file keeps no usable credential of a user who has
\* disconnected and whose mailbox was not connected again, whatever any number of other
\* users, daemons and the operator do between any two steps.
THEOREM RevocationAlwaysHolds == Spec => []RevocationHolds
  <1>1. DeployInv /\ UserInv => RevocationHolds
    <2> SUFFICES ASSUME DeployInv, UserInv, ~lost, NEW u \in User, ended[u] = "disconnect",
                        NEW a \in AccountsOf(u)
                 PROVE  a \notin db.active \cup db.usable
      BY DEF RevocationHolds
    <2>1. a \in Account /\ Owner(a) = u
      BY DEF AccountsOf, DeployInv, FileInv, FilesUpTo, Db
    <2> QED
      BY <2>1 DEF UserInv, GoodRevocation, Revoked
  <1> QED
    BY <1>1, DeployInvariant, UserInvariant, PTL

\* Unless a save was lost, the file the daemons read monitors whom the hosted tables
\* show as monitored, whichever button failed half-way and whoever else starts and stops.
THEOREM FileAlwaysFollows == Spec => []LocalFollows
  <1>1. DeployInv /\ UserInv => LocalFollows
    <2> SUFFICES ASSUME DeployInv, UserInv, ~lost, NEW u \in hosted.active,
                        session[u] = Nobody, ended[u] = "no"
                 PROVE  Followed(u)
      BY DEF LocalFollows, Followed, OnFile, Running
    <2>1. u \in User
      BY DEF DeployInv, DeployType, Hosts
    <2> QED
      BY <2>1 DEF UserInv, GoodFollowing, Monitored
  <1> QED
    BY <1>1, DeployInvariant, UserInvariant, PTL
=============================================================================
