------------------------------- MODULE NetFix -------------------------------
(***************************************************************************)
(* tools/netfix.py brings the wifi and the wired device of a machine back  *)
(* after a suspend: it connects, restarts NetworkManager, and reloads the  *)
(* driver or rebinds the USB port, in this order and no further than       *)
(* needed.  The devices are treated one after the other; NetworkManager is *)
(* one for both, connects by itself, and drops connections when restarted. *)
(* A method is the list of the commands it has yet to call.                *)
(***************************************************************************)
EXTENDS Naturals, Sequences

CONSTANT MaxFaults   \* bound: commands without effect, devices that fail meanwhile

Devices == {"wifi", "wired"}
Commands == {"on", "off", "enable", "disable", "softreset", "hardreset"}
Conditions == {"fine", "soft", "hard", "gone", "dead"}

VARIABLES
  cmd,      \* the command netfix was called with
  conf,     \* per device: are its network and its driver or USB port known
  queue,    \* devices to come, the first of them is treated
  todo,     \* what the methods called have yet to do
  act,      \* the strongest measure taken on the device
  out,      \* what is to be printed of each device
  status,   \* status of main
  exit,     \* how netfix ended
  nm,       \* NetworkManager runs
  up,       \* per device: it is connected
  cond,     \* per device: what it takes to get it working
  first,    \* history: nm and cond when netfix was called
  faults    \* how many faults there were

call == <<cmd, conf, first>>
main == <<queue, act, out, status, exit>>
net == <<nm, up, cond>>
netvars == <<call, main, todo, net, faults>>

NoOut == [act |-> "none", net |-> "none"]
Idle == exit = "no" /\ queue # <<>> /\ todo = <<>>
dev == Head(queue)

NetInit ==
  /\ cmd \in Commands
  /\ conf \in [Devices -> {[net |-> TRUE, hard |-> TRUE], [net |-> TRUE, hard |-> FALSE],
                           [net |-> FALSE, hard |-> TRUE]}]
  /\ queue \in {<<"wifi", "wired">>, <<"wired">>}
  /\ todo = <<>> /\ act = "none" /\ out = [d \in Devices |-> NoOut]
  /\ status = TRUE /\ exit = "no"
  /\ nm \in BOOLEAN /\ cond \in [Devices -> Conditions]
  /\ up = [d \in Devices |-> nm /\ cond[d] = "fine"]
  /\ first = [nm |-> nm, cond |-> cond]
  /\ faults = 0

\* check: the wifi must be on its own network, which NetworkManager tells.
Online(d) == up[d] /\ cond[d] = "fine" /\ (d = "wifi" /\ conf[d].net => nm)

-----------------------------------------------------------------------------
(* The methods                                                              *)

ResetSoft(d) == <<"netoff", "restart", "wait", "driver", "neton">>

\* Mutant: NetworkManager is started first and then stopped.
ResetHard_Swapped(d) ==
  IF d = "wired" /\ ~conf[d].hard THEN <<>>
  ELSE <<"start", "offstop", "unload", "load", "wait", "driver", "neton">>

\* The driver is in use again after the reload in the case of wifi; without
\* its USB port nothing is done for wired.
ResetHard(d) ==
  IF d = "wired" /\ ~conf[d].hard THEN <<>>
  ELSE <<"offstop", "unload", "load", "start", "wait", "driver", "neton">>

On == <<"driver", "neton", "judge">>

Enable == <<"load", "ready", "neton", "connect">>

-----------------------------------------------------------------------------
(* The commands they call                                                   *)

\* Who is still connected after NetworkManager went down or was restarted
Drop == up' \in {[d \in Devices |-> up[d] /\ d \in s] : s \in SUBSET Devices}

\* A fresh NetworkManager has no device in a state it cannot leave.
Fresh == cond' = [d \in Devices |-> IF cond[d] = "soft" THEN "fine" ELSE cond[d]]

\* nmcli_off
NetOff == up' = [up EXCEPT ![dev] = @ /\ ~(conf[dev].net /\ nm)] /\ UNCHANGED <<nm, cond>>

\* nmcli_on
NetOn ==
  /\ up' = [up EXCEPT ![dev] = @ \/ (conf[dev].net /\ nm /\ cond[dev] = "fine")]
  /\ UNCHANGED <<nm, cond>>

\* nmcli_command
Stop == IF conf[dev].net THEN nm' = FALSE /\ Drop /\ UNCHANGED cond ELSE UNCHANGED net
StartNM == IF conf[dev].net /\ ~nm THEN nm' = TRUE /\ Fresh /\ UNCHANGED up ELSE UNCHANGED net
RestartNM == IF conf[dev].net THEN nm' = TRUE /\ Drop /\ Fresh ELSE UNCHANGED net

\* driver_off, unbind
Unload ==
  IF conf[dev].hard /\ cond[dev] # "dead"
  THEN /\ cond' = [cond EXCEPT ![dev] = "gone"] /\ up' = [up EXCEPT ![dev] = FALSE]
       /\ UNCHANGED nm
  ELSE UNCHANGED net

\* driver_on, bind
Load ==
  IF conf[dev].hard /\ cond[dev] = "gone"
  THEN cond' = [cond EXCEPT ![dev] = "fine"] /\ UNCHANGED <<nm, up>>
  ELSE UNCHANGED net

\* if not self.activeDriver(): self.driver_on(), which only the wifi has
Driver == IF dev = "wifi" THEN Load ELSE UNCHANGED net

\* What is called has its effect, or none.
Does(op) ==
  \/ op = "netoff" /\ NetOff
  \/ op = "neton" /\ NetOn
  \/ op = "stop" /\ Stop
  \/ op = "start" /\ StartNM
  \/ op = "restart" /\ RestartNM
  \/ op = "unload" /\ Unload
  \/ op = "load" /\ Load
  \/ op = "driver" /\ Driver

Call ==
  /\ exit = "no" /\ todo # <<>>
  /\ \/ Does(Head(todo)) /\ UNCHANGED faults
     \/ /\ Head(todo) \in {"netoff", "neton", "stop", "restart", "unload", "load", "driver"}
        /\ faults < MaxFaults /\ faults' = faults + 1 /\ UNCHANGED net
  /\ todo' = Tail(todo)
  /\ UNCHANGED <<call, main>>

\* The wait for a state other than 'unavailable', which ends with any answer,
\* and nmActive before NetworkManager is stopped
Look ==
  /\ exit = "no" /\ todo # <<>>
  /\ \/ Head(todo) = "wait" /\ todo' = Tail(todo)
     \/ /\ Head(todo) = "offstop"
        /\ todo' = (IF nm THEN <<"netoff", "stop">> ELSE <<>>) \o Tail(todo)
  /\ UNCHANGED <<call, main, net, faults>>

-----------------------------------------------------------------------------
(* main                                                                     *)

\* The device is done with: what is printed of it, and the status.
Report(a, n, good) ==
  /\ out' = [out EXCEPT ![dev] = [act |-> a, net |-> n]]
  /\ status' = (status /\ good)
  /\ queue' = Tail(queue) /\ todo' = <<>> /\ act' = "none"

Word(online) == IF online THEN "online" ELSE "offline"

Do(a, ops) == act' = a /\ todo' = ops /\ UNCHANGED <<queue, out, status>>

\* possible_or_die: what was done for the other device is not printed.
Impossible(d) ==
  \/ cmd = "softreset" /\ ~conf[d].net
  \/ cmd = "hardreset" /\ ~conf[d].hard /\ (d = "wired" \/ ~conf[d].net)

Begin ==
  /\ Idle
  /\ IF Impossible(dev)
     THEN exit' = "died" /\ UNCHANGED <<queue, todo, act, out, status>>
     ELSE /\ UNCHANGED exit
          /\ \/ cmd = "on" /\ Online(dev) /\ Report("noaction", "online", TRUE)
             \/ cmd = "on" /\ ~Online(dev) /\ Do("enabled", On)
             \/ cmd = "off" /\ ~Online(dev) /\ Report("noaction", "offline", TRUE)
             \/ cmd = "off" /\ Online(dev) /\ Do("disabled", <<"netoff", "judge">>)
             \/ cmd = "softreset" /\ Do("softreset", ResetSoft(dev) \o <<"judge">>)
             \/ cmd = "hardreset" /\ Do("hardreset", ResetHard(dev) \o <<"judge">>)
             \/ /\ cmd \in {"enable", "disable"} /\ (dev = "wifi" \/ ~conf[dev].hard)
                /\ Report(cmd, "unsupported", TRUE)
             \/ cmd = "enable" /\ dev = "wired" /\ conf[dev].hard /\ Do("enable", Enable)
             \/ /\ cmd = "disable" /\ dev = "wired" /\ conf[dev].hard
                /\ Do("disable", (IF nm THEN <<"netoff">> ELSE <<>>) \o <<"unload", "disabled">>)
  /\ UNCHANGED <<call, net, faults>>

\* Mutant: connecting is all that is tried.
Harder_Never(d) == FALSE

\* on: a stronger measure follows a failed check.
Harder(d) == act = "enabled" \/ (act = "softreset" /\ conf[d].hard)

\* Mutant: whatever is done is called a success.
Judge_Blind ==
  /\ exit = "no" /\ todo = <<"judge">>
  /\ IF cmd = "on" /\ ~Online(dev) /\ Harder(dev)
     THEN IF act = "enabled" THEN Do("softreset", ResetSoft(dev) \o <<"judge">>)
                             ELSE Do("hardreset", ResetHard(dev) \o <<"judge">>)
     ELSE Report(act, Word(Online(dev)), TRUE)
  /\ UNCHANGED <<call, exit, net, faults>>

\* sleep, check
Judge ==
  /\ exit = "no" /\ todo = <<"judge">>
  /\ IF cmd = "on" /\ ~Online(dev) /\ Harder(dev)
     THEN IF act = "enabled" THEN Do("softreset", ResetSoft(dev) \o <<"judge">>)
                             ELSE Do("hardreset", ResetHard(dev) \o <<"judge">>)
     ELSE Report(act, Word(Online(dev)), Online(dev) <=> cmd # "off")
  /\ UNCHANGED <<call, exit, net, faults>>

\* enable and disable: no failure of theirs has the name "offline".
Conclude ==
  /\ exit = "no" /\ todo # <<>>
  /\ \/ Head(todo) = "disabled" /\ Report("disable", "disabled", TRUE)
     \/ Head(todo) = "ready" /\ Do(act, Tail(todo))
     \/ Head(todo) = "ready" /\ Report("enable", "device_failed", TRUE)
     \/ Head(todo) = "connect" /\ Online(dev) /\ Report("enable", "enabled", TRUE)
     \/ Head(todo) = "connect" /\ ~Online(dev) /\ Report("enable", "connect_failed", TRUE)
  /\ UNCHANGED <<call, exit, net, faults>>

\* All is printed; -rebootonfail
Finish ==
  /\ exit = "no" /\ queue = <<>>
  /\ \/ status /\ exit' = "good"
     \/ ~status /\ exit' = "bad"
     \/ ~status /\ cmd \in {"on", "softreset", "hardreset"} /\ exit' = "reboot"
  /\ UNCHANGED <<call, queue, act, out, status, todo, net, faults>>

-----------------------------------------------------------------------------
(* The machine                                                              *)

\* NetworkManager connects a device by itself.
Autoconnect ==
  /\ exit = "no" /\ nm
  /\ \E d \in Devices : ~up[d] /\ cond[d] = "fine" /\ up' = [up EXCEPT ![d] = TRUE]
  /\ UNCHANGED <<call, main, todo, nm, cond, faults>>

\* A device fails while netfix runs.
Break ==
  /\ exit = "no" /\ faults < MaxFaults /\ faults' = faults + 1
  /\ \E d \in Devices, c \in {"soft", "hard"} :
       cond[d] = "fine" /\ cond' = [cond EXCEPT ![d] = c] /\ up' = [up EXCEPT ![d] = FALSE]
  /\ UNCHANGED <<call, main, todo, nm>>

NetStep == Begin \/ Call \/ Look \/ Judge \/ Conclude \/ Finish

NetNext == NetStep \/ Autoconnect \/ Break

NetSpec == NetInit /\ [][NetNext]_netvars

-----------------------------------------------------------------------------
(* Properties                                                               *)

Ended == exit \in {"good", "bad", "reboot"}
Treated == {d \in Devices : out[d] # NoOut}

\* What the device had needed, as it was when netfix was called
Cured(d) ==
  /\ conf[d].net
  /\ CASE first.cond[d] \in {"fine", "soft"} -> TRUE
       [] first.cond[d] \in {"hard", "gone"} -> conf[d].hard
       [] OTHER -> FALSE

Needs(d, a) ==
  CASE a = "hardreset" -> first.cond[d] \in {"hard", "dead"} \/ (first.cond[d] = "gone" /\ d = "wired")
                          \/ ~conf[d].net
    [] a = "softreset" -> first.cond[d] # "fine" \/ ~first.nm \/ ~conf[d].net
    [] OTHER -> TRUE

\* "netfix on" gets every device online that one of its measures can help,
\* and takes no measure that is stronger than the device needs, unless
\* something fails in the meantime.
Repaired ==
  cmd = "on" /\ faults = 0 =>
    \A d \in Treated : /\ Cured(d) => out[d].net = "online"
                       /\ Needs(d, out[d].act)

\* NetworkManager is down only while a start of it is still to come, and a
\* device is never left without the driver it had.
ComesBack ==
  faults = 0 =>
    /\ first.nm /\ ~nm => \E k \in DOMAIN todo : todo[k] = "start"
    /\ \A d \in Devices : cond[d] = "gone" /\ first.cond[d] # "gone" =>
         cmd = "disable" \/ \E k \in DOMAIN todo : todo[k] = "load"

\* Main's exit code says whether every device is as it was asked for, and the
\* last one still is. Nothing is said of enable and disable: the words they
\* fail with are none of those main looks for, and they exit with 0 anyway.
StatusTrue ==
  Ended /\ cmd \notin {"enable", "disable"} =>
    /\ exit = "good" <=> \A d \in Treated : out[d].net = (IF cmd = "off" THEN "offline" ELSE "online")
    /\ faults = 0 /\ cmd # "off" /\ exit = "good" => Online("wired")

-----------------------------------------------------------------------------
(* The inductive invariant behind the three                                  *)

NetTypeOK ==
  /\ cmd \in Commands
  /\ conf \in [Devices -> [net : BOOLEAN, hard : BOOLEAN]]
  /\ nm \in BOOLEAN /\ up \in [Devices -> BOOLEAN] /\ cond \in [Devices -> Conditions]
  /\ first \in [nm : BOOLEAN, cond : [Devices -> Conditions]]
  /\ status \in BOOLEAN /\ exit \in {"no", "good", "bad", "reboot", "died"}
  /\ faults \in Nat
  /\ out \in [Devices -> [act : {"none", "noaction", "enabled", "disabled", "softreset",
                                 "hardreset", "enable", "disable"},
                          net : {"none", "online", "offline", "unsupported", "disabled",
                                 "device_failed", "enabled", "connect_failed"}]]

\* The devices are reported in their order.
QueueInv ==
  /\ \/ queue = <<"wifi", "wired">> /\ Treated = {}
     \/ queue = <<"wired">> /\ out["wired"] = NoOut
     \/ queue = <<>> /\ out["wired"] # NoOut
  /\ Ended => queue = <<>>

\* What is left of a method, from each of its commands on
LeftOfOn == {<<"driver", "neton", "judge">>, <<"neton", "judge">>, <<"judge">>}
LeftOfSoft ==
  LeftOfOn \cup {<<"netoff", "restart", "wait", "driver", "neton", "judge">>,
                 <<"restart", "wait", "driver", "neton", "judge">>,
                 <<"wait", "driver", "neton", "judge">>}
LeftOfHard ==
  LeftOfOn \cup {<<"offstop", "unload", "load", "start", "wait", "driver", "neton", "judge">>,
                 <<"netoff", "stop", "unload", "load", "start", "wait", "driver", "neton", "judge">>,
                 <<"stop", "unload", "load", "start", "wait", "driver", "neton", "judge">>,
                 <<"unload", "load", "start", "wait", "driver", "neton", "judge">>,
                 <<"load", "start", "wait", "driver", "neton", "judge">>,
                 <<"start", "wait", "driver", "neton", "judge">>,
                 <<"wait", "driver", "neton", "judge">>}
LeftOfOff == {<<"netoff", "judge">>, <<"judge">>}
LeftOfEnable == {<<"load", "ready", "neton", "connect">>, <<"ready", "neton", "connect">>,
                 <<"neton", "connect">>, <<"connect">>}
LeftOfDisable == {<<"netoff", "unload", "disabled">>, <<"unload", "disabled">>, <<"disabled">>}

LeftOf(a) ==
  CASE a = "enabled" -> LeftOfOn [] a = "softreset" -> LeftOfSoft [] a = "hardreset" -> LeftOfHard
    [] a = "disabled" -> LeftOfOff [] a = "enable" -> LeftOfEnable [] a = "disable" -> LeftOfDisable

\* Which method runs for which command, and what is left of it
TodoInv ==
  \/ act = "none" /\ todo = <<>>
  \/ /\ queue # <<>> /\ exit = "no" /\ todo \in LeftOf(act)
     /\ \/ cmd = "on" /\ act \in {"enabled", "softreset", "hardreset"}
        \/ cmd = "off" /\ act = "disabled"
        \/ cmd \in {"softreset", "hardreset", "enable", "disable"} /\ act = cmd
     /\ cmd = "on" /\ act = "hardreset" => conf[dev].hard

\* The command that comes next
At(ops) == todo # <<>> /\ Head(todo) \in ops

\* Without a fault, NetworkManager and the drivers are away only between the
\* two halves of a hard reset, and what was dead stays it.
AwayInv ==
  faults = 0 =>
    /\ \A d \in Devices : cond[d] = "dead" <=> first.cond[d] = "dead"
    /\ first.nm /\ ~nm => /\ act = "hardreset" /\ conf[dev].net
                         /\ At({"unload", "load", "start"})
    /\ \A d \in Devices : cond[d] = "gone" /\ first.cond[d] # "gone" =>
         \/ cmd = "disable"
         \/ act = "hardreset" /\ d = dev /\ conf[d].hard /\ At({"load"})

\* Nothing was done for a device but what NetworkManager did when it restarted.
Untouched(d) == cond[d] = first.cond[d] \/ (first.cond[d] = "soft" /\ cond[d] = "fine")

\* All the device needed was its driver, which "on" loads at once.
Loads == dev = "wifi" /\ conf[dev].hard /\ first.cond[dev] = "gone"
Loaded == IF Loads THEN cond[dev] = "fine" ELSE Untouched(dev)

\* What "on" has reached with the commands behind it
OnInv ==
  cmd = "on" /\ faults = 0 =>
    /\ \A d \in Devices : out[d] = NoOut /\ ~(act # "none" /\ d = dev) => Untouched(d)
    /\ act = "enabled" => IF At({"driver"}) THEN Untouched(dev) ELSE Loaded
    /\ act = "softreset" =>
         /\ Needs(dev, act)
         /\ At({"netoff", "restart"}) => Loaded
         /\ ~At({"netoff", "restart"}) /\ conf[dev].net =>
              nm /\ (first.cond[dev] \in {"fine", "soft"} \/ Loads => cond[dev] = "fine")
    /\ act = "hardreset" =>
         /\ Needs(dev, act)
         /\ At({"load"}) /\ first.cond[dev] # "dead" => cond[dev] = "gone"
         /\ At({"start", "wait", "driver", "neton", "judge"}) /\ first.cond[dev] # "dead" =>
              cond[dev] = "fine"
         /\ At({"wait", "driver", "neton", "judge"}) /\ conf[dev].net => nm
    /\ At({"judge"}) /\ conf[dev].net /\ nm /\ cond[dev] = "fine" => up[dev]

\* The status stands for what is printed, and what is printed last stays true.
StatusInv ==
  cmd \notin {"enable", "disable"} =>
    /\ status <=> \A d \in Treated : out[d].net = (IF cmd = "off" THEN "offline" ELSE "online")
    /\ Ended => (exit = "good" <=> status)
    /\ faults = 0 /\ cmd # "off" /\ out["wired"].net = "online" => Online("wired")

NetIInv ==
  NetTypeOK /\ QueueInv /\ TodoInv /\ AwayInv /\ OnInv /\ StatusInv /\ Repaired
=============================================================================
