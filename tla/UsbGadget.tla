----------------------------- MODULE UsbGadget ------------------------------
(***************************************************************************)
(* The script rootdir/etc/init.mt6893.usb.rc: rules that link functions    *)
(* into the USB gadget when properties change, run by Android's init.      *)
(*                                                                         *)
(* init queues an event for every property that is set, and executes the   *)
(* rules an event triggers command by command, while other processes go on *)
(* setting properties.  The condition on the property of the event is held *)
(* against the event, all others, and every ${...}, against what the       *)
(* properties are by then.  An event no rule could be triggered by is left *)
(* out of the queue.                                                       *)
(*                                                                         *)
(* Not in this tree, and modelled from how the script refers to it: init,  *)
(* configfs, adbd, the framework, and the rules of init.usb.configfs.rc.   *)
(***************************************************************************)
EXTENDS SequencesExt, FiniteSets, TLC

CONSTANTS
  Configs,       \* the main functions the framework asks for
  AcmRequests,   \* the ports other processes ask to have appended
  Aliases,       \* other names for those
  PortIndexes,   \* what they set persist.vendor.radio.port_index to
  Requests,      \* what else they set sys.usb.config to
  MaxRequests,   \* bound: how often the framework and they ask
  Hasty          \* the requests <<property, value>> by those who do not wait

-----------------------------------------------------------------------------
(* The script, as data. *)

\* Every main function, and what it links in from f1 on.
MainFunctions ==
     "adb"              :> <<"ffs.adb">>
  @@ "mtp"              :> <<"ffs.mtp">>
  @@ "mtp,adb"          :> <<"ffs.mtp", "ffs.adb">>
  @@ "ptp"              :> <<"ffs.ptp">>
  @@ "ptp,adb"          :> <<"ffs.ptp", "ffs.adb">>
  @@ "rndis"            :> <<"rndis.gs4">>
  @@ "rndis,adb"        :> <<"rndis.gs4", "ffs.adb">>
  @@ "mass_storage"     :> <<"mass_storage.usb0">>
  @@ "mass_storage,adb" :> <<"mass_storage.usb0", "ffs.adb">>
  @@ "bicr"             :> <<"mass_storage.usb0">>
  @@ "bicr,adb"         :> <<"mass_storage.usb0", "ffs.adb">>

\* The serial ports of each acm request.
AcmPorts ==
     "acm_gs0"    :> <<"acm.gs0">>
  @@ "acm_gs1"    :> <<"acm.gs1">>
  @@ "acm_gs2"    :> <<"acm.gs2">>
  @@ "acm_gs3"    :> <<"acm.gs3">>
  @@ "acm_gs0gs1" :> <<"acm.gs0", "acm.gs1">>
  @@ "acm_gs0gs3" :> <<"acm.gs0", "acm.gs3">>
  @@ "acm_gs1gs3" :> <<"acm.gs1", "acm.gs3">>

\* Values of sys.usb.config that stand for an acm request.
AliasRequest ==
     "mass_storage,adb,acm" :> "acm_gs0"
  @@ "acm_third"            :> "acm_gs2"
  @@ "gs3"                  :> "acm_gs3"
  @@ "mtp,gs3"              :> "acm_gs3"
  @@ "mtp,gs0gs1"           :> "acm_gs0gs1"
  @@ "gs0gs1"               :> "acm_gs0gs1"
  @@ "rndis,gs0gs1"         :> "acm_gs0gs1"
  @@ "rndis,adb,gs0gs1"     :> "acm_gs0gs1"
  @@ "gs3,dual_acm"         :> "acm_gs0gs3"
  @@ "mtp,gs3,dual_acm"     :> "acm_gs0gs3"
  @@ "mtp,gs0gs3"           :> "acm_gs0gs3"
  @@ "gs0gs3"               :> "acm_gs0gs3"
  @@ "rndis,gs0gs3"         :> "acm_gs0gs3"
  @@ "rndis,adb,gs0gs3"     :> "acm_gs0gs3"
  @@ "gs1gs3"               :> "acm_gs1gs3"
  @@ "mtp,gs1gs3"           :> "acm_gs1gs3"
  @@ "rndis,gs1gs3"         :> "acm_gs1gs3"

\* Likewise persist.vendor.radio.port_index, where "0" takes the ports away.
PortIndexRequest ==
     "1"   :> "acm_gs0"
  @@ "2"   :> "acm_gs1"
  @@ "3"   :> "acm_gs2"
  @@ "4"   :> "acm_gs3"
  @@ "1,4" :> "acm_gs0gs3"

\* Commands.
Set(prop, value) == [op |-> "set", prop |-> prop, value |-> value]
Copy(prop, from) == [op |-> "copy", prop |-> prop, from |-> from]
Link(slot, function) == [op |-> "link", slot |-> slot, function |-> function]
LinkPort(slot, prop) == [op |-> "linkPort", slot |-> slot, prop |-> prop]
Unlink(slots) == [i \in 1 .. Len(slots) |-> [op |-> "unlink", slot |-> slots[i]]]
Do(op) == [op |-> op]

Rule(on, do) == [on |-> on, do |-> do]

Config(config) == "config" :> config

\* A function of functionfs waits until the process behind it is ready.
ReadyProperty == "ffs.adb" :> "adbReady" @@ "ffs.mtp" :> "mtpReady" @@ "ffs.ptp" :> "ptpReady"

Ready(functions) ==
  [p \in {ReadyProperty[f] : f \in DOMAIN ReadyProperty \intersect ToSet(functions)} |-> "1"]

\* The product id follows the number of ports; one port clears the second.
PidRules(main) ==
  << Rule(Config(main) @@ "acmCount" :> "0", <<Set("pid", <<main, "0">>)>>),
     Rule(Config(main) @@ "acmCount" :> "1", <<Set("pid", <<main, "1">>), Set("acmPort1", "")>>),
     Rule(Config(main) @@ "acmCount" :> "2", <<Set("pid", <<main, "2">>)>>) >>

\* adb with ports has a mass storage in front.
Functions(main, acm) ==
  IF main = "adb" /\ acm THEN <<"mass_storage.usb0", "ffs.adb">> ELSE MainFunctions[main]

\* Mutant: the ports come in the slot of the last function.
SlotOfPort(functions, i) == Len(functions) + i - 1

PortSlot(functions, i) == Len(functions) + i

LinkCommands(main, acm) ==
  LET functions == Functions(main, acm)
  IN <<Do("product")>>
       \o [i \in 1 .. Len(functions) |-> Link(i, functions[i])]
       \o (IF acm THEN << LinkPort(PortSlot(functions, 1), "acmPort0"),
                          LinkPort(PortSlot(functions, 2), "acmPort1") >> ELSE <<>>)

LinkTriggers(main, acm) ==
  Config(main) @@ "acmEnable" :> (IF acm THEN "1" ELSE "0") @@ Ready(MainFunctions[main])

\* Mutant: the state is never announced.
LinkRuleSilent(main, acm) ==
  Rule(LinkTriggers(main, acm), LinkCommands(main, acm) \o <<Do("bind")>>)

\* Mutant: the state is announced before the gadget is bound.
LinkRuleEarly(main, acm) ==
  Rule(LinkTriggers(main, acm),
       <<Copy("state", "config")>> \o LinkCommands(main, acm) \o <<Do("bind")>>)

LinkRule(main, acm) ==
  Rule(LinkTriggers(main, acm),
       LinkCommands(main, acm) \o <<Do("bind"), Copy("state", "config")>>)

\* adbd is started here or in init.usb.configfs.rc.
StartAdbd(main) == Rule(Config(main), <<Do("startAdbd")>>)

MainRules(main) ==
  PidRules(main)
    \o (IF "ffs.adb" \in ToSet(MainFunctions[main]) THEN <<StartAdbd(main)>> ELSE <<>>)
    \o <<LinkRule(main, TRUE), LinkRule(main, FALSE)>>

\* init.usb.configfs.rc, executed first.
NoneRuleOfConfigfs ==
  Rule(Config("none"),
       <<Do("unbind"), Do("stopAdbd"), Set("adbReady", "0")>> \o Unlink(<<1, 2, 3>>)
         \o <<Copy("state", "config")>>)

\* Mutant: the additional links stay.
NoneRuleForThree == Rule(Config("none"), <<>>)

NoneRule == Rule(Config("none"), Unlink(<<4, 5>>))

NotePorts(ports) ==
  << Set("acmPort0", ports[1]),
     Set("acmPort1", IF Len(ports) = 2 THEN ports[2] ELSE ""),
     Set("acmCount", IF Len(ports) = 2 THEN "2" ELSE "1"),
     Set("acmEnable", "1") >>

\* Mutant: what a vendor process asked for is set anew.
AppendToVendorConfig(ports) ==
  NotePorts(ports) \o <<Set("config", "none"), Copy("config", "vendorConfig")>>

\* ACM APPEND SERIES: the ports are noted, and the main function set anew.
AppendPorts(ports) == NotePorts(ports) \o <<Set("config", "none"), Copy("config", "state")>>

AcmRule(request) == Rule(Config(request), AppendPorts(AcmPorts[request]))

AliasRule(alias) == Rule(Config(alias), <<Set("config", AliasRequest[alias])>>)

PortIndexRule(index) ==
  Rule("portIndex" :> index,
       IF index = "0"
       THEN << Set("acmCount", "0"), Set("acmEnable", "0"), Set("config", "none"),
               Copy("config", "state") >>
       ELSE <<Set("config", PortIndexRequest[index])>>)

ChargingRule(charging) ==
  Rule(Config(charging), <<Set("config", "none"), Copy("config", "state")>>)

\* vendor.usb.config=*.
VendorConfigRule == Rule("vendorConfig" :> "*", <<Copy("config", "vendorConfig")>>)

\* vendor.usb.test=*.
TestRule == Rule("test" :> "*", <<Set("config", "none"), Copy("config", "test")>>)

RulesForAll(rulesFor(_), names) ==
  FoldSet(LAMBDA name, rules : rulesFor(name) \o rules, <<>>, names)

\* The order of rules for different values of sys.usb.config plays no part.
Rules ==
  <<NoneRuleOfConfigfs, NoneRule>>
    \o RulesForAll(MainRules, Configs)
    \o RulesForAll(LAMBDA request : <<AcmRule(request)>>, AcmRequests)
    \o RulesForAll(LAMBDA alias : <<AliasRule(alias)>>, Aliases)
    \o RulesForAll(LAMBDA index : <<PortIndexRule(index)>>, PortIndexes)
    \o <<ChargingRule("charging_yes"), ChargingRule("charging_no"), VendorConfigRule, TestRule>>

-----------------------------------------------------------------------------
(* The programs that run it. *)

VARIABLES
  props,      \* the properties
  queue,      \* init's events: [prop, value]
  script,     \* the commands of the rules being executed
  links,      \* slot |-> what is linked at it, "" for nothing
  product,    \* the product id in configfs
  host,       \* what the host sees: [functions, product]
  adbd,       \* stopped, starting, running
  framework,  \* what it waits for: [pc, want]
  asked,      \* the last requests: [main, ports]
  left,       \* requests still to come
  hasty       \* whether those who ask do not wait for each other

vars == <<props, queue, script, links, product, host, adbd, framework, asked, left, hasty>>

Slots == 1 .. 5

Unbound == [functions |-> {}, product |-> <<"none", "0">>]

Idle == [pc |-> "idle", want |-> "none"]

Triggers == UNION {DOMAIN Rules[i].on : i \in DOMAIN Rules}

Init ==
  /\ props = [config |-> "none", state |-> "", pid |-> <<"none", "0">>,
              acmCount |-> "0", acmPort0 |-> "", acmPort1 |-> "", acmEnable |-> "0",
              adbReady |-> "0", mtpReady |-> "0", ptpReady |-> "0",
              portIndex |-> "", vendorConfig |-> "", test |-> ""]
  /\ queue = <<>> /\ script = <<>>
  /\ links = [s \in Slots |-> ""]
  /\ product = <<"none", "0">>
  /\ host = Unbound
  /\ adbd = "stopped"
  /\ framework = Idle
  /\ asked = [main |-> "none", ports |-> <<>>]
  /\ left = MaxRequests
  /\ hasty \in {FALSE, Hasty # {}}

\* A property is set, by a command or by another process: an event for init.
SetProperty(prop, value) ==
  /\ props' = [props EXCEPT ![prop] = value]
  /\ queue' = IF prop \in Triggers
              THEN Append(queue, [prop |-> prop, value |-> value]) ELSE queue

Triggered(rule, event) ==
  /\ event.prop \in DOMAIN rule.on
  /\ rule.on[event.prop] \in {"*", event.value}
  /\ \A p \in DOMAIN rule.on \ {event.prop} : rule.on[p] \in {"*", props[p]}

NextEvent ==
  /\ script = <<>> /\ queue # <<>>
  /\ LET triggered == SelectSeq(Rules, LAMBDA rule : Triggered(rule, Head(queue)))
     IN script' = FlattenSeq([i \in DOMAIN triggered |-> triggered[i].do])
  /\ queue' = Tail(queue)
  /\ UNCHANGED <<props, links, product, host, adbd, framework, asked, left, hasty>>

Linked == {links[s] : s \in Slots} \ {""}

\* A link is refused where the slot is taken, and for a function linked elsewhere.
LinkFunction(slot, function) ==
  links' = IF links[slot] = "" /\ function \notin Linked
           THEN [links EXCEPT ![slot] = function] ELSE links

\* The functionfs functions nobody serves.
NotServed ==
  {f \in DOMAIN ReadyProperty :
     IF f = "ffs.adb" THEN adbd # "running" ELSE props[ReadyProperty[f]] = "0"}

\* Binding is refused while bound, without functions, and for one nobody serves.
Bind ==
  host' = IF host = Unbound /\ Linked # {} /\ Linked \intersect NotServed = {}
          THEN [functions |-> Linked, product |-> product] ELSE host

\* One command of the script.
Command(op) ==
  /\ script # <<>> /\ Head(script).op = op
  /\ script' = Tail(script)
  /\ UNCHANGED <<framework, asked, left, hasty>>

CommandSet ==
  /\ Command("set")
  /\ SetProperty(Head(script).prop, Head(script).value)
  /\ UNCHANGED <<links, product, host, adbd>>

CommandCopy ==
  /\ Command("copy")
  /\ SetProperty(Head(script).prop, props[Head(script).from])
  /\ UNCHANGED <<links, product, host, adbd>>

CommandLink ==
  /\ Command("link")
  /\ LinkFunction(Head(script).slot, Head(script).function)
  /\ UNCHANGED <<props, queue, product, host, adbd>>

\* acm.gs${...}: there is no function without a number.
CommandLinkPort ==
  /\ Command("linkPort")
  /\ LinkFunction(Head(script).slot, props[Head(script).prop])
  /\ UNCHANGED <<props, queue, product, host, adbd>>

\* Taking a function out of a bound gadget unbinds it.
CommandUnlink ==
  /\ Command("unlink")
  /\ links' = [links EXCEPT ![Head(script).slot] = ""]
  /\ host' = IF links[Head(script).slot] = "" THEN host ELSE Unbound
  /\ UNCHANGED <<props, queue, product, adbd>>

CommandProduct ==
  /\ Command("product")
  /\ product' = props.pid
  /\ UNCHANGED <<props, queue, links, host, adbd>>

CommandBind ==
  /\ Command("bind")
  /\ Bind
  /\ UNCHANGED <<props, queue, links, product, adbd>>

CommandUnbind ==
  /\ Command("unbind")
  /\ host' = Unbound
  /\ UNCHANGED <<props, queue, links, product, adbd>>

CommandStartAdbd ==
  /\ Command("startAdbd")
  /\ adbd' = IF adbd = "stopped" THEN "starting" ELSE adbd
  /\ UNCHANGED <<props, queue, links, product, host>>

CommandStopAdbd ==
  /\ Command("stopAdbd")
  /\ adbd' = "stopped"
  /\ UNCHANGED <<props, queue, links, product, host>>

RunCommand ==
  \/ CommandSet \/ CommandCopy \/ CommandLink \/ CommandLinkPort \/ CommandUnlink
  \/ CommandProduct \/ CommandBind \/ CommandUnbind \/ CommandStartAdbd \/ CommandStopAdbd

\* adbd has opened its endpoints.
AdbdReady ==
  /\ adbd = "starting"
  /\ adbd' = "running"
  /\ SetProperty("adbReady", "1")
  /\ UNCHANGED <<script, links, product, host, framework, asked, left, hasty>>

\* The main functions that may be asked for.
Mains == {config \in Configs : hasty => <<"config", config>> \in Hasty}

Services == {"mtpReady", "ptpReady"}

\* Those whose readiness a link rule of these waits for.
Awaited == {prop \in Services : \E main \in Mains : prop \in DOMAIN Ready(MainFunctions[main])}

\* They get ready for good.
ServiceReady(prop) ==
  /\ props[prop] = "0" /\ prop \in Awaited
  /\ SetProperty(prop, "1")
  /\ UNCHANGED <<script, links, product, host, adbd, framework, asked, left, hasty>>

\* init has nothing to do.
WorkedOff == queue = <<>> /\ script = <<>>

\* Nothing is under way.
Quiet ==
  /\ WorkedOff /\ framework = Idle
  /\ adbd # "starting" /\ \A prop \in Awaited : props[prop] = "1"

\* Those who wait may ask for anything.
MayAsk(prop, value) == IF hasty THEN <<prop, value>> \in Hasty ELSE Quiet

\* The framework asks for none first, and waits for the state to follow.
FrameworkAsks(config) ==
  /\ framework.pc = "idle" /\ left > 0
  /\ MayAsk("config", config)
  /\ framework' = [pc |-> "none", want |-> config]
  /\ asked' = [asked EXCEPT !.main = config]
  /\ left' = left - 1
  /\ SetProperty("config", "none")
  /\ UNCHANGED <<script, links, product, host, adbd, hasty>>

FrameworkSets ==
  /\ framework.pc = "none" /\ props.state = "none"
  /\ framework' = [framework EXCEPT !.pc = "state"]
  /\ SetProperty("config", framework.want)
  /\ UNCHANGED <<script, links, product, host, adbd, asked, left, hasty>>

FrameworkSees ==
  /\ framework.pc = "state" /\ props.state = framework.want
  /\ framework' = Idle
  /\ UNCHANGED <<props, queue, script, links, product, host, adbd, asked, left, hasty>>

\* Another process sets a property, to the effect it wants.
ClientRequest(prop, value, wants) ==
  /\ left > 0
  /\ MayAsk(prop, value)
  /\ asked' = wants
  /\ left' = left - 1
  /\ SetProperty(prop, value)
  /\ UNCHANGED <<script, links, product, host, adbd, framework, hasty>>

\* Ports appended or taken away.
PortRequest(prop, value, ports) == ClientRequest(prop, value, [asked EXCEPT !.ports = ports])

\* Or the gadget set anew, or another main function for a test.
ClientRequests ==
  \/ \E request \in AcmRequests, prop \in {"config", "vendorConfig"} :
       PortRequest(prop, request, AcmPorts[request])
  \/ \E alias \in Aliases : PortRequest("config", alias, AcmPorts[AliasRequest[alias]])
  \/ \E index \in PortIndexes :
       PortRequest("portIndex", index,
                   IF index = "0" THEN <<>> ELSE AcmPorts[PortIndexRequest[index]])
  \/ \E request \in Requests : ClientRequest("config", request, asked)
  \/ \E config \in Configs : ClientRequest("test", config, [asked EXCEPT !.main = config])

Service == \E prop \in Services : ServiceReady(prop)

Next ==
  \/ NextEvent \/ RunCommand \/ AdbdReady \/ Service
  \/ \E config \in Configs : FrameworkAsks(config)
  \/ FrameworkSets \/ FrameworkSees \/ ClientRequests

\* Everybody goes on with what has been asked; nobody need ask anything.  Where
\* requests do not wait for each other nothing is promised in the end, and no
\* fairness is assumed.
Fairness ==
  /\ WF_vars(~hasty /\ (NextEvent \/ RunCommand))
  /\ WF_vars(~hasty /\ AdbdReady)
  /\ WF_vars(~hasty /\ (FrameworkSets \/ FrameworkSees))
  /\ \A prop \in Services : WF_vars(~hasty /\ ServiceReady(prop))

Spec == Init /\ [][Next]_vars /\ Fairness

-----------------------------------------------------------------------------
(* Properties. *)

Linkable == {"", "ffs.adb", "ffs.mtp", "ffs.ptp", "rndis.gs4", "mass_storage.usb0",
               "acm.gs0", "acm.gs1", "acm.gs2", "acm.gs3"}

ConfigValues == {"", "none"} \cup Configs \cup AcmRequests \cup Aliases \cup Requests

Products == ({"none"} \cup Configs) \X {"0", "1", "2"}

\* The types; in particular no rule sets sys.usb.config to nothing, but for a
\* request that comes before the first state is announced.
TypeOK ==
  /\ props.config \in ConfigValues
  /\ props.config = "" => props.state = ""
  /\ {props.pid, product, host.product} \subseteq Products
  /\ props.acmCount \in {"0", "1", "2"}
  /\ {props.acmPort0, props.acmPort1} \subseteq Linkable
  /\ {props.acmEnable, props.adbReady, props.mtpReady, props.ptpReady} \subseteq {"0", "1"}
  /\ \A i \in DOMAIN queue : queue[i].prop \in Triggers
  /\ links \in [Slots -> Linkable]
  /\ host.functions \subseteq Linkable \ {""}
  /\ adbd \in {"stopped", "starting", "running"}
  /\ framework \in [pc : {"idle", "none", "state"}, want : {"none"} \cup Configs]
  /\ asked.main \in {"none"} \cup Configs
  /\ left \in 0 .. MaxRequests
  /\ hasty \in BOOLEAN

\* The gadget of a main function with ports appended.
Whole(main, ports) ==
  [functions |-> ToSet(Functions(main, ports # <<>>)) \cup ToSet(ports),
   product |-> <<main, CASE Len(ports) = 0 -> "0" [] Len(ports) = 1 -> "1" [] Len(ports) = 2 -> "2">>]

\* When nothing is under way, the host sees the main function the framework
\* asked for last with the ports that were asked for last, whatever was linked
\* before, in whichever order the rules were triggered - provided that requests
\* wait for each other (init.mt6893.usb.rc:112-117).
AsAsked ==
  ~hasty /\ Quiet /\ asked.main # "none" => host = Whole(asked.main, asked.ports)

\* sys.usb.state reaches what the framework waits for only once the gadget is
\* bound so: the link rules set it last (init.mt6893.usb.rc:160-161).
AnnouncedWhenBound ==
  ~hasty /\ framework.pc = "state" /\ props.state = framework.want =>
    host = Whole(asked.main, asked.ports)

Ports == {"acm.gs0", "acm.gs1", "acm.gs2", "acm.gs3"}

\* The ports the rules have noted.
NotedPorts ==
  IF props.acmEnable = "0" THEN {} ELSE {props.acmPort0, props.acmPort1} \ {""}

\* However requests overtake each other, what the host sees beside serial ports
\* is one main function, with what its link rule links and nothing of another;
\* and once init has worked off its events, the product id is that of this main
\* function, and the ports are those noted last, none is left over from an
\* earlier request and none is missing (init.mt6893.usb.rc:112-117).  What is
\* noted may be wrong for good: one port with the count of two, as the rule for
\* one port clears the second port late (line 220).
NeverMixed ==
  host # Unbound =>
    LET ports == host.functions \intersect Ports
    IN \E main \in Mains :
         /\ host.functions \ Ports = ToSet(Functions(main, ports # {}))
         /\ WorkedOff => ports = NotedPorts /\ host.product = <<main, props.acmCount>>

\* What is under way comes to an end: the rules that set sys.usb.config
\* themselves do not trigger each other for ever, if requests wait for each
\* other (init.mt6893.usb.rc:577-690).  Otherwise they may: the link rule of a
\* main function with two ready properties runs twice, and a request for a port
\* amid the second run ends up in sys.usb.state (line 246).
Settles == []<>(Quiet \/ hasty)
=============================================================================
