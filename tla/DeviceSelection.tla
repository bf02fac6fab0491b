--------------------------- MODULE DeviceSelection --------------------------
(***************************************************************************)
(* Start-up: from the command line to the device that is mounted (main in  *)
(* jmtpfs.cpp and ConnectedMtpDevices.cpp).  The user names a device by    *)
(* bus and device number, or takes the first; devices come and go while    *)
(* the program looks for them.                                             *)
(***************************************************************************)
EXTENDS Integers, Sequences, FiniteSetsExt

CONSTANTS Buses,    \* bus numbers of the devices there may be
          Devnums,  \* their device numbers, a byte each
          Texts,    \* what stands for a number in -device=<busnum>,<devnum>
          Absent,   \* no text: no option, no comma, or nothing beside the comma
          Garbage,  \* text that does not start with a number
          MaxDevices  \* bound: devices plugged in at a time

Devices == [bus : Buses, dev : Devnums]

\* USB numbers buses and devices from 1.
ASSUME DeviceAssumption == /\ Devnums \subseteq 1 .. 255 /\ Buses \subseteq Nat \ {0}
                           /\ Absent \notin Int /\ Garbage \notin Int /\ Absent # Garbage
                           /\ MaxDevices \in Nat
                           /\ Texts \subseteq Int \cup {Absent, Garbage}

VARIABLES modes,      \* the flags given: "list", "help", "version"
          given,      \* the texts given with -device, "" if it is not used
          attached,   \* the devices on the bus, in the order libmtp finds them
          detected,   \* m_devs, what ConnectedMtpDevices has found
          requested,  \* requestedBusLocation and requestedDevnum, -1 by default
          chosen,     \* index in detected of the device to open, 0 for none
          opened,     \* the devices opened
          stage       \* what main does next, or how it ended

vars == <<modes, given, attached, detected, requested, chosen, opened, stage>>

Ends == {"listed", "no_devices", "not_found", "usage", "version", "terminated", "mounted"}

\* Orders in which some of the devices may be found.
Findings == UNION {{q \in [1 .. n -> Devices] : \A i, j \in 1 .. n : q[i] = q[j] => i = j} :
                     n \in 0 .. MaxDevices}

TypeOK == /\ modes \subseteq {"list", "help", "version"}
          /\ given \in [used : BOOLEAN, bus : Texts, dev : Texts]
          /\ attached \in Findings /\ detected \in Findings
          /\ requested \in [bus : Int, dev : Int]
          /\ chosen \in 0 .. Len(detected)
          /\ opened \subseteq Devices
          /\ stage \in Ends \cup {"start", "parsed", "detected", "listing", "opening"}

Init == /\ modes \in SUBSET {"list", "help", "version"}
        /\ given \in {g \in [used : BOOLEAN, bus : Texts, dev : Texts] :
                        ~g.used => g.bus = Absent /\ g.dev = Absent}
        /\ attached \in Findings
        /\ detected = <<>> /\ requested = [bus |-> -1, dev |-> -1]
        /\ chosen = 0 /\ opened = {} /\ stage = "start"

\* The device list changes under the program until it has opened its device.
Replug == /\ stage \notin Ends
          /\ attached' \in Findings \ {attached}
          /\ UNCHANGED <<modes, given, detected, requested, chosen, opened, stage>>

-----------------------------------------------------------------------------
\* istringstream >> int: without text the variable keeps its -1, and text
\* that is no number makes it 0.
Parsed(text) == CASE text = Absent -> -1
                  [] text = Garbage -> 0
                  [] OTHER -> text

Stay(unchanged) == UNCHANGED <<modes, given, attached, unchanged>>

Invalid(r) == r.bus = -1 \/ r.dev = -1

\* -l comes first, whatever else is on the command line.
StartListing == /\ stage = "start" /\ "list" \in modes
                /\ stage' = "listing"
                /\ Stay(<<detected, requested, chosen, opened>>)

\* -device: a specification without both numbers turns the start into -h.
ParseDevice_NoHelp ==
  /\ stage = "start" /\ "list" \notin modes
  /\ requested' = IF given.used THEN [bus |-> Parsed(given.bus), dev |-> Parsed(given.dev)]
                  ELSE requested
  /\ stage' = IF "help" \in modes THEN "usage"
              ELSE IF "version" \in modes THEN "version" ELSE "parsed"
  /\ Stay(<<detected, chosen, opened>>)

ParseDevice ==
  /\ stage = "start" /\ "list" \notin modes
  /\ requested' = IF given.used THEN [bus |-> Parsed(given.bus), dev |-> Parsed(given.dev)]
                  ELSE requested
  /\ stage' = IF "help" \in modes \/ (given.used /\ Invalid(requested')) THEN "usage"
              ELSE IF "version" \in modes THEN "version" ELSE "parsed"
  /\ Stay(<<detected, chosen, opened>>)

\* ConnectedMtpDevices' constructor.  An error of the detection other than
\* "no device" is an MtpError main does not catch.
Detect ==
  /\ stage \in {"parsed", "listing"}
  /\ \/ /\ detected' = attached
        /\ stage' = IF stage = "listing" THEN "listed"
                    ELSE IF attached = <<>> THEN "no_devices" ELSE "detected"
     \/ stage' = "terminated" /\ UNCHANGED detected
  /\ Stay(<<requested, chosen, opened>>)

\* The numbers of GetDevice's parameters: uint32_t and uint8_t.  No bus
\* number is as large as what a negative one becomes.
AsBus(n)    == n
AsDevnum(n) == n % 256

Matches(r) == {i \in DOMAIN detected : /\ detected[i].bus = AsBus(r.bus)
                                       /\ detected[i].dev = AsDevnum(r.dev)}

\* GetDevice(0) unless a device was asked for, else the first that matches.
GetDevice_SkipsFirst ==
  /\ stage = "detected"
  /\ IF Invalid(requested) THEN chosen' = 1 /\ stage' = "opening"
     ELSE IF Matches(requested) \ {1} = {} THEN stage' = "not_found" /\ UNCHANGED chosen
     ELSE chosen' = Min(Matches(requested) \ {1}) /\ stage' = "opening"
  /\ Stay(<<detected, requested, opened>>)

GetDevice_PastEnd ==
  /\ stage = "detected"
  /\ chosen' = IF Invalid(requested) THEN 1 ELSE Min(Matches(requested) \cup {Len(detected) + 1})
  /\ stage' = "opening"
  /\ Stay(<<detected, requested, opened>>)

GetDevice ==
  /\ stage = "detected"
  /\ IF Invalid(requested) THEN chosen' = 1 /\ stage' = "opening"
     ELSE IF Matches(requested) = {} THEN stage' = "not_found" /\ UNCHANGED chosen
     ELSE chosen' = Min(Matches(requested)) /\ stage' = "opening"
  /\ Stay(<<detected, requested, opened>>)

\* MtpDevice's constructor on the entry found before.  A device that has gone
\* cannot be opened, and one that is there may refuse, or libmagic may not
\* find its database: nothing catches what is then thrown.
OpenDevice_DetectsAgain ==         \* the index is looked up in a newer list
  /\ stage = "opening"
  /\ \/ /\ chosen \in DOMAIN attached
        /\ opened' = opened \cup {attached[chosen]}
        /\ stage' = "mounted"
     \/ stage' = "terminated" /\ UNCHANGED opened
  /\ Stay(<<detected, requested, chosen>>)

OpenDevice ==
  /\ stage = "opening"
  /\ \/ /\ \E i \in DOMAIN attached : attached[i] = detected[chosen]
        /\ opened' = opened \cup {detected[chosen]}
        /\ stage' = "mounted"
     \/ stage' = "terminated" /\ UNCHANGED opened
  /\ Stay(<<detected, requested, chosen>>)

Next == StartListing \/ ParseDevice \/ Detect \/ GetDevice \/ OpenDevice \/ Replug

Spec == Init /\ [][Next]_vars

-----------------------------------------------------------------------------
(* Properties.                                                             *)

\* "You can choose which device to mount with the -device option" (README):
\* what is mounted is on the bus that was given and, if the device number
\* given is one a byte can hold, has that number, however the devices were
\* plugged in the meantime.  A larger number loses all but its low byte on
\* the way to GetDevice and may lead to another device of that bus.
RequestedIsMounted ==
  \A d \in opened : given.used =>
    /\ d.bus = given.bus
    /\ given.dev \in Int /\ (given.dev \in 0 .. 255 => d.dev = given.dev)

\* A device specification with a number missing never falls back to the
\* first device.
IncompleteMountsNothing ==
  given.used /\ Absent \in {given.bus, given.dev} => opened = {}

\* "Requested device not found" and "No mtp devices found" are said only when
\* the detection did not find it: every pair that -l prints can be given back.
NotFoundIsTrue ==
  /\ stage = "not_found" => \A i \in DOMAIN detected :
                              detected[i] # [bus |-> given.bus, dev |-> given.dev]
  /\ stage = "no_devices" => detected = <<>>
=============================================================================
