--------------------------- MODULE MountedProofs ----------------------------
(* Proofs about Mounted: the choice of the device, for every set of devices *)
(* and every command line, and the way from a path to a node, for every     *)
(* tree and every path.                                                     *)
EXTENDS Mounted, WellFoundedInduction, SequenceTheorems, TLAPS

-----------------------------------------------------------------------------
LEMMA MinIsElement ==
  ASSUME NEW S \in SUBSET Nat, S # {}
  PROVE  Min(S) \in S
<1>1. PICK n \in S : \A k \in S : <<k, n>> \notin OpToRel(<, Nat)
  BY WFMin, NatLessThanWellFounded, Zenon
<1>2. \A k \in S : ~(k < n)
  BY <1>1, Zenon DEF OpToRel
<1>3. n \in Nat /\ \A k \in S : n <= k
  BY <1>2
<1> QED BY <1>3 DEF Min
-----------------------------------------------------------------------------
(* The start-up, up to the mount.                                          *)

\* What the command line asks for.
Asked == [bus |-> Parsed(given.bus), dev |-> Parsed(given.dev)]

Looking == {"parsed", "detected", "opening", "not_found", "mounted"}

StartTypes == /\ detected \in Findings /\ attached \in Findings
              /\ given \in [used : BOOLEAN, bus : Texts, dev : Texts]

\* Once the options have been read, a device is requested exactly when
\* -device was used, by two numbers.
RequestRead == /\ stage = "start" => requested = [bus |-> -1, dev |-> -1]
               /\ stage \in Looking =>
                    IF given.used THEN requested = Asked /\ ~Invalid(Asked)
                                  ELSE Invalid(requested)

\* Where the device that is opened comes from, and what the messages mean.
Choice == /\ stage \in {"opening", "mounted"} =>
               /\ chosen \in DOMAIN detected
               /\ given.used => chosen \in Matches(requested)
          /\ stage = "detected" => detected # <<>>
          /\ stage = "not_found" => given.used /\ Matches(requested) = {}
          /\ stage = "no_devices" => detected = <<>>
          /\ opened # {} => stage = "mounted"
          /\ opened \subseteq {detected[chosen]}

StartInv == StartTypes /\ RequestRead /\ Choice

LEMMA Found ==
  ASSUME NEW q \in Findings
  PROVE  /\ \E n \in Nat : q \in [1 .. n -> Devices] /\ DOMAIN q = 1 .. n
         /\ q # <<>> => 1 \in DOMAIN q
<1>1. PICK n \in 0 .. MaxDevices : q \in [1 .. n -> Devices]
  BY DEF Findings
<1>2. n \in Nat /\ DOMAIN q = 1 .. n
  BY <1>1, DeviceAssumption
<1>3. q # <<>> => n # 0
  BY <1>1
<1> QED BY <1>1, <1>2, <1>3

LEMMA StartInitially == Init => StartInv
<1> SUFFICES ASSUME Init PROVE StartInv
  OBVIOUS
<1>1. <<>> \in Findings
  <2>1. <<>> \in {q \in [1 .. 0 -> Devices] : \A i, j \in 1 .. 0 : q[i] = q[j] => i = j}
    OBVIOUS
  <2>2. 0 \in 0 .. MaxDevices
    BY DeviceAssumption
  <2> QED BY <2>1, <2>2 DEF Findings
<1> QED BY <1>1 DEF Init, StartInv, StartTypes, RequestRead, Choice, Looking

LEMMA ParseDeviceKeeps == StartInv /\ ParseDevice => StartInv'
<1> SUFFICES ASSUME StartInv, ParseDevice PROVE StartInv'
  OBVIOUS
<1>1. StartTypes'
  BY DEF ParseDevice, Stay, StartInv, StartTypes
<1>2. RequestRead'
  BY DEF ParseDevice, Stay, StartInv, RequestRead, Looking, Asked, Invalid, Parsed
<1>3. Choice'
  BY DEF ParseDevice, Stay, StartInv, Choice
<1> QED BY <1>1, <1>2, <1>3 DEF StartInv

LEMMA GetDeviceKeeps == StartInv /\ GetDevice => StartInv'
<1> SUFFICES ASSUME StartInv, GetDevice PROVE StartInv'
  OBVIOUS
<1>1. StartTypes'
  BY DEF GetDevice, Stay, StartInv, StartTypes
<1>2. RequestRead'
  BY DEF GetDevice, Stay, StartInv, RequestRead, Looking, Asked, Invalid, Parsed
<1>3. detected # <<>> /\ detected \in Findings
  BY DEF GetDevice, StartInv, StartTypes, Choice
<1>4. 1 \in DOMAIN detected /\ DOMAIN detected \in SUBSET Nat
  BY <1>3, Found
<1>5. Invalid(requested) <=> ~given.used
  BY DEF GetDevice, StartInv, RequestRead, Looking
<1>6. Matches(requested) \subseteq DOMAIN detected /\ UNCHANGED <<given, detected, requested>>
  BY DEF Matches, GetDevice, Stay
<1>7. Matches(requested)' = Matches(requested)
  BY <1>6 DEF Matches
<1>8. opened' = {}
  BY DEF GetDevice, Stay, StartInv, Choice
<1>9. CASE Invalid(requested)
  BY <1>4, <1>5, <1>6, <1>8, <1>9, <1>1, <1>2 DEF GetDevice, StartInv, Choice
<1>10. CASE ~Invalid(requested) /\ Matches(requested) = {}
  BY <1>5, <1>6, <1>7, <1>8, <1>10, <1>1, <1>2 DEF GetDevice, StartInv, Choice
<1>11. CASE ~Invalid(requested) /\ Matches(requested) # {}
  <2>1. chosen' = Min(Matches(requested)) /\ stage' = "opening"
    BY <1>11 DEF GetDevice
  <2>2. chosen' \in Matches(requested)
    BY <2>1, <1>4, <1>6, <1>11, MinIsElement
  <2> QED BY <2>1, <2>2, <1>6, <1>7, <1>8, <1>1, <1>2 DEF StartInv, Choice
<1> QED BY <1>9, <1>10, <1>11

LEMMA StartKept == StartInv /\ [Next]_vars => StartInv'
<1> SUFFICES ASSUME StartInv, [Next]_vars PROVE StartInv'
  OBVIOUS
<1> USE DEF StartInv, StartTypes, RequestRead, Choice, Looking, Asked, Invalid, Stay, Matches
<1>1. CASE StartListing
  BY <1>1 DEF StartListing
<1>2. CASE ParseDevice
  BY <1>2, ParseDeviceKeeps
<1>3. CASE Detect
  BY <1>3 DEF Detect
<1>4. CASE GetDevice
  BY <1>4, GetDeviceKeeps
<1>5. CASE OpenDevice
  BY <1>5 DEF OpenDevice
<1>6. CASE Replug
  BY <1>6 DEF Replug, Ends
<1>7. CASE UNCHANGED vars
  BY <1>7 DEF vars
<1> QED BY <1>1, <1>2, <1>3, <1>4, <1>5, <1>6, <1>7 DEF Next

-----------------------------------------------------------------------------
\* The paths served after the mount leave the choice of the device alone.
LEMMA MountedStarts == MountedSpec => []StartInv
<1>1. MountedInit => StartInv
  BY StartInitially DEF MountedInit
<1>2. StartInv /\ [MountedNext]_<<vars, pathVars>> => StartInv'
  <2> SUFFICES ASSUME StartInv, [MountedNext]_<<vars, pathVars>> PROVE StartInv'
    OBVIOUS
  <2>1. [Next]_vars
    BY DEF MountedNext, Serve
  <2> QED BY <2>1, StartKept
<1> QED BY <1>1, <1>2, PTL DEF MountedSpec

\* A device specification with a number missing never mounts anything.
THEOREM IncompleteNeverMounts == MountedSpec => []IncompleteMountsNothing
<1>1. StartInv => IncompleteMountsNothing
  <2> SUFFICES ASSUME StartInv, given.used, Absent \in {given.bus, given.dev}, opened # {}
               PROVE  FALSE
    BY DEF IncompleteMountsNothing
  <2>1. ~Invalid(Asked)
    BY DEF StartInv, RequestRead, Choice, Looking
  <2>2. Parsed(Absent) = -1
    BY DeviceAssumption DEF Parsed
  <2> QED BY <2>1, <2>2 DEF Asked, Invalid
<1> QED BY <1>1, MountedStarts, PTL

\* "Not found" is said only of a device that the detection did not find.
THEOREM NotFoundMeansNotFound == MountedSpec => []NotFoundIsTrue
<1>1. StartInv => NotFoundIsTrue
  <2> SUFFICES ASSUME StartInv PROVE NotFoundIsTrue
    OBVIOUS
  <2>1. ASSUME stage = "not_found", NEW i \in DOMAIN detected,
               detected[i] = [bus |-> given.bus, dev |-> given.dev]
        PROVE  FALSE
    <3>1. detected[i] \in Devices
      BY Found DEF StartInv, StartTypes
    <3>2. given.bus \in Nat /\ given.dev \in 1 .. 255
      <4>1. detected[i].bus = given.bus /\ detected[i].dev = given.dev
        BY <2>1
      <4> QED BY <4>1, <3>1, DeviceAssumption DEF Devices
    <3>3. Parsed(given.bus) = given.bus /\ Parsed(given.dev) = given.dev
      BY <3>2, DeviceAssumption DEF Parsed
    <3>4. requested = [bus |-> given.bus, dev |-> given.dev] /\ Matches(requested) = {}
      BY <2>1, <3>3 DEF StartInv, RequestRead, Choice, Looking, Asked
    <3>5. i \in Matches(requested)
      BY <2>1, <3>2, <3>4 DEF Matches, AsBus, AsDevnum
    <3> QED BY <3>4, <3>5
  <2>2. stage = "no_devices" => detected = <<>>
    BY DEF StartInv, Choice
  <2> QED BY <2>1, <2>2 DEF NotFoundIsTrue
<1> QED BY <1>1, MountedStarts, PTL

\* What is mounted is on the bus given, and is the device given unless its
\* number is too large for the byte that GetDevice has for it: for every set of
\* devices and every text.
THEOREM RequestedOneMounted == MountedSpec => []RequestedIsMounted
<1>1. StartInv => RequestedIsMounted
  <2> SUFFICES ASSUME StartInv, given.used, NEW d \in opened
               PROVE  /\ d.bus = given.bus
                      /\ given.dev \in Int /\ (given.dev \in 0 .. 255 => d.dev = given.dev)
    BY DEF RequestedIsMounted
  <2>1. /\ stage = "mounted" /\ d = detected[chosen] /\ chosen \in DOMAIN detected
        /\ chosen \in Matches(requested)
    BY DEF StartInv, Choice
  <2>2. requested = Asked /\ ~Invalid(Asked)
    BY <2>1 DEF StartInv, RequestRead, Looking
  <2>3. d.bus = Parsed(given.bus) /\ d.dev = Parsed(given.dev) % 256
    BY <2>1, <2>2 DEF Matches, AsBus, AsDevnum, Asked
  <2>4. d \in Devices
    BY <2>1, Found DEF StartInv, StartTypes
  <2>5. d.bus \in Nat \ {0} /\ d.dev \in 1 .. 255
    BY <2>4, DeviceAssumption DEF Devices
  <2>6. given.bus \in Texts /\ given.dev \in Texts
    BY DEF StartInv, StartTypes
  <2>7. given.bus \notin {Absent, Garbage}
    BY <2>2, <2>3, <2>5 DEF Asked, Invalid, Parsed
  <2>8. given.dev \notin {Absent, Garbage}
    BY <2>2, <2>3, <2>5 DEF Asked, Invalid, Parsed
  <2>9. Parsed(given.bus) = given.bus /\ Parsed(given.dev) = given.dev /\ given.dev \in Int
    BY <2>6, <2>7, <2>8, DeviceAssumption DEF Parsed
  <2>10. given.dev \in 0 .. 255 => given.dev % 256 = given.dev
    OBVIOUS
  <2> QED BY <2>3, <2>9, <2>10
<1> QED BY <1>1, MountedStarts, PTL

-----------------------------------------------------------------------------
(* Sequences.                                                              *)

\* A part of a sequence of names and slashes.
LEMMA PartOf ==
  ASSUME NEW S, NEW s \in Seq(S), NEW m \in 1 .. Len(s) + 1, NEW n \in m - 1 .. Len(s)
  PROVE  /\ SubSeq(s, m, n) \in Seq(S)
         /\ Len(SubSeq(s, m, n)) = n - m + 1
         /\ \A i \in 1 .. n - m + 1 : SubSeq(s, m, n)[i] = s[m + i - 1]
<1>1. m \in Int /\ n \in Int /\ \A i \in m .. n : s[i] \in S
  OBVIOUS
<1>2. /\ SubSeq(s,m,n) \in Seq(S)
      /\ Len(SubSeq(s,m,n)) = IF m<=n THEN n-m+1 ELSE 0
      /\ \A i \in 1 .. n-m+1 : SubSeq(s,m,n)[i] = s[m+i-1]
  BY <1>1, SubSeqProperties
<1> QED BY <1>2

\* A sequence of one element.
LEMMA OneLong == ASSUME NEW S, NEW s \in Seq(S), Len(s) = 1 PROVE s = <<s[1]>>
<1>1. s[1] \in S
  OBVIOUS
<1>2. <<s[1]>> \in Seq(S) /\ Len(<<s[1]>>) = 1
  BY <1>1
<1>3. \A i \in 1 .. 1 : s[i] = <<s[1]>>[i]
  OBVIOUS
<1> QED BY <1>2, <1>3, SeqEqual

-----------------------------------------------------------------------------
(* FilesystemPath cuts the path of a list of names between the names.      *)

\* Where a path has its first and its last slash.
LEMMA FirstSlashAt ==
  ASSUME NEW path \in Seq(Names \cup {Slash}), NEW k \in 1 .. Len(path),
         path[k] = Slash, \A j \in 1 .. k - 1 : path[j] # Slash
  PROVE  Path!FirstSlash(path) = k
<1> DEFINE I == {i \in 1 .. Len(path) : Path!IsSlash(path[i])}
<1>1. k \in I /\ \A j \in I : k <= j
  BY DEF Path!IsSlash
<1>2. I \in SUBSET Nat
  OBVIOUS
<1>3. Path!FirstSlash(path) = CHOOSE x \in I : \A y \in I : x =< y
  BY <1>1 DEF Path!FirstSlash, Path!SelectInSeq, Path!Min
<1> QED BY <1>1, <1>2, <1>3

LEMMA NoFirstSlash ==
  ASSUME NEW path, \A j \in 1 .. Len(path) : path[j] # Slash
  PROVE  Path!FirstSlash(path) = 0
BY DEF Path!FirstSlash, Path!SelectInSeq, Path!IsSlash

LEMMA LastSlashAt ==
  ASSUME NEW path \in Seq(Names \cup {Slash}), NEW k \in 1 .. Len(path),
         path[k] = Slash, \A j \in k + 1 .. Len(path) : path[j] # Slash
  PROVE  Path!LastSlash(path) = k
<1> DEFINE I == {i \in 1 .. Len(path) : Path!IsSlash(path[i])}
<1>1. k \in I /\ \A j \in I : k >= j
  BY DEF Path!IsSlash
<1>2. I \in SUBSET Nat
  OBVIOUS
<1>3. Path!LastSlash(path) = CHOOSE x \in I : \A y \in I : x >= y
  BY <1>1 DEF Path!LastSlash, Path!SelectLastInSeq, Path!Max
<1> QED BY <1>1, <1>2, <1>3

\* The path of the names of q after the first k, without its leading slash.
Cut(q, k) == [j \in 1 .. 2 * (Len(q) - k) - 1 |-> IF j % 2 = 1 THEN q[k + (j + 1) \div 2] ELSE Slash]

LEMMA CutIsPath ==
  ASSUME NEW q \in Seq(Names), NEW k \in 0 .. Len(q) - 1
  PROVE  /\ Cut(q, k) \in Seq(Names \cup {Slash})
         /\ Len(Cut(q, k)) = 2 * (Len(q) - k) - 1
<1>1. Len(q) \in Nat /\ k \in Nat /\ 2 * (Len(q) - k) - 1 \in Nat
  OBVIOUS
<1>2. ASSUME NEW j \in 1 .. 2 * (Len(q) - k) - 1 PROVE Cut(q, k)[j] \in Names \cup {Slash}
  BY <1>1 DEF Cut
<1> QED BY <1>1, <1>2 DEF Cut

\* Head and Body take the next name off such a path.
LEMMA CutHead ==
  ASSUME NEW q \in Seq(Names), NEW k \in 0 .. Len(q) - 1
  PROVE  Path!HeadName(Cut(q, k)) = <<q[k + 1]>>
<1>1. Cut(q, k)[1] = q[k + 1] /\ q[k + 1] # Slash
  BY NamesAssumption DEF Cut
<1>2. CASE k + 1 = Len(q)
  <2>1. Cut(q, k) = <<q[k + 1]>>
    <3>1. Cut(q, k) \in Seq(Names \cup {Slash}) /\ Len(Cut(q, k)) = 1
      <4>1. 2 * (Len(q) - k) - 1 = 1
        BY <1>2
      <4> QED BY <4>1, CutIsPath
    <3> QED BY <3>1, <1>1, OneLong
  <2> QED BY <2>1, <1>1, NoFirstSlash DEF Path!HeadName
<1>3. CASE k + 1 < Len(q)
  <2>1. Cut(q, k)[2] = Slash /\ 2 \in 1 .. Len(Cut(q, k))
    BY <1>3, CutIsPath DEF Cut
  <2>2. Path!FirstSlash(Cut(q, k)) = 2
    <3>1. Cut(q, k) \in Seq(Names \cup {Slash}) /\ \A j \in 1 .. 2 - 1 : Cut(q, k)[j] # Slash
      BY <1>1, CutIsPath
    <3> QED BY <2>1, <3>1, FirstSlashAt
  <2>3. SubSeq(Cut(q, k), 1, 1) = <<Cut(q, k)[1]>>
    <3>1. Cut(q, k) \in Seq(Names \cup {Slash}) /\ 1 \in 1 .. Len(Cut(q, k)) + 1
          /\ 1 \in 1 - 1 .. Len(Cut(q, k))
      BY <2>1, CutIsPath
    <3>2. /\ SubSeq(Cut(q, k), 1, 1) \in Seq(Names \cup {Slash})
          /\ Len(SubSeq(Cut(q, k), 1, 1)) = 1 /\ SubSeq(Cut(q, k), 1, 1)[1] = Cut(q, k)[1]
      BY <3>1, PartOf
    <3> QED BY <3>2, OneLong
  <2> QED BY <1>1, <2>2, <2>3 DEF Path!HeadName
<1> QED BY <1>2, <1>3

LEMMA CutBody ==
  ASSUME NEW q \in Seq(Names), NEW k \in 0 .. Len(q) - 1
  PROVE  /\ k + 1 = Len(q) => Path!Body(Cut(q, k)) = <<>>
         /\ k + 1 < Len(q) => Path!Body(Cut(q, k)) = Cut(q, k + 1) /\ Cut(q, k + 1) # <<>>
<1>1. Cut(q, k)[1] = q[k + 1] /\ q[k + 1] # Slash
  BY NamesAssumption DEF Cut
<1>2. CASE k + 1 = Len(q)
  <2>1. Cut(q, k) = <<q[k + 1]>>
    <3>1. Cut(q, k) \in Seq(Names \cup {Slash}) /\ Len(Cut(q, k)) = 1
      <4>1. 2 * (Len(q) - k) - 1 = 1
        BY <1>2
      <4> QED BY <4>1, CutIsPath
    <3> QED BY <3>1, <1>1, OneLong
  <2> QED BY <1>2, <2>1, <1>1, NoFirstSlash DEF Path!Body
<1>3. CASE k + 1 < Len(q)
  <2>1. Cut(q, k)[2] = Slash /\ 2 \in 1 .. Len(Cut(q, k))
    BY <1>3, CutIsPath DEF Cut
  <2>2. Path!FirstSlash(Cut(q, k)) = 2
    <3>1. Cut(q, k) \in Seq(Names \cup {Slash}) /\ \A j \in 1 .. 2 - 1 : Cut(q, k)[j] # Slash
      BY <1>1, CutIsPath
    <3> QED BY <2>1, <3>1, FirstSlashAt
  <2>3. Path!Body(Cut(q, k)) = SubSeq(Cut(q, k), 3, Len(Cut(q, k)))
    BY <2>2 DEF Path!Body
  <2>4. Len(Cut(q, k + 1)) = Len(Cut(q, k)) - 2 /\ Cut(q, k + 1) \in Seq(Names \cup {Slash})
    BY <1>3, CutIsPath
  <2>5. ASSUME NEW j \in 1 .. Len(Cut(q, k)) - 2 PROVE Cut(q, k + 1)[j] = Cut(q, k)[j + 2]
    <3>1. j \in 1 .. 2 * (Len(q) - (k + 1)) - 1 /\ j + 2 \in 1 .. 2 * (Len(q) - k) - 1
      BY CutIsPath
    <3>2. (j + 2) % 2 = j % 2 /\ k + (j + 2 + 1) \div 2 = k + 1 + (j + 1) \div 2
      OBVIOUS
    <3> QED BY <3>1, <3>2 DEF Cut
  <2>6. SubSeq(Cut(q, k), 3, Len(Cut(q, k))) = Cut(q, k + 1)
    <3>1. /\ SubSeq(Cut(q, k), 3, Len(Cut(q, k))) \in Seq(Names \cup {Slash})
          /\ Len(SubSeq(Cut(q, k), 3, Len(Cut(q, k)))) = Len(Cut(q, k)) - 2
          /\ \A i \in 1 .. Len(Cut(q, k)) - 2 :
                SubSeq(Cut(q, k), 3, Len(Cut(q, k)))[i] = Cut(q, k)[i + 2]
      <4>1. Cut(q, k) \in Seq(Names \cup {Slash}) /\ 3 \in 1 .. Len(Cut(q, k)) + 1
            /\ Len(Cut(q, k)) \in 3 - 1 .. Len(Cut(q, k))
        BY <2>1, CutIsPath
      <4>2. /\ SubSeq(Cut(q, k), 3, Len(Cut(q, k))) \in Seq(Names \cup {Slash})
            /\ Len(SubSeq(Cut(q, k), 3, Len(Cut(q, k)))) = Len(Cut(q, k)) - 3 + 1
            /\ \A i \in 1 .. Len(Cut(q, k)) - 3 + 1 :
                  SubSeq(Cut(q, k), 3, Len(Cut(q, k)))[i] = Cut(q, k)[3 + i - 1]
        BY <4>1, PartOf
      <4> QED BY <4>1, <4>2
    <3> QED BY <3>1, <2>4, <2>5, SeqEqual
  <2>7. Len(Cut(q, k + 1)) > 0
    BY <1>3, CutIsPath
  <2> QED BY <1>3, <2>3, <2>6, <2>7
<1> QED BY <1>2, <1>3

LEMMA PathIsPath ==
  ASSUME NEW q \in Seq(Names)
  PROVE  /\ Path!PathOf(q) \in Seq(Names \cup {Slash})
         /\ q # <<>> => Len(Path!PathOf(q)) = 2 * Len(q)
         /\ q = <<>> => Path!PathOf(q) = <<Slash>>
<1>1. CASE q = <<>>
  BY <1>1 DEF Path!PathOf
<1>2. CASE q # <<>>
  <2>1. Len(q) \in Nat /\ Path!PathOf(q) = [k \in 1 .. 2 * Len(q) |->
                              IF k % 2 = 1 THEN Slash ELSE q[k \div 2]]
    BY <1>2 DEF Path!PathOf
  <2>2. ASSUME NEW k \in 1 .. 2 * Len(q) PROVE Path!PathOf(q)[k] \in Names \cup {Slash}
    BY <2>1
  <2> QED BY <1>2, <2>1, <2>2
<1> QED BY <1>1, <1>2

LEMMA PathEntries ==
  ASSUME NEW q \in Seq(Names), q # <<>>, NEW k \in 1 .. 2 * Len(q)
  PROVE  Path!PathOf(q)[k] = IF k % 2 = 1 THEN Slash ELSE q[k \div 2]
BY DEF Path!PathOf

\* Head takes the leading slash off a path, and Body leaves the names.
LEMMA PathStart ==
  ASSUME NEW q \in Seq(Names), q # <<>>
  PROVE  /\ Path!PathOf(q) # <<Slash>>
         /\ Path!HeadName(Path!PathOf(q)) = <<Slash>>
         /\ Path!Body(Path!PathOf(q)) = Cut(q, 0)
<1>0. Len(q) >= 1 /\ Len(Path!PathOf(q)) = 2 * Len(q)
  BY PathIsPath
<1>1. Path!PathOf(q)[1] = Slash
  BY <1>0, PathEntries
<1>2. Path!FirstSlash(Path!PathOf(q)) = 1
  BY <1>0, <1>1, PathIsPath, FirstSlashAt
<1>3. Path!Body(Path!PathOf(q)) = SubSeq(Path!PathOf(q), 2, Len(Path!PathOf(q)))
  BY <1>2 DEF Path!Body
<1>4. Len(Cut(q, 0)) = 2 * Len(q) - 1 /\ Cut(q, 0) \in Seq(Names \cup {Slash})
  BY <1>0, CutIsPath
<1>5. ASSUME NEW j \in 1 .. 2 * Len(q) - 1 PROVE Cut(q, 0)[j] = Path!PathOf(q)[j + 1]
  <2>1. Path!PathOf(q)[j + 1] = IF (j + 1) % 2 = 1 THEN Slash ELSE q[(j + 1) \div 2]
    BY <1>0, PathEntries
  <2>2. Cut(q, 0)[j] = IF j % 2 = 1 THEN q[0 + (j + 1) \div 2] ELSE Slash
    BY <1>0 DEF Cut
  <2> QED BY <2>1, <2>2
<1>6. SubSeq(Path!PathOf(q), 2, Len(Path!PathOf(q))) = Cut(q, 0)
  <2>1. /\ SubSeq(Path!PathOf(q), 2, Len(Path!PathOf(q))) \in Seq(Names \cup {Slash})
        /\ Len(SubSeq(Path!PathOf(q), 2, Len(Path!PathOf(q)))) = 2 * Len(q) - 1
        /\ \A i \in 1 .. 2 * Len(q) - 1 :
              SubSeq(Path!PathOf(q), 2, Len(Path!PathOf(q)))[i] = Path!PathOf(q)[i + 1]
    BY <1>0, PathIsPath, PartOf
  <2> QED BY <2>1, <1>4, <1>5, SeqEqual
<1>7. Path!PathOf(q) # <<Slash>>
  BY <1>0
<1> QED BY <1>2, <1>3, <1>6, <1>7 DEF Path!HeadName

\* AllButTail is the path of the parent, and Tail the last name.
LEMMA PathEnd ==
  ASSUME NEW q \in Seq(Names), q # <<>>
  PROVE  /\ Path!AllButTail(Path!PathOf(q)) = Path!PathOf(Path!Front(q))
         /\ Path!PathTail(Path!PathOf(q)) = <<q[Len(q)]>>
<1> DEFINE p == Path!PathOf(q)
<1>0. Len(q) >= 1 /\ Len(q) \in Nat /\ Len(p) = 2 * Len(q) /\ p \in Seq(Names \cup {Slash})
  BY PathIsPath
<1>1. p[2 * Len(q) - 1] = Slash /\ p[2 * Len(q)] = q[Len(q)]
  <2>1. /\ 2 * Len(q) - 1 \in 1 .. 2 * Len(q) /\ (2 * Len(q) - 1) % 2 = 1
        /\ 2 * Len(q) \in 1 .. 2 * Len(q) /\ (2 * Len(q)) % 2 # 1 /\ (2 * Len(q)) \div 2 = Len(q)
    BY <1>0
  <2> QED BY <2>1, PathEntries
<1>2. q[Len(q)] # Slash
  BY <1>0, NamesAssumption
<1>3. Path!LastSlash(p) = 2 * Len(q) - 1
  <2>1. 2 * Len(q) - 1 \in 1 .. Len(p) /\ \A j \in 2 * Len(q) - 1 + 1 .. Len(p) : p[j] # Slash
    BY <1>0, <1>1, <1>2
  <2> QED BY <1>0, <1>1, <2>1, LastSlashAt
<1>4. Path!PathTail(p) = <<q[Len(q)]>>
  <2>1. Path!PathTail(p) = SubSeq(p, 2 * Len(q), 2 * Len(q))
    BY <1>0, <1>3 DEF Path!PathTail
  <2>2. /\ SubSeq(p, 2 * Len(q), 2 * Len(q)) \in Seq(Names \cup {Slash})
        /\ Len(SubSeq(p, 2 * Len(q), 2 * Len(q))) = 1
        /\ SubSeq(p, 2 * Len(q), 2 * Len(q))[1] = p[2 * Len(q)]
    <3>1. 2 * Len(q) \in 1 .. Len(p) + 1 /\ 2 * Len(q) \in 2 * Len(q) - 1 .. Len(p)
      BY <1>0
    <3>2. 2 * Len(q) - 2 * Len(q) + 1 = 1 /\ 2 * Len(q) + 1 - 1 = 2 * Len(q)
      BY <1>0
    <3> HIDE DEF p
    <3>3. /\ SubSeq(p, 2 * Len(q), 2 * Len(q)) \in Seq(Names \cup {Slash})
          /\ Len(SubSeq(p, 2 * Len(q), 2 * Len(q))) = 2 * Len(q) - 2 * Len(q) + 1
          /\ \A i \in 1 .. 2 * Len(q) - 2 * Len(q) + 1 :
                SubSeq(p, 2 * Len(q), 2 * Len(q))[i] = p[2 * Len(q) + i - 1]
      BY <1>0, <3>1, PartOf
    <3> QED BY <3>2, <3>3
  <2> QED BY <2>1, <2>2, <1>1, OneLong
<1>5. Path!Front(q) \in Seq(Names) /\ Len(Path!Front(q)) = Len(q) - 1
  <2>1. 1 \in 1 .. Len(q) + 1 /\ Len(q) - 1 \in 1 - 1 .. Len(q)
    BY <1>0
  <2>2. /\ SubSeq(q, 1, Len(q) - 1) \in Seq(Names)
        /\ Len(SubSeq(q, 1, Len(q) - 1)) = Len(q) - 1 - 1 + 1
    BY <2>1, PartOf
  <2> QED BY <1>0, <2>2 DEF Path!Front
<1>6. CASE Len(q) = 1
  <2>1. Path!Front(q) = <<>>
    BY <1>5, <1>6
  <2>2. Path!PathOf(Path!Front(q)) = <<Slash>>
    BY <2>1 DEF Path!PathOf
  <2>3. Path!AllButTail(p) = <<Slash>>
    BY <1>3, <1>6 DEF Path!AllButTail
  <2> QED BY <1>4, <2>2, <2>3
<1>7. CASE Len(q) # 1
  <2>1. Path!AllButTail(p) = SubSeq(p, 1, 2 * Len(q) - 2)
    BY <1>0, <1>3, <1>7 DEF Path!AllButTail
  <2>2. Path!Front(q) # <<>> /\ Len(Path!PathOf(Path!Front(q))) = 2 * Len(q) - 2
        /\ Path!PathOf(Path!Front(q)) \in Seq(Names \cup {Slash})
    BY <1>0, <1>5, <1>7, PathIsPath
  <2>3. ASSUME NEW k \in 1 .. 2 * Len(q) - 2 PROVE Path!PathOf(Path!Front(q))[k] = p[k]
    <3>1. p[k] = IF k % 2 = 1 THEN Slash ELSE q[k \div 2]
      BY <1>0, PathEntries
    <3>2. Path!PathOf(Path!Front(q))[k] = IF k % 2 = 1 THEN Slash ELSE Path!Front(q)[k \div 2]
      BY <1>0, <1>5, <2>2, PathEntries
    <3>3. k % 2 # 1 => k \div 2 \in 1 .. Len(q) - 1
      BY <1>0
    <3>4. k % 2 # 1 => Path!Front(q)[k \div 2] = q[k \div 2]
      BY <3>3, <1>0, PartOf DEF Path!Front
    <3> QED BY <3>1, <3>2, <3>4
  <2>4. SubSeq(p, 1, 2 * Len(q) - 2) = Path!PathOf(Path!Front(q))
    <3>1. /\ SubSeq(p, 1, 2 * Len(q) - 2) \in Seq(Names \cup {Slash})
          /\ Len(SubSeq(p, 1, 2 * Len(q) - 2)) = 2 * Len(q) - 2
          /\ \A i \in 1 .. 2 * Len(q) - 2 : SubSeq(p, 1, 2 * Len(q) - 2)[i] = p[i]
      BY <1>0, PartOf
    <3> QED BY <3>1, <2>2, <2>3, SeqEqual
  <2> QED BY <2>1, <2>4, <1>4
<1> QED BY <1>6, <1>7

-----------------------------------------------------------------------------
(* The descent.                                                            *)

DescentTypes ==
  /\ known \subseteq Path!Directories /\ <<>> \in known
  /\ tree \in Trees /\ at \in DOMAIN tree
  /\ asked \in {<<>>} \cup {Append(q, n) : q \in Path!Directories, n \in Names}
  /\ op \in {"node", "make"}
  /\ op = "make" => asked # <<>>
  /\ rest \in Seq(Names \cup {Slash})
  /\ result \in {"idle", "context", "descending", "found", "ENOENT", "ENAMETOOLONG"}

\* Where the descent is: in the node of the first names of the path, with the
\* path of the other names still to go.
OnItsWay ==
  /\ result = "context" => at = <<>> /\ rest = Path!PathOf(Path!Followed)
  /\ result = "descending" =>
       /\ Len(at) < Len(Path!Followed) /\ at = SubSeq(Path!Followed, 1, Len(at))
       /\ rest = Cut(Path!Followed, Len(at))

Descent == DescentTypes /\ OnItsWay /\ Path!Resolves /\ Path!NoFalseError

LEMMA DirectoriesAreNames == Path!Directories \subseteq Seq(Names)
BY TreesAssumption DEF Path!Directories

LEMMA FollowedNames == DescentTypes => asked \in Seq(Names) /\ Path!Followed \in Seq(Names)
<1> SUFFICES ASSUME DescentTypes PROVE asked \in Seq(Names) /\ Path!Followed \in Seq(Names)
  OBVIOUS
<1>1. asked \in Seq(Names)
  <2>1. ASSUME NEW q \in Path!Directories, NEW n \in Names PROVE Append(q, n) \in Seq(Names)
    BY DirectoriesAreNames
  <2>2. CASE asked = <<>>
    BY <2>2
  <2>3. CASE asked # <<>>
    <3>1. PICK q \in Path!Directories, n \in Names : asked = Append(q, n)
      BY <2>3 DEF DescentTypes
    <3> QED BY <2>1, <3>1
  <2> QED BY <2>2, <2>3
<1>2. CASE op = "make"
  <2>1. 1 \in 1 .. Len(asked) + 1 /\ Len(asked) - 1 \in 1 - 1 .. Len(asked)
    BY <1>1, <1>2 DEF DescentTypes
  <2>2. SubSeq(asked, 1, Len(asked) - 1) \in Seq(Names)
    BY <1>1, <2>1, PartOf
  <2> QED BY <1>1, <1>2, <2>2 DEF Path!Followed, Path!Front
<1> QED BY <1>1, <1>2 DEF Path!Followed

LEMMA DescentInitially == Path!Init => Descent
<1> SUFFICES ASSUME Path!Init PROVE Descent
  OBVIOUS
<1>1. <<>> \in DOMAIN tree /\ tree[<<>>] = "root" /\ <<>> \in Path!Directories
  BY TreesAssumption DEF Path!Init, Path!Directories
<1> QED BY <1>1 DEF Path!Init, Descent, DescentTypes, OnItsWay, Path!Resolves, Path!NoFalseError

\* The kernel names things in directories it knows, whether they are still
\* there or not.
LEMMA OperationStarts ==
  ASSUME Descent, NEW names \in {<<>>} \cup {Append(q, n) : q \in Path!Directories, n \in Names},
         NEW o \in {"node", "make"}, o = "make" => names # <<>>, Path!Operation(names, o)
  PROVE  Descent'
<1>1. <<>> \in DOMAIN tree
  BY TreesAssumption DEF Descent, DescentTypes
<1>2. names \in Seq(Names)
  <2>1. ASSUME NEW q \in Path!Directories, NEW n \in Names PROVE Append(q, n) \in Seq(Names)
    BY DirectoriesAreNames
  <2>2. CASE names = <<>>
    BY <2>2
  <2>3. CASE names # <<>>
    <3>1. PICK q \in Path!Directories, n \in Names : names = Append(q, n)
      BY <2>3
    <3> QED BY <2>1, <3>1
  <2> QED BY <2>2, <2>3
<1>3. Path!Followed' = IF o = "make" THEN Path!Front(names) ELSE names
  BY DEF Path!Operation, Path!Followed
<1>4. rest' = Path!PathOf(Path!Followed')
  BY <1>2, <1>3, PathEnd DEF Path!Operation
<1>5. Path!Followed' \in Seq(Names)
  <2>1. o = "make" => 1 \in 1 .. Len(names) + 1 /\ Len(names) - 1 \in 1 - 1 .. Len(names)
    BY <1>2
  <2>2. o = "make" => SubSeq(names, 1, Len(names) - 1) \in Seq(Names)
    BY <1>2, <2>1, PartOf
  <2> QED BY <1>2, <1>3, <2>2 DEF Path!Front
<1>6. rest' \in Seq(Names \cup {Slash})
  BY <1>4, <1>5, PathIsPath
<1>7. DescentTypes'
  BY <1>1, <1>6 DEF Path!Operation, Descent, DescentTypes, Path!Directories
<1> QED BY <1>4, <1>7 DEF Path!Operation, Descent, OnItsWay, Path!Resolves, Path!NoFalseError

LEMMA ContextKeeps == Descent /\ Path!ContextGetNode => Descent'
<1> SUFFICES ASSUME Descent, Path!ContextGetNode PROVE Descent'
  OBVIOUS
<1>0. /\ result = "context" /\ at = <<>> /\ rest = Path!PathOf(Path!Followed)
      /\ Path!Followed \in Seq(Names) /\ Path!Followed' = Path!Followed
  BY FollowedNames DEF Descent, OnItsWay, Path!ContextGetNode, Path!Ends, Path!Followed
<1>1. CASE Path!Followed = <<>>
  <2>1. rest = <<Slash>>
    BY <1>0, <1>1, PathIsPath
  <2>2. Path!FirstSlash(<<Slash>>) = 1
    BY FirstSlashAt
  <2>3. Path!HeadName(rest) = <<Slash>>
    BY <2>1, <2>2 DEF Path!HeadName
  <2>4. Path!Ends("found")
    BY <2>1, <2>3 DEF Path!ContextGetNode
  <2> QED BY <1>0, <1>1, <2>4 DEF Path!Ends, Descent, DescentTypes, OnItsWay, Path!Resolves,
          Path!NoFalseError, Path!Directories
<1>2. CASE Path!Followed # <<>>
  <2>1. /\ rest # <<Slash>> /\ Path!HeadName(rest) = <<Slash>>
        /\ Path!Body(rest) = Cut(Path!Followed, 0)
    BY <1>0, <1>2, PathStart
  <2>2. /\ rest' = Cut(Path!Followed, 0) /\ result' = "descending"
        /\ UNCHANGED <<tree, known, asked, op, at>>
    BY <2>1 DEF Path!ContextGetNode
  <2>3. Len(Path!Followed) > 0 /\ Len(at) = 0 /\ SubSeq(Path!Followed, 1, 0) = <<>>
    BY <1>0, <1>2
  <2>4. rest' \in Seq(Names \cup {Slash})
    BY <1>0, <2>2, <2>3, CutIsPath
  <2>5. DescentTypes' /\ OnItsWay'
    BY <1>0, <2>2, <2>3, <2>4 DEF Descent, DescentTypes, OnItsWay, Path!Directories
  <2> QED BY <2>2, <2>5 DEF Descent, Path!Resolves, Path!NoFalseError
<1> QED BY <1>1, <1>2

\* One getNode takes one name off the path and one step into the tree.  A name
\* that is not there means that the whole path is not: what is there lies in
\* folders that are there.
LEMMA GetNodeKeeps == Descent /\ Path!GetNode => Descent'
<1> SUFFICES ASSUME Descent, Path!GetNode PROVE Descent'
  OBVIOUS
<1> DEFINE F == Path!Followed
           k == Len(at)
<1>0. /\ F \in Seq(Names) /\ at = SubSeq(F, 1, k) /\ rest = Cut(F, k) /\ k < Len(F)
      /\ F' = F /\ tree' = tree /\ result = "descending" /\ at \in Seq(Names)
  <2>1. at \in Seq(Names)
    BY TreesAssumption DEF Descent, DescentTypes
  <2> QED BY <2>1, FollowedNames DEF Descent, OnItsWay, Path!GetNode, Path!Ends, Path!EnterChild, Path!Followed
<1>k. k \in 0 .. Len(F) - 1 /\ k \in Nat
  BY <1>0
<1>1. Path!HeadName(rest) = <<F[k + 1]>> /\ F[k + 1] \in Names
  BY <1>0, <1>k, CutHead
<1>2. /\ SubSeq(F, 1, k + 1) \in Seq(Names) /\ Len(SubSeq(F, 1, k + 1)) = k + 1
      /\ \A i \in 1 .. k + 1 : SubSeq(F, 1, k + 1)[i] = F[i]
  <2>1. 1 \in 1 .. Len(F) + 1 /\ k + 1 \in 1 - 1 .. Len(F)
    BY <1>0, <1>k
  <2>2. /\ SubSeq(F, 1, k + 1) \in Seq(Names) /\ Len(SubSeq(F, 1, k + 1)) = k + 1 - 1 + 1
        /\ \A i \in 1 .. k + 1 - 1 + 1 : SubSeq(F, 1, k + 1)[i] = F[1 + i - 1]
    BY <1>0, <2>1, PartOf
  <2> QED BY <1>k, <2>2
<1>3. Path!Child = SubSeq(F, 1, k + 1)
  <2>1. \A i \in 1 .. k : at[i] = F[i]
    <3>1. 1 \in 1 .. Len(F) + 1 /\ k \in 1 - 1 .. Len(F)
      BY <1>0, <1>k
    <3>2. \A i \in 1 .. k - 1 + 1 : SubSeq(F, 1, k)[i] = F[1 + i - 1]
      BY <1>0, <3>1, PartOf
    <3> QED BY <1>0, <1>k, <3>2
  <2>2. /\ Path!Child = at \o <<F[k + 1]>> /\ <<F[k + 1]>> \in Seq(Names)
        /\ Len(<<F[k + 1]>>) = 1 /\ <<F[k + 1]>>[1] = F[k + 1]
    BY <1>1 DEF Path!Child
  <2>3. /\ at \o <<F[k + 1]>> \in Seq(Names) /\ Len(at \o <<F[k + 1]>>) = k + 1
        /\ \A i \in 1 .. k + 1 : (at \o <<F[k + 1]>>)[i] = F[i]
    BY <1>0, <1>k, <2>1, <2>2, ConcatProperties
  <2> QED BY <1>2, <2>2, <2>3, SeqEqual
<1>4. ~(at = <<>> /\ Path!Empty(rest))
  BY <1>0, <1>k, CutIsPath DEF Path!Empty
<1>5. CASE Path!HeadTooLong(rest)
  <2>1. F[k + 1] \in TooLong /\ k + 1 \in DOMAIN F
    BY <1>0, <1>k, <1>1, <1>5 DEF Path!HeadTooLong
  <2>2. Path!Ends("ENAMETOOLONG")
    BY <1>4, <1>5 DEF Path!GetNode
  <2>3. Path!NoFalseError'
    BY <1>0, <2>1, <2>2 DEF Path!NoFalseError, Path!Ends
  <2> QED BY <2>2, <2>3 DEF Path!Ends, Descent, DescentTypes, OnItsWay, Path!Resolves, Path!Directories
<1>6. CASE ~Path!HeadTooLong(rest) /\ Path!Child \notin DOMAIN tree
  <2>1. F \notin DOMAIN tree
    <3>1. ASSUME F \in DOMAIN tree PROVE SubSeq(F, 1, k + 1) \in DOMAIN tree
      BY <1>0, <1>k, <3>1, TreesAssumption DEF Descent, DescentTypes
    <3> QED BY <3>1, <1>3, <1>6
  <2>2. Path!Ends("ENOENT")
    BY <1>4, <1>6 DEF Path!GetNode
  <2>3. Path!NoFalseError'
    BY <1>0, <2>1, <2>2 DEF Path!NoFalseError, Path!Ends
  <2> QED BY <2>2, <2>3 DEF Path!Ends, Descent, DescentTypes, OnItsWay, Path!Resolves, Path!Directories
<1>7. CASE ~Path!HeadTooLong(rest) /\ Path!Child \in DOMAIN tree
  <2>1. Path!EnterChild
    BY <1>4, <1>7 DEF Path!GetNode
  <2>2. /\ at' = SubSeq(F, 1, k + 1) /\ at' \in DOMAIN tree' /\ rest' = Path!Body(Cut(F, k))
        /\ UNCHANGED <<tree, known, asked, op>>
    BY <1>0, <1>3, <1>7, <2>1 DEF Path!EnterChild
  <2>3. CASE k + 1 = Len(F)
    <3>1. rest' = <<>> /\ result' = "found"
      BY <1>0, <1>k, <2>1, <2>2, <2>3, CutBody DEF Path!EnterChild, Path!Empty
    <3>2. at' = F
      <4>1. \A i \in 1 .. Len(F) : SubSeq(F, 1, k + 1)[i] = F[i]
        BY <1>2, <2>3
      <4> QED BY <1>0, <1>2, <2>2, <2>3, <4>1, SeqEqual
    <3>3. DescentTypes'
      BY <2>2, <3>1 DEF Descent, DescentTypes, Path!Directories
    <3>4. Path!Resolves'
      BY <1>0, <3>2 DEF Path!Resolves
    <3> QED BY <3>1, <3>3, <3>4 DEF Descent, OnItsWay, Path!NoFalseError
  <2>4. CASE k + 1 # Len(F)
    <3>1. rest' = Cut(F, k + 1) /\ ~Path!Empty(Path!Body(rest))
      BY <1>0, <1>k, <2>2, <2>4, CutBody DEF Path!Empty
    <3>2. result' = IF tree[at'] = "file" THEN "found" ELSE "descending"
      BY <2>1, <3>1 DEF Path!EnterChild
    <3>3. rest' \in Seq(Names \cup {Slash}) /\ Len(at') = k + 1 /\ k + 1 < Len(F)
      <4>1. k + 1 < Len(F) /\ k + 1 \in 0 .. Len(F) - 1
        BY <1>0, <1>k, <2>4
      <4>2. Cut(F, k + 1) \in Seq(Names \cup {Slash})
        BY <1>0, <4>1, CutIsPath
      <4> QED BY <1>2, <2>2, <3>1, <4>1, <4>2
    <3>4. DescentTypes'
      BY <2>2, <3>2, <3>3 DEF Descent, DescentTypes, Path!Directories
    <3>5. OnItsWay'
      BY <1>0, <2>2, <3>1, <3>2, <3>3 DEF OnItsWay
    <3>6. Path!Resolves'
      <4>1. Path!IsPrefix(at', F) /\ at' # F
        <5>1. SubSeq(at', 1, Len(at')) = at'
          BY <1>2, <2>2, SubSeqFull
        <5> QED BY <1>0, <2>2, <3>3, <5>1 DEF Path!IsPrefix
      <4>2. ASSUME tree[SubSeq(F, 1, k + 1)] = "file" PROVE F \notin DOMAIN tree
        <5>1. k + 1 \in 0 .. Len(F) /\ k + 1 < Len(F) /\ tree \in Trees
          BY <1>0, <1>k, <3>3 DEF Descent, DescentTypes
        <5> QED BY <4>2, <5>1, TreesAssumption
      <4> QED BY <1>0, <2>2, <3>2, <4>1, <4>2 DEF Path!Resolves, Path!IsStrictPrefix
    <3> QED BY <3>2, <3>4, <3>5, <3>6 DEF Descent, Path!NoFalseError
  <2> QED BY <2>3, <2>4
<1> QED BY <1>5, <1>6, <1>7

LEMMA DescentKept == Descent /\ [Path!Next]_pathVars => Descent'
<1> SUFFICES ASSUME Descent, [Path!Next]_pathVars PROVE Descent'
  OBVIOUS
<1>1. ASSUME Path!Kernel PROVE Descent'
  <2>1. CASE Path!Operation(<<>>, "node")
    BY <2>1, OperationStarts
  <2>2. ASSUME NEW d \in known, NEW n \in Names, NEW o \in {"node", "make"},
               Path!Operation(Append(d, n), o)
        PROVE  Descent'
    <3>1. d \in Path!Directories /\ d \in Seq(Names)
      BY DirectoriesAreNames DEF Descent, DescentTypes
    <3>2. Append(d, n) # <<>>
      BY <3>1, AppendProperties
    <3>3. PICK names : names = Append(d, n)
      OBVIOUS
    <3>4. names \in {<<>>} \cup {Append(q, m) : q \in Path!Directories, m \in Names}
      BY <3>1, <3>3
    <3>5. Path!Operation(names, o) /\ names # <<>>
      BY <2>2, <3>2, <3>3
    <3> QED BY <3>4, <3>5, OperationStarts
  <2> QED BY <1>1, <2>1, <2>2 DEF Path!Kernel
<1>2. ASSUME Path!KernelLearns PROVE Descent'
  <2>1. UNCHANGED <<tree, asked, op, at, rest, result>> /\ op = "node" /\ result \in {"found", "ENOENT"}
    BY <1>2 DEF Path!KernelLearns
  <2>2. Path!Followed = asked /\ Path!Followed' = Path!Followed
    BY <2>1 DEF Path!Followed
  <2>3. known' \subseteq Path!Directories /\ <<>> \in known'
    <3>1. CASE result = "found" /\ tree[at] # "file"
      <4>1. at = asked
        BY <2>2, <3>1 DEF Descent, Path!Resolves
      <4>2. asked \in Path!Directories
        BY <3>1, <4>1 DEF Descent, DescentTypes, Path!Directories
      <4> QED BY <1>2, <3>1, <4>2 DEF Path!KernelLearns, Descent, DescentTypes
    <3>2. CASE ~(result = "found" /\ tree[at] # "file")
      <4>1. known' = {d \in known : ~Path!IsPrefix(asked, d)}
        BY <1>2, <3>2 DEF Path!KernelLearns
      <4>2. asked # <<>>
        <5>1. <<>> \in DOMAIN tree /\ tree[<<>>] = "root"
          BY TreesAssumption DEF Descent, DescentTypes
        <5>2. asked = <<>> /\ result = "found" => at = <<>>
          BY <2>2 DEF Descent, Path!Resolves, Path!IsStrictPrefix, Path!IsPrefix
        <5> QED BY <2>1, <2>2, <3>2, <5>1, <5>2 DEF Descent, Path!NoFalseError
      <4>3. ~Path!IsPrefix(asked, <<>>)
        BY <4>2, FollowedNames DEF Path!IsPrefix, Descent
      <4> QED BY <4>1, <4>3 DEF Descent, DescentTypes
    <3> QED BY <3>1, <3>2
  <2>4. Path!Directories' = Path!Directories
    BY DEF Path!Directories
  <2>5. DescentTypes'
    BY <2>1, <2>3 DEF Descent, DescentTypes, Path!Directories
  <2> QED BY <2>1, <2>2, <2>5 DEF Descent, OnItsWay, Path!Resolves, Path!NoFalseError
<1>3. ASSUME Path!DeviceChanges PROVE Descent'
  <2>1. <<>> \in DOMAIN tree'
    BY <1>3, TreesAssumption DEF Path!DeviceChanges
  <2> QED BY <1>3, <2>1 DEF Path!DeviceChanges, Descent, DescentTypes, OnItsWay, Path!Resolves,
          Path!NoFalseError, Path!Directories
<1>4. ASSUME UNCHANGED pathVars PROVE Descent'
  BY <1>4 DEF pathVars, Descent, DescentTypes, OnItsWay, Path!Resolves, Path!NoFalseError,
     Path!Directories, Path!Followed
<1> QED BY <1>1, <1>2, <1>3, <1>4, ContextKeeps, GetNodeKeeps DEF Path!Next

\* The start-up does not touch the paths.
LEMMA MountedDescends == MountedSpec => []Descent
<1>1. MountedInit => Descent
  BY DescentInitially DEF MountedInit
<1>2. Descent /\ [MountedNext]_<<vars, pathVars>> => Descent'
  <2> SUFFICES ASSUME Descent, [MountedNext]_<<vars, pathVars>> PROVE Descent'
    OBVIOUS
  <2>1. [Path!Next]_pathVars
    BY DEF MountedNext, Serve
  <2> QED BY <2>1, DescentKept
<1> QED BY <1>1, <1>2, PTL DEF MountedSpec

\* A path leads to the node of exactly its names; only one that names nothing
\* and goes on below a file ends at that file: for every tree, and for paths of
\* every length.
THEOREM PathsResolve == MountedSpec => []Resolves
<1>1. Descent => Resolves
  BY DEF Descent, Resolves
<1> QED BY <1>1, MountedDescends, PTL

\* ENOENT is the answer only for a path that names nothing, and ENAMETOOLONG
\* only for one with a name over the limit.
THEOREM ErrorsAreTrue == MountedSpec => []NoFalseError
<1>1. Descent => NoFalseError
  BY DEF Descent, NoFalseError
<1> QED BY <1>1, MountedDescends, PTL

\* The parent and the name a new file or folder is made with are those of the
\* path that was asked for.
THEOREM MadeAtThePath == MountedSpec => []MadeWhereAsked
<1>1. Descent => MadeWhereAsked
  <2> SUFFICES ASSUME Descent, op = "make", result = "found", tree[at] # "file"
               PROVE  at \o Path!PathTail(Path!PathOf(asked)) = asked
    BY DEF MadeWhereAsked, Path!MadeWhereAsked
  <2>1. at = Path!Front(asked) /\ asked # <<>> /\ asked \in Seq(Names)
    BY FollowedNames DEF Descent, DescentTypes, Path!Resolves, Path!Followed
  <2>2. Path!PathTail(Path!PathOf(asked)) = <<asked[Len(asked)]>>
    BY <2>1, PathEnd
  <2>3. SubSeq(asked, 1, Len(asked) - 1) \o <<asked[Len(asked)]>> = asked
    <3>1. Len(asked) \in Nat /\ Len(asked) >= 1 /\ 1 \in 1 .. Len(asked) + 1
          /\ Len(asked) - 1 \in 1 - 1 .. Len(asked)
      BY <2>1
    <3>2. /\ SubSeq(asked, 1, Len(asked) - 1) \in Seq(Names)
          /\ Len(SubSeq(asked, 1, Len(asked) - 1)) = Len(asked) - 1 - 1 + 1
          /\ \A i \in 1 .. Len(asked) - 1 - 1 + 1 :
                SubSeq(asked, 1, Len(asked) - 1)[i] = asked[1 + i - 1]
      BY <2>1, <3>1, PartOf
    <3>3. /\ <<asked[Len(asked)]>> \in Seq(Names) /\ Len(<<asked[Len(asked)]>>) = 1
          /\ <<asked[Len(asked)]>>[1] = asked[Len(asked)]
      BY <2>1, <3>1
    <3>4. /\ SubSeq(asked, 1, Len(asked) - 1) \o <<asked[Len(asked)]>> \in Seq(Names)
          /\ Len(SubSeq(asked, 1, Len(asked) - 1) \o <<asked[Len(asked)]>>) = Len(asked)
          /\ \A i \in 1 .. Len(asked) :
                (SubSeq(asked, 1, Len(asked) - 1) \o <<asked[Len(asked)]>>)[i] = asked[i]
      BY <3>1, <3>2, <3>3, ConcatProperties
    <3> QED BY <2>1, <3>4, SeqEqual
  <2> QED BY <2>1, <2>2, <2>3 DEF Path!Front
<1> QED BY <1>1, MountedDescends, PTL

-----------------------------------------------------------------------------
(* The types of all variables.                                             *)

\* The types of DeviceSelection need StartInv: the index of the device is one of
\* the list it was found in, as the list is never read again.
StartTypesKept ==
  /\ TypeOK /\ StartInv
  /\ stage \in {"start", "parsed", "listing", "detected"} => chosen = 0

LEMMA StartTypesInitially == Init => StartTypesKept
<1> SUFFICES ASSUME Init PROVE TypeOK
  BY StartInitially DEF StartTypesKept, Init
<1>1. StartInv /\ chosen = 0 /\ detected \in Findings
  BY StartInitially DEF Init, StartInv, StartTypes
<1>2. Len(detected) \in Nat
  BY <1>1, Found
<1> QED BY <1>1, <1>2 DEF Init, TypeOK, StartInv, StartTypes, Ends

LEMMA StartTypesStep == StartTypesKept /\ [Next]_vars => StartTypesKept'
<1> SUFFICES ASSUME StartTypesKept, [Next]_vars PROVE StartTypesKept'
  OBVIOUS
<1>i. StartInv /\ StartInv'
  BY StartKept DEF StartTypesKept
<1>t. detected' \in Findings /\ attached' \in Findings
      /\ given' \in [used : BOOLEAN, bus : Texts, dev : Texts]
  BY <1>i DEF StartInv, StartTypes
<1>l. \A q \in Findings : Len(q) \in Nat /\ DOMAIN q = 1 .. Len(q)
  BY Found
<1>s. ASSUME modes' = modes, requested' \in [bus : Int, dev : Int], chosen' \in 0 .. Len(detected)',
             opened' \subseteq Devices,
             stage' \in Ends \cup {"start", "parsed", "detected", "listing", "opening"},
             stage' \in {"start", "parsed", "listing", "detected"} => chosen' = 0
      PROVE  StartTypesKept'
  BY <1>i, <1>t, <1>s DEF StartTypesKept, TypeOK, Ends
<1>0. /\ requested \in [bus : Int, dev : Int] /\ chosen \in 0 .. Len(detected)
      /\ opened \subseteq Devices
      /\ stage \in Ends \cup {"start", "parsed", "detected", "listing", "opening"}
      /\ stage \in {"start", "parsed", "listing", "detected"} => chosen = 0
      /\ detected \in Findings
  BY <1>i DEF StartTypesKept, TypeOK, StartInv, StartTypes
<1>1. CASE StartListing
  BY <1>0, <1>1, <1>s DEF StartListing, Stay
<1>2. CASE ParseDevice
  <2>1. \A t \in Texts : Parsed(t) \in Int
    BY DeviceAssumption DEF Parsed
  <2>2. Parsed(given.bus) \in Int /\ Parsed(given.dev) \in Int
    BY <2>1, <1>i DEF StartInv, StartTypes
  <2>3. requested' \in [bus : Int, dev : Int]
    BY <1>0, <1>2, <2>2 DEF ParseDevice
  <2> QED BY <1>0, <1>2, <2>3, <1>s DEF ParseDevice, Stay, Ends
<1>3. CASE Detect
  <2>1. chosen' = 0 /\ Len(detected') \in Nat
    BY <1>0, <1>3, <1>t, <1>l DEF Detect, Stay
  <2> QED BY <1>0, <1>3, <2>1, <1>s DEF Detect, Stay, Ends
<1>4. CASE GetDevice
  <2>1. stage' = "opening" => chosen' \in DOMAIN detected'
    BY <1>i DEF StartInv, Choice
  <2>2. detected' = detected /\ (stage' # "opening" => chosen' = chosen /\ stage' = "not_found")
    BY <1>4 DEF GetDevice, Stay
  <2>3. chosen' \in 0 .. Len(detected)'
    <3>1. DOMAIN detected' = 1 .. Len(detected') /\ Len(detected') \in Nat
      BY <1>t, <1>l
    <3> QED BY <1>0, <2>1, <2>2, <3>1
  <2>4. stage' \in {"opening", "not_found"}
    BY <1>4 DEF GetDevice
  <2> QED BY <1>0, <1>4, <2>3, <2>4, <1>s DEF GetDevice, Stay, Ends
<1>5. CASE OpenDevice
  <2>1. detected[chosen] \in Devices
    <3>1. chosen \in DOMAIN detected
      BY <1>5, <1>i DEF OpenDevice, StartInv, Choice
    <3> QED BY <1>0, <3>1, Found
  <2> QED BY <1>0, <1>5, <2>1, <1>s DEF OpenDevice, Stay, Ends
<1>6. CASE Replug
  BY <1>0, <1>6, <1>s DEF Replug
<1>7. CASE UNCHANGED vars
  BY <1>0, <1>7, <1>s DEF vars
<1> QED BY <1>1, <1>2, <1>3, <1>4, <1>5, <1>6, <1>7 DEF Next

\* No path is served before the mount.
Unserved == stage # "mounted" => known = {<<>>} /\ result = "idle"

\* The variables of the start-up and of the paths keep their types, and nothing
\* is served before the device has been opened.
THEOREM MountedTypeCorrect == MountedSpec => []MountedTypeOK
<1>1. MountedInit => StartTypesKept /\ Unserved
  BY StartTypesInitially DEF MountedInit, Path!Init, Unserved
<1>2. StartTypesKept /\ Unserved /\ [MountedNext]_<<vars, pathVars>>
        => StartTypesKept' /\ Unserved'
  <2> SUFFICES ASSUME StartTypesKept, Unserved, [MountedNext]_<<vars, pathVars>>
               PROVE  StartTypesKept' /\ Unserved'
    OBVIOUS
  <2>1. [Next]_vars
    BY DEF MountedNext, Serve
  <2>2. stage = "mounted" => stage' = "mounted"
    BY <2>1 DEF Next, StartListing, ParseDevice, Detect, GetDevice, OpenDevice, Replug, Ends, vars
  <2>3. stage # "mounted" => UNCHANGED <<known, result>>
    BY DEF MountedNext, Serve, pathVars
  <2> QED BY <2>1, <2>2, <2>3, StartTypesStep DEF Unserved
<1>3. StartTypesKept /\ Unserved /\ Descent => MountedTypeOK
  BY DEF StartTypesKept, Unserved, Descent, DescentTypes, MountedTypeOK, Path!TypeOK
<1> QED BY <1>1, <1>2, <1>3, MountedDescends, PTL DEF MountedSpec
=============================================================================
