-------------------------- MODULE Platform_proofs --------------------------
(***************************************************************************)
(* Proofs of the properties of Platform: first each part by itself, then   *)
(* the parts side by side.                                                 *)
(***************************************************************************)
EXTENDS Platform, Sequences, SumTheorems

-----------------------------------------------------------------------------
(* CGroupSettings.                                                         *)

(* A group is made or given its settings anew: the others keep theirs.     *)
LEMMA GroupMade ==
  ASSUME Settings!TypeOK, NEW g \in Apps \cup {Self, Main}, NEW s \in Settings!Settings,
         groups' = Settings!With(g, s)
  PROVE  /\ DOMAIN groups' = DOMAIN groups \cup {g}
         /\ groups'[g] = s
         /\ \A h \in DOMAIN groups : h # g => groups'[h] = groups[h]
         /\ \A h \in DOMAIN groups' : groups'[h] \in Settings!Settings
         /\ DOMAIN groups' \subseteq Settings!Names \cup {Main}
BY DEF Settings!TypeOK, Settings!With, Settings!Names

(* What is written when a group is created has the type of settings.       *)
LEMMA DefaultType ==
  Settings!Default \in Settings!Settings /\ Settings!Blank \in Settings!Settings
<1>1. Settings!Cores \in Settings!CpuSets /\ {} \in Settings!CpuSets
  BY PlatformAssumption DEF Settings!SettingsAssumption, Settings!Cores, Settings!CpuSets
<1>2. Settings!Default \in Settings!Settings
  BY <1>1 DEF Settings!Default, Settings!Settings
<1>3. \A s \in Settings!Settings : [s EXCEPT !.cpus = {}] \in Settings!Settings
  BY <1>1 DEF Settings!Settings
<1> QED
  BY <1>2, <1>3 DEF Settings!Blank

(* What the proof of SettingsNext looks at: the types and, when grep hits  *)
(* nobody else's group, what is in force.                                  *)
SettingsInv ==
  /\ Settings!TypeOK
  /\ Settings!ExactMatches => Settings!InForceUnlessRefused

(* When the controller is gone, nothing that it was told counts.           *)
LEMMA ControllerExits ==
  ASSUME SettingsInv, Settings!Exit,
         DOMAIN groups' \subseteq Settings!Names \cup {Main},
         \A g \in DOMAIN groups' : groups'[g] \in Settings!Settings
  PROVE  SettingsInv'
BY DEF SettingsInv, Settings!TypeOK, Settings!InForceUnlessRefused, Settings!Exit

(* A setting of a group is written, or its refusal remembered.             *)
LEMMA SettingWritten ==
  ASSUME SettingsInv, NEW g \in Settings!Names, said[g] # NotTold,
         NEW f \in {"cpus", "quota", "frozen"}, NEW v,
         f = "cpus" => v \in Settings!CpuSets, f = "quota" => v \in Int,
         f = "frozen" => v \in BOOLEAN,
         Settings!Write(g, f, v), phase' \in {phase, "up"}, phase \in {"self", "up"}
  PROVE  SettingsInv'
<1>1. \A s \in Settings!Settings : [s EXCEPT ![f] = v] \in Settings!Settings
  BY DEF Settings!Settings
<1>2. said \in [Settings!Names -> Settings!Settings \cup {NotTold}] /\ said[g] \in Settings!Settings
  BY DEF SettingsInv, Settings!TypeOK
<1>3. /\ said' = [said EXCEPT ![g] = [said[g] EXCEPT ![f] = v]]
      /\ \/ /\ g \in DOMAIN groups
            /\ groups' = [groups EXCEPT ![g] = [groups[g] EXCEPT ![f] = v]]
            /\ refused' = refused \ {<<g, f>>}
         \/ refused' = refused \cup {<<g, f>>} /\ groups' = groups
  BY DEF Settings!Write, Settings!Acceptable
<1>4. /\ said' \in [Settings!Names -> Settings!Settings \cup {NotTold}]
      /\ said'[g] = [said[g] EXCEPT ![f] = v]
      /\ \A h \in Settings!Names : h # g => said'[h] = said[h]
  BY <1>1, <1>2, <1>3
<1>5. /\ DOMAIN groups' = DOMAIN groups
      /\ \A h \in DOMAIN groups : groups'[h] \in Settings!Settings
  BY <1>1, <1>3 DEF SettingsInv, Settings!TypeOK
<1>6. Settings!TypeOK'
  <2>1. phase' # "off" /\ phase' \in {"off", "setup", "self", "up"}
    BY DEF SettingsInv, Settings!TypeOK
  <2>2. refused' \subseteq Settings!Names \X {"cpus", "quota", "frozen"}
    BY <1>3 DEF SettingsInv, Settings!TypeOK
  <2>3. said'[Self] # NotTold
    <3>1. said[Self] # NotTold /\ Self \in Settings!Names
      BY DEF SettingsInv, Settings!TypeOK, Settings!Names
    <3>2. said'[g] # NotTold
      BY <1>1, <1>2, <1>4, PlatformAssumption DEF Settings!SettingsAssumption
    <3> QED
      BY <1>4, <3>1, <3>2
  <2> QED
    BY <1>4, <1>5, <2>1, <2>2, <2>3 DEF SettingsInv, Settings!TypeOK
<1>7. ASSUME Settings!ExactMatches
      PROVE  Settings!InForceUnlessRefused'
  <2> SUFFICES ASSUME NEW h \in Settings!Names, said'[h] # NotTold
               PROVE  /\ h \in DOMAIN groups'
                      /\ \A e \in {"cpus", "quota", "frozen"} :
                           <<h, e>> \notin refused' => groups'[h][e] = said'[h][e]
    BY DEF Settings!InForceUnlessRefused
  <2>1. said[h] # NotTold
    BY <1>4
  <2>2. /\ h \in DOMAIN groups
        /\ \A e \in {"cpus", "quota", "frozen"} :
             <<h, e>> \notin refused => groups[h][e] = said[h][e]
    BY <1>7, <2>1 DEF SettingsInv, Settings!InForceUnlessRefused
  <2>3. h \in DOMAIN groups'
    BY <1>5, <2>2
  <2>4. groups[h] \in Settings!Settings /\ said[h] \in Settings!Settings
    BY <1>2, <2>1, <2>2 DEF SettingsInv, Settings!TypeOK
  <2>5. \A s \in Settings!Settings : \A e \in {"cpus", "quota", "frozen"} :
          [s EXCEPT ![f] = v][e] = IF e = f THEN v ELSE s[e]
    BY DEF Settings!Settings
  <2>6. ASSUME NEW e \in {"cpus", "quota", "frozen"}, <<h, e>> \notin refused'
        PROVE  groups'[h][e] = said'[h][e]
    <3>1. CASE h = g /\ e = f
      <4>1. /\ groups'[g] = [groups[g] EXCEPT ![f] = v]
            /\ g \in DOMAIN groups
        BY <1>3, <2>2, <2>6, <3>1
      <4> QED
        BY <1>4, <2>4, <2>5, <3>1, <4>1
    <3>2. CASE h = g /\ e # f
      <4>1. groups'[h][e] = groups[h][e]
        <5>1. groups'[g] = groups[g] \/ groups'[g] = [groups[g] EXCEPT ![f] = v]
          BY <1>3
        <5> QED
          BY <2>4, <2>5, <3>2, <5>1
      <4>2. said'[h][e] = said[h][e]
        BY <1>4, <2>4, <2>5, <3>2
      <4>3. <<h, e>> \notin refused
        BY <1>3, <2>6, <3>2
      <4> QED
        BY <2>2, <4>1, <4>2, <4>3
    <3>3. CASE h # g
      <4>1. <<h, e>> \notin refused
        BY <1>3, <2>6, <3>3
      <4>2. groups'[h] = groups[h] /\ said'[h] = said[h]
        BY <1>3, <1>4, <2>2, <3>3
      <4> QED
        BY <2>2, <4>1, <4>2
    <3> QED
      BY <3>1, <3>2, <3>3
  <2> QED
    BY <2>3, <2>6
<1>8. Settings!ExactMatches' = Settings!ExactMatches
  BY DEF Settings!ExactMatches
<1> QED
  BY <1>6, <1>7, <1>8 DEF SettingsInv

(* A group is created as the default, and what was said of it is that or   *)
(* nothing: every other group keeps what it has.                           *)
LEMMA GroupCreated ==
  ASSUME SettingsInv, NEW g \in Settings!Names \cup {Main}, NEW to \in {"setup", "self", "up"},
         Settings!Create(g, to), UNCHANGED refused,
         to = "setup" => g = Main,
         to = "self" => g = Self /\ phase = "setup",
         to = "up" => phase = "up",
         IF g = Main THEN UNCHANGED said
                     ELSE said' = [said EXCEPT ![g] = Settings!Default]
  PROVE  SettingsInv'
<1> DEFINE Default == Settings!Default
<1>1. Default \in Settings!Settings /\ Default # NotTold
  BY DefaultType, PlatformAssumption DEF Settings!SettingsAssumption
<1>2. /\ DOMAIN groups' = DOMAIN groups \cup {g}
      /\ groups'[g] = Default
      /\ \A h \in DOMAIN groups : h # g => groups'[h] = groups[h]
      /\ \A h \in DOMAIN groups' : groups'[h] \in Settings!Settings
      /\ DOMAIN groups' \subseteq Settings!Names \cup {Main}
  BY <1>1, GroupMade DEF Settings!Create, SettingsInv, Settings!Names
<1>3. Main \notin Settings!Names
  BY PlatformAssumption DEF Settings!SettingsAssumption
<1> HIDE DEF Default
<1>4. /\ said' \in [Settings!Names -> Settings!Settings \cup {NotTold}]
      /\ \A h \in Settings!Names : said'[h] = IF h = g THEN Default ELSE said[h]
  BY <1>1, <1>3 DEF SettingsInv, Settings!TypeOK, Default
<1>5. phase' = to
  BY DEF Settings!Create
<1>6. Self \in Settings!Names
  BY DEF Settings!Names
<1>7. Settings!TypeOK'
  <2>1. Main \in DOMAIN groups'
    BY <1>2 DEF SettingsInv, Settings!TypeOK
  <2>2. phase' \in {"self", "up"} => said'[Self] # NotTold
    BY <1>1, <1>4, <1>5, <1>6 DEF SettingsInv, Settings!TypeOK
  <2> QED
    BY <1>2, <1>4, <1>5, <2>1, <2>2 DEF SettingsInv, Settings!TypeOK
<1>8. Settings!ExactMatches => Settings!InForceUnlessRefused'
  BY <1>2, <1>4 DEF SettingsInv, Settings!TypeOK, Settings!InForceUnlessRefused
<1>9. Settings!ExactMatches' = Settings!ExactMatches
  BY DEF Settings!ExactMatches
<1> QED
  BY <1>7, <1>8, <1>9 DEF SettingsInv

(* A group that could not be created, with whatever was made of it.        *)
LEMMA GroupNotCreated ==
  ASSUME SettingsInv, NEW g \in Settings!Names \cup {Main}, Settings!CreateFails(g)
  PROVE  SettingsInv'
<1>1. /\ DOMAIN groups \subseteq Settings!Names \cup {Main}
      /\ \A h \in DOMAIN groups : groups[h] \in Settings!Settings
  BY DEF SettingsInv, Settings!TypeOK
<1>2. \A s \in Settings!Settings : groups' = Settings!With(g, s) =>
        /\ DOMAIN groups' \subseteq Settings!Names \cup {Main}
        /\ \A h \in DOMAIN groups' : groups'[h] \in Settings!Settings
  BY GroupMade DEF SettingsInv, Settings!Names
<1>3. /\ DOMAIN groups' \subseteq Settings!Names \cup {Main}
      /\ \A h \in DOMAIN groups' : groups'[h] \in Settings!Settings
  <2>1. \/ groups' = groups
        \/ groups' = Settings!With(g, Settings!Default)
        \/ groups' = Settings!With(g, IF g \in DOMAIN groups THEN groups[g] ELSE Settings!Blank)
    BY DEF Settings!CreateFails
  <2>2. Settings!Default \in Settings!Settings
    BY DefaultType
  <2>3. (IF g \in DOMAIN groups THEN groups[g] ELSE Settings!Blank) \in Settings!Settings
    BY <1>1, DefaultType
  <2> QED
    BY <1>1, <1>2, <2>1, <2>2, <2>3
<1> QED
  BY <1>3, ControllerExits DEF Settings!CreateFails

(* An application leaves: its group and those of grep's other hits are     *)
(* gone or stay, and nothing is said of it any more.                       *)
LEMMA GroupRemoved ==
  ASSUME SettingsInv, NEW p \in Apps, phase = "up",
         NEW gone \in SUBSET ({p} \cup GrepHits[p]), groups' = Settings!Without(gone),
         said' = [said EXCEPT ![p] = NotTold],
         refused' = {r \in refused : r[1] # p},
         UNCHANGED phase
  PROVE  SettingsInv'
<1>1. /\ p \in Settings!Names /\ Self \in Settings!Names /\ Main \notin Settings!Names
      /\ p # Self
      /\ gone \subseteq Settings!Names
  BY PlatformAssumption DEF Settings!SettingsAssumption, Settings!Names
<1>2. /\ DOMAIN groups' = DOMAIN groups \ gone
      /\ \A h \in DOMAIN groups' : groups'[h] = groups[h]
  BY DEF Settings!Without
<1>3. /\ said' \in [Settings!Names -> Settings!Settings \cup {NotTold}]
      /\ \A h \in Settings!Names : said'[h] = IF h = p THEN NotTold ELSE said[h]
  BY <1>1 DEF SettingsInv, Settings!TypeOK
<1>4. Settings!TypeOK'
  BY <1>1, <1>2, <1>3 DEF SettingsInv, Settings!TypeOK
<1>5. \A h \in Settings!Names, f \in {"cpus", "quota", "frozen"} :
        h # p /\ <<h, f>> \in refused => <<h, f>> \in refused'
  OBVIOUS
<1>6. ASSUME Settings!ExactMatches
      PROVE  Settings!InForceUnlessRefused'
  <2>1. gone \subseteq {p}
    BY <1>6 DEF Settings!ExactMatches
  <2> QED
    BY <1>2, <1>3, <1>5, <1>6, <2>1 DEF SettingsInv, Settings!InForceUnlessRefused
<1>7. Settings!ExactMatches' = Settings!ExactMatches
  BY DEF Settings!ExactMatches
<1> QED
  BY <1>4, <1>6, <1>7 DEF SettingsInv

(* A step at which the controller goes and leaves the groups as they are.  *)
LEMMA ControllerLeaves ==
  ASSUME SettingsInv, Settings!Exit,
         \E S : groups' = Settings!Without(S) \/ groups' = groups
  PROVE  SettingsInv'
<1>1. /\ DOMAIN groups' \subseteq DOMAIN groups
      /\ \A h \in DOMAIN groups' : groups'[h] = groups[h]
  BY DEF Settings!Without
<1> QED
  BY <1>1, ControllerExits DEF SettingsInv, Settings!TypeOK

(* Every step keeps the types and what is in force.                        *)
LEMMA SettingsNext ==
  ASSUME SettingsInv, Settings!Next
  PROVE  SettingsInv'
<1>1. CASE Settings!ControllerDies
  BY <1>1, ControllerLeaves DEF Settings!ControllerDies
<1>2. CASE Settings!Setup
  <2>1. CASE Settings!Create(Main, "setup") /\ UNCHANGED <<said, refused>>
    BY <2>1, GroupCreated
  <2>2. CASE Settings!CreateFails(Main)
    BY <2>2, GroupNotCreated
  <2> QED
    BY <1>2, <2>1, <2>2 DEF Settings!Setup
<1>3. CASE Settings!InitializeSelf
  <2>1. Self \in Settings!Names /\ Self # Main
    BY PlatformAssumption DEF Settings!SettingsAssumption, Settings!Names
  <2>2. CASE Settings!Create(Self, "self") /\ Settings!Told(Self, Settings!Default)
    BY <1>3, <2>1, <2>2, GroupCreated DEF Settings!InitializeSelf, Settings!Told
  <2>3. CASE Settings!CreateFails(Self)
    BY <2>1, <2>3, GroupNotCreated
  <2> QED
    BY <1>3, <2>2, <2>3 DEF Settings!InitializeSelf
<1>4. CASE Settings!UpdateSelf
  <2>1. CASE Settings!Exit /\ UNCHANGED groups
    BY <2>1, ControllerLeaves
  <2>2. CASE Settings!Write(Self, "cpus", {0}) /\ phase' = "up"
    <3>1. {0} \in Settings!CpuSets
      BY PlatformAssumption DEF Settings!SettingsAssumption, Settings!CpuSets
    <3>2. Self \in Settings!Names /\ said[Self] # NotTold /\ phase = "self"
      BY <1>4 DEF Settings!UpdateSelf, Settings!Names, SettingsInv, Settings!TypeOK
    <3> QED
      BY <2>2, <3>1, <3>2, SettingWritten
  <2> QED
    BY <1>4, <2>1, <2>2 DEF Settings!UpdateSelf, Settings!CallUpdateCpuSet
<1>5. CASE Settings!Destroy
  BY <1>5, ControllerLeaves DEF Settings!Destroy
<1>6. ASSUME NEW p \in Apps, Settings!Initialize(p)
      PROVE  SettingsInv'
  <2>1. p \in Settings!Names /\ p # Main
    BY PlatformAssumption DEF Settings!SettingsAssumption, Settings!Names
  <2>2. CASE Settings!Create(p, "up") /\ Settings!Told(p, Settings!Default)
    BY <1>6, <2>1, <2>2, GroupCreated DEF Settings!Initialize, Settings!Told
  <2>3. CASE Settings!CreateFails(p)
    BY <2>1, <2>3, GroupNotCreated
  <2> QED
    BY <1>6, <2>2, <2>3 DEF Settings!Initialize
<1>7. ASSUME NEW p \in Apps, Settings!Remove(p)
      PROVE  SettingsInv'
  <2>1. PICK gone \in SUBSET ({p} \cup GrepHits[p]) : groups' = Settings!Without(gone)
    BY <1>7 DEF Settings!Remove
  <2>2. CASE Settings!Exit
    BY <2>1, <2>2, ControllerLeaves
  <2>3. CASE ~Settings!Exit
    BY <1>7, <2>1, <2>3, GroupRemoved DEF Settings!Remove
  <2> QED
    BY <2>2, <2>3
<1>8. ASSUME NEW p \in Apps, NEW cores \in Settings!CpuSets, Settings!UpdateCpuSet(p, cores)
      PROVE  SettingsInv'
  <2>1. CASE Settings!Exit /\ UNCHANGED groups
    BY <2>1, ControllerLeaves
  <2>2. CASE Settings!Write(p, "cpus", cores) /\ phase' = "up"
    BY <1>8, <2>2, SettingWritten DEF Settings!UpdateCpuSet, Settings!Names
  <2> QED
    BY <1>8, <2>1, <2>2 DEF Settings!UpdateCpuSet, Settings!CallUpdateCpuSet
<1>9. ASSUME NEW p \in Apps, NEW q \in Quotas, Settings!UpdateCpuQuota(p, q)
      PROVE  SettingsInv'
  <2>1. CASE Settings!Exit /\ UNCHANGED groups
    BY <2>1, ControllerLeaves
  <2>2. CASE Settings!Write(p, "quota", Settings!cfs_quota_us(q)) /\ UNCHANGED phase
    <3>1. Settings!cfs_quota_us(q) \in Int
      BY PlatformAssumption DEF Settings!SettingsAssumption, Settings!cfs_quota_us
    <3> QED
      BY <1>9, <2>2, <3>1, SettingWritten DEF Settings!UpdateCpuQuota, Settings!Names
  <2> QED
    BY <1>9, <2>1, <2>2 DEF Settings!UpdateCpuQuota
<1>10. ASSUME NEW p \in Apps, NEW freeze \in BOOLEAN, Settings!UpdateCpuFreezer(p, freeze)
       PROVE  SettingsInv'
  BY <1>10, SettingWritten DEF Settings!UpdateCpuFreezer, Settings!Names
<1> QED
  BY <1>1, <1>2, <1>3, <1>4, <1>5, <1>6, <1>7, <1>8, <1>9, <1>10 DEF Settings!Next

LEMMA SettingsInit ==
  ASSUME Settings!Init
  PROVE  SettingsInv
BY DEF Settings!Init, SettingsInv, Settings!TypeOK, Settings!InForceUnlessRefused

LEMMA SettingsStutter ==
  ASSUME SettingsInv, UNCHANGED settings
  PROVE  SettingsInv'
BY DEF SettingsInv, Settings!TypeOK, Settings!InForceUnlessRefused, settings

-----------------------------------------------------------------------------
(* Frequency.                                                              *)

(* The loop through a table stops, at an index that is the last or has a   *)
(* frequency above the given one, after frequencies that have not.         *)
LEMMA LoopStops ==
  ASSUME NEW freqs, NEW n \in Nat \ {0}, \A i \in 1 .. n : freqs[i] \in Int, NEW f \in Int
  PROVE  \E i \in 1 .. n : /\ i = n \/ f < freqs[i]
                           /\ \A j \in 1 .. i - 1 : f >= freqs[j]
<1> SUFFICES ASSUME \A i \in 1 .. n : ~ /\ i = n \/ f < freqs[i]
                                        /\ \A j \in 1 .. i - 1 : f >= freqs[j]
             PROVE  FALSE
  OBVIOUS
<1> DEFINE S == {k \in Nat : \A j \in 1 .. k : f >= freqs[j]}
           last == n - 1
<1>1. 0 \in S /\ last \in Nat
  OBVIOUS
<1>2. ASSUME NEW k \in 0 .. last - 1, k \in S
      PROVE  k + 1 \in S
  <2>1. k + 1 \in 1 .. n /\ (k + 1) - 1 = k
    OBVIOUS
  <2>2. ~(f < freqs[k + 1])
    BY <1>2, <2>1
  <2> QED
    BY <1>2, <2>1, <2>2
<1>3. 0 .. last \subseteq S
  <2> HIDE DEF S, last
  <2> QED
    BY <1>1, <1>2, BoundedInduction
<1>4. \A j \in 1 .. n - 1 : f >= freqs[j]
  BY <1>1, <1>3
<1> QED
  BY <1>4

(* Where the loop stops, a table that rises has the least frequency above. *)
LEMMA StopsAtLeast ==
  ASSUME NEW freqs, NEW n \in Nat \ {0}, \A i \in 1 .. n : freqs[i] \in Int,
         \A i, j \in 1 .. n : i < j => freqs[i] < freqs[j],
         NEW f \in Int, NEW i \in 1 .. n, i = n \/ f < freqs[i],
         \A j \in 1 .. i - 1 : f >= freqs[j]
  PROVE  \/ /\ \A j \in 1 .. n : freqs[j] <= f
            /\ \A j \in 1 .. n : freqs[j] <= freqs[i]
         \/ /\ f < freqs[i]
            /\ \A j \in 1 .. n : freqs[j] > f => freqs[i] <= freqs[j]
<1>1. \A j \in 1 .. n : j < i \/ j = i \/ i < j
  OBVIOUS
<1>2. \A j \in 1 .. n : j < i => freqs[j] <= f
  OBVIOUS
<1>3. CASE f < freqs[i]
  BY <1>1, <1>2, <1>3
<1>4. CASE i = n /\ freqs[n] <= f
  BY <1>1, <1>2, <1>4
<1> QED
  BY <1>3, <1>4

(* The tables rise.                                                        *)
LEMMA CpuTable ==
  /\ DOMAIN Cpu!cpuFreqs = 1 .. 15 /\ Len(Cpu!cpuFreqs) = 15
  /\ \A i \in 1 .. 15 : Cpu!cpuFreqs[i] \in Nat
  /\ \A i, j \in 1 .. 15 : i < j => Cpu!cpuFreqs[i] < Cpu!cpuFreqs[j]
BY SMTT(30) DEF Cpu!cpuFreqs

LEMMA GpuTable ==
  /\ DOMAIN Gpu!gpuFreqs = 1 .. 12 /\ Len(Gpu!gpuFreqs) = 12
  /\ \A i \in 1 .. 12 : Gpu!gpuFreqs[i] \in Nat
  /\ \A i, j \in 1 .. 12 : i < j => Gpu!gpuFreqs[i] < Gpu!gpuFreqs[j]
BY SMTT(30) DEF Gpu!gpuFreqs

(* getNextCpuFreq returns the least frequency above, or the highest.       *)
LEMMA CpuNextIsLeast ==
  ASSUME NEW f \in Int
  PROVE  /\ Cpu!getNextCpuFreq(f) \in Cpu!Table(Cpu!cpuFreqs)
         /\ Cpu!LeastAbove(Cpu!cpuFreqs, f, Cpu!getNextCpuFreq(f))
<1> DEFINE freqs == Cpu!cpuFreqs
           Stops(i) == /\ i = 15 \/ f < freqs[i]
                       /\ \A j \in 1 .. i - 1 : f >= freqs[j]
           stop == CHOOSE i \in 1 .. 15 : Stops(i)
<1>1. \E i \in 1 .. 15 : Stops(i)
  BY LoopStops, CpuTable
<1>2. stop \in 1 .. 15 /\ Stops(stop)
  BY <1>1
<1>3. Cpu!getNextCpuFreq(f) = freqs[stop]
  BY CpuTable DEF Cpu!getNextCpuFreq, Cpu!getNext
<1> HIDE DEF stop
<1>4. \/ /\ \A j \in 1 .. 15 : freqs[j] <= f
         /\ \A j \in 1 .. 15 : freqs[j] <= freqs[stop]
      \/ /\ f < freqs[stop]
         /\ \A j \in 1 .. 15 : freqs[j] > f => freqs[stop] <= freqs[j]
  BY <1>2, StopsAtLeast, CpuTable
<1>5. Cpu!Table(freqs) = {freqs[j] : j \in 1 .. 15}
  BY CpuTable DEF Cpu!Table
<1> HIDE DEF freqs
<1> QED
  BY <1>2, <1>3, <1>4, <1>5, CpuTable DEF Cpu!LeastAbove, freqs

(* getNextGpuFreq returns the least frequency above, or the highest.       *)
LEMMA GpuNextIsLeast ==
  ASSUME NEW f \in Int
  PROVE  Gpu!LeastAbove(Gpu!gpuFreqs, f, Gpu!getNextGpuFreq(f))
<1> DEFINE freqs == Gpu!gpuFreqs
           Stops(i) == /\ i = 12 \/ f < freqs[i]
                       /\ \A j \in 1 .. i - 1 : f >= freqs[j]
           stop == CHOOSE i \in 1 .. 12 : Stops(i)
<1>1. \E i \in 1 .. 12 : Stops(i)
  BY LoopStops, GpuTable
<1>2. stop \in 1 .. 12 /\ Stops(stop)
  BY <1>1
<1>3. Gpu!getNextGpuFreq(f) = freqs[stop]
  BY GpuTable DEF Gpu!getNextGpuFreq, Gpu!getNext
<1> HIDE DEF stop
<1>4. \/ /\ \A j \in 1 .. 12 : freqs[j] <= f
         /\ \A j \in 1 .. 12 : freqs[j] <= freqs[stop]
      \/ /\ f < freqs[stop]
         /\ \A j \in 1 .. 12 : freqs[j] > f => freqs[stop] <= freqs[j]
  BY <1>2, StopsAtLeast, GpuTable
<1>5. Gpu!Table(freqs) = {freqs[j] : j \in 1 .. 12}
  BY GpuTable DEF Gpu!Table
<1> HIDE DEF freqs
<1> QED
  BY <1>2, <1>3, <1>4, <1>5, GpuTable DEF Gpu!LeastAbove, freqs

-----------------------------------------------------------------------------
(* CpuFrequency.                                                           *)

CpuInv == Cpu!TypeOK /\ Cpu!CpusTogether

LEMMA CpuInit ==
  ASSUME Cpu!Init
  PROVE  CpuInv
<1>1. Cpu!getMinCpuFreq = Cpu!cpuFreqs[1] /\ Cpu!getMaxCpuFreq = Cpu!cpuFreqs[15]
  BY SMTT(30) DEF Cpu!cpuFreqs, Cpu!getMinCpuFreq, Cpu!getMaxCpuFreq
<1>2. /\ Cpu!getMinCpuFreq \in Cpu!Table(Cpu!cpuFreqs)
      /\ Cpu!getMaxCpuFreq \in Cpu!Table(Cpu!cpuFreqs)
  BY <1>1, CpuTable DEF Cpu!Table
<1>3. speed \in [Domains -> Cpu!Table(Cpu!cpuFreqs)]
  BY DEF Cpu!Init
<1>4. cpuAsked \in Cpu!Table(Cpu!cpuFreqs)
  BY <1>2 DEF Cpu!Init
<1>5. /\ governor \in [Domains -> BOOLEAN]
      /\ cpuResult = FALSE /\ running = TRUE
  BY DEF Cpu!Init
<1> QED
  BY <1>3, <1>4, <1>5 DEF CpuInv, Cpu!TypeOK, Cpu!CpusTogether

(* The call succeeds when all four writes were made, and only then.        *)
LEMMA CpuSet ==
  ASSUME CpuInv, NEW f \in Cpu!Table(Cpu!cpuFreqs), Cpu!SetCpuFreq(f)
  PROVE  /\ CpuInv'
         /\ \A d \in Domains : speed'[d] \in {speed[d], f}
<1>1. /\ Cpu!Userspace \in [Domains -> BOOLEAN]
      /\ \A n \in 0 .. 4 : /\ Cpu!Written(n, f) \in [Domains -> Cpu!Table(Cpu!cpuFreqs)]
                           /\ \A d \in Domains : Cpu!Written(n, f)[d] \in {speed[d], f}
  BY DEF CpuInv, Cpu!TypeOK, Cpu!Userspace, Cpu!Written
<1>2. \A c \in Cpu!CPUs : DomainOf[c] \in Domains /\ Cpu!Written(4, f)[DomainOf[c]] = f
  BY PlatformAssumption DEF Cpu!DomainAssumption, Cpu!Written, Cpu!CPUs
<1>3. CASE cpuResult' = FALSE /\ UNCHANGED <<governor, speed>>
  BY <1>3 DEF Cpu!SetCpuFreq, CpuInv, Cpu!TypeOK, Cpu!CpusTogether
<1>4. ASSUME NEW n \in 0 .. 4, governor' = Cpu!Userspace, speed' = Cpu!Written(n, f),
             cpuResult' = (n = 4)
      PROVE  CpuInv' /\ \A d \in Domains : speed'[d] \in {speed[d], f}
  <2>1. Cpu!TypeOK'
    BY <1>1, <1>4 DEF Cpu!SetCpuFreq, CpuInv, Cpu!TypeOK
  <2>2. Cpu!CpusTogether'
    BY <1>2, <1>4 DEF Cpu!SetCpuFreq, Cpu!CpusTogether
  <2> QED
    BY <1>1, <1>4, <2>1, <2>2 DEF CpuInv
<1> QED
  BY <1>3, <1>4 DEF Cpu!SetCpuFreq, CpuInv

LEMMA CpuNext ==
  ASSUME CpuInv, Cpu!Next
  PROVE  CpuInv'
<1>1. DomainOf[0] \in Domains
  BY PlatformAssumption DEF Cpu!DomainAssumption, Cpu!CPUs
<1>2. ASSUME Cpu!Raise
      PROVE  CpuInv'
  <2>1. ASSUME NEW j \in Jitter, Cpu!SetCpuFreq(Cpu!NextRead(speed[DomainOf[0]] + j))
        PROVE  CpuInv'
    <3>1. speed[DomainOf[0]] \in Cpu!Table(Cpu!cpuFreqs) /\ j \in Int
      BY <1>1, PlatformAssumption DEF Cpu!DomainAssumption, CpuInv, Cpu!TypeOK
    <3>2. speed[DomainOf[0]] + j \in Int
      BY <3>1, CpuTable DEF Cpu!Table
    <3>3. Cpu!NextRead(speed[DomainOf[0]] + j) \in Cpu!Table(Cpu!cpuFreqs)
      BY <3>2, CpuNextIsLeast DEF Cpu!NextRead
    <3> QED
      BY <2>1, <3>3, CpuSet
  <2>2. CASE running' = FALSE /\ UNCHANGED <<governor, speed, cpuAsked, cpuResult>>
    BY <2>2 DEF CpuInv, Cpu!TypeOK, Cpu!CpusTogether
  <2> QED
    BY <1>2, <2>1, <2>2 DEF Cpu!Raise
<1>3. ASSUME NEW f \in Cpu!Table(Cpu!cpuFreqs), Cpu!Set(f)
      PROVE  CpuInv'
  BY <1>3, CpuSet DEF Cpu!Set
<1> QED
  BY <1>2, <1>3 DEF Cpu!Next

LEMMA CpuStutter ==
  ASSUME CpuInv, UNCHANGED cpuFrequency
  PROVE  CpuInv'
BY DEF CpuInv, Cpu!TypeOK, Cpu!CpusTogether, cpuFrequency

(* Whatever can be read has its next frequency found.                      *)
LEMMA CpuNextFound ==
  ASSUME CpuInv
  PROVE  Cpu!NextIsLeastAbove
<1> SUFFICES ASSUME NEW d \in Domains, NEW j \in Jitter
             PROVE  Cpu!LeastAbove(Cpu!cpuFreqs, speed[d] + j, Cpu!getNextCpuFreq(speed[d] + j))
  BY DEF Cpu!NextIsLeastAbove
<1>1. speed[d] + j \in Int
  BY PlatformAssumption, CpuTable DEF Cpu!DomainAssumption, CpuInv, Cpu!TypeOK, Cpu!Table
<1> QED
  BY <1>1, CpuNextIsLeast

(* Neighbours in the table are at least 51000 kHz apart, and a reading may *)
(* be that much too low without a lower frequency being taken for the next.*)
LEMMA RaiseIsUp ==
  ASSUME CpuInv, \A j \in Jitter : j >= -51000, Cpu!Raise
  PROVE  ~(speed'[DomainOf[0]] < speed[DomainOf[0]])
<1> DEFINE s == speed[DomainOf[0]]
<1>1. DomainOf[0] \in Domains /\ s \in Cpu!Table(Cpu!cpuFreqs)
  BY PlatformAssumption DEF Cpu!DomainAssumption, Cpu!CPUs, CpuInv, Cpu!TypeOK
<1>2. PICK k \in 1 .. 15 : s = Cpu!cpuFreqs[k]
  BY <1>1, CpuTable DEF Cpu!Table
<1>3. s \in Nat
  BY <1>2, CpuTable
<1>4. CASE UNCHANGED speed
  BY <1>3, <1>4
<1>5. ASSUME NEW j \in Jitter, Cpu!SetCpuFreq(Cpu!NextRead(s + j))
      PROVE  ~(speed'[DomainOf[0]] < s)
  <2> DEFINE g == Cpu!getNextCpuFreq(s + j)
  <2>1. j \in Int /\ j >= -51000
    BY PlatformAssumption DEF Cpu!DomainAssumption
  <2>2. g \in Cpu!Table(Cpu!cpuFreqs) /\ Cpu!LeastAbove(Cpu!cpuFreqs, s + j, g)
    BY <1>3, <2>1, CpuNextIsLeast
  <2> HIDE DEF s, g
  <2>3. PICK i \in 1 .. 15 : g = Cpu!cpuFreqs[i]
    BY <2>2, CpuTable DEF Cpu!Table
  <2>4. s <= g \/ s + j < g
    BY <1>1, <2>2 DEF Cpu!LeastAbove, s
  <2>5. \A a, b \in 1 .. 15 : a < b => Cpu!cpuFreqs[a] + 51000 <= Cpu!cpuFreqs[b]
    BY SMTT(30) DEF Cpu!cpuFreqs
  <2>6. s <= g
    <3>1. i < k \/ i = k \/ k < i
      OBVIOUS
    <3>2. g \in Nat
      BY <2>3, CpuTable
    <3>3. i < k => g + 51000 <= s
      BY <1>2, <2>3, <2>5
    <3>4. k < i => s + 51000 <= g
      BY <1>2, <2>3, <2>5
    <3>5. i = k => s = g
      BY <1>2, <2>3
    <3> QED
      BY <1>3, <2>1, <2>4, <3>1, <3>2, <3>3, <3>4, <3>5
  <2>7. speed'[DomainOf[0]] \in {s, g}
    BY <1>1, <1>5, <2>2, CpuSet DEF Cpu!NextRead, s, g
  <2>8. g \in Nat
    BY <2>3, CpuTable
  <2> QED
    BY <1>3, <2>6, <2>7, <2>8
<1> QED
  BY <1>4, <1>5 DEF Cpu!Raise

-----------------------------------------------------------------------------
(* GpuFrequency.                                                           *)

(* The GPU after each of the three writes.                                 *)
LEMMA GpuAfter ==
  ASSUME gpu \in Gpu!GpuRanges, NEW f, NEW n \in 0 .. 3
  PROVE  LET g == Gpu!AfterWrites(n, f)
         IN  /\ g = [min |-> g.min, max |-> g.max, powered |-> TRUE]
             /\ g.min = IF n = 0 THEN gpu.min ELSE IF n < 3 THEN Gpu!getMinGpuFreq ELSE f
             /\ g.max = IF n < 2 THEN gpu.max ELSE f
<1> DEFINE lowest == Gpu!getMinGpuFreq
           w == Gpu!GpuWrites(f)
           Step(h, k) == IF k = 0 THEN [gpu EXCEPT !.powered = TRUE]
                         ELSE [h[k - 1] EXCEPT ![w[k][1]] = w[k][2]]
           Bounds(lo, hi) == [x \in {"min", "max", "powered"} |->
                               IF x = "min" THEN lo ELSE IF x = "max" THEN hi ELSE TRUE]
           a == [k \in 0 .. n |->
                   Bounds(IF k = 0 THEN gpu.min ELSE IF k < 3 THEN lowest ELSE f,
                          IF k < 2 THEN gpu.max ELSE f)]
           after == CHOOSE h : h = [k \in 0 .. n |-> Step(h, k)]
<1>1. /\ w[1] = <<"min", lowest>>
      /\ w[2] = <<"max", f>>
      /\ w[3] = <<"min", f>>
  BY DEF Gpu!GpuWrites
<1>2. gpu = [x \in {"min", "max", "powered"} |-> gpu[x]]
  BY DEF Gpu!GpuRanges
<1>3. /\ [Bounds(gpu.min, gpu.max) EXCEPT !["min"] = lowest] = Bounds(lowest, gpu.max)
      /\ [Bounds(lowest, gpu.max) EXCEPT !["max"] = f] = Bounds(lowest, f)
      /\ [Bounds(lowest, f) EXCEPT !["min"] = f] = Bounds(f, f)
  <2>1. \A lo, hi, v : [Bounds(lo, hi) EXCEPT !["min"] = v] = Bounds(v, hi)
    OBVIOUS
  <2>2. \A lo, hi, v : [Bounds(lo, hi) EXCEPT !["max"] = v] = Bounds(lo, v)
    OBVIOUS
  <2> HIDE DEF Bounds
  <2> QED
    BY <2>1, <2>2
<1>4. [gpu EXCEPT !.powered = TRUE] = Bounds(gpu.min, gpu.max)
  BY <1>2
<1>5. Gpu!AfterWrites(n, f) = after[n]
  BY DEF Gpu!AfterWrites
<1> HIDE DEF w, Bounds
<1>6. ASSUME NEW h, h = [k \in 0 .. n |-> Step(h, k)]
      PROVE  h = a
  <2> DEFINE Write(k) == [h[k - 1] EXCEPT ![w[k][1]] = w[k][2]]
  <2>10. /\ Step(h, 0) = [gpu EXCEPT !.powered = TRUE]
         /\ \A k \in 1 .. 3 : Step(h, k) = Write(k)
    OBVIOUS
  <2> HIDE DEF Step, Write
  <2>1. /\ \A k \in 0 .. n : h[k] = Step(h, k)
        /\ h = [k \in 0 .. n |-> h[k]]
    BY <1>6
  <2>2. h[0] = Bounds(gpu.min, gpu.max)
    BY <1>4, <2>1, <2>10
  <2>8. \A k \in 1 .. 3 : k <= n => h[k] = Write(k)
    BY <2>1, <2>10
  <2>9. /\ Write(1) = [h[0] EXCEPT !["min"] = lowest]
        /\ Write(2) = [h[1] EXCEPT !["max"] = f]
        /\ Write(3) = [h[2] EXCEPT !["min"] = f]
    BY <1>1 DEF Write
  <2>3. n >= 1 => h[1] = Bounds(lowest, gpu.max)
    BY <1>3, <2>2, <2>8, <2>9
  <2>4. n >= 2 => h[2] = Bounds(lowest, f)
    BY <1>3, <2>3, <2>8, <2>9
  <2>5. n >= 3 => h[3] = Bounds(f, f)
    BY <1>3, <2>4, <2>8, <2>9
  <2>6. \A k \in 0 .. n : h[k] = a[k]
    BY <2>2, <2>3, <2>4, <2>5
  <2>7. a = [k \in 0 .. n |-> a[k]]
    OBVIOUS
  <2> HIDE DEF a
  <2> QED
    BY <2>1, <2>6, <2>7
<1>7. a = [k \in 0 .. n |-> Step(a, k)]
  <2>1. /\ a[0] = Bounds(gpu.min, gpu.max)
        /\ n >= 1 => a[1] = Bounds(lowest, gpu.max)
        /\ n >= 2 => a[2] = Bounds(lowest, f)
        /\ n >= 3 => a[3] = Bounds(f, f)
        /\ a = [k \in 0 .. n |-> a[k]]
    OBVIOUS
  <2> HIDE DEF a
  <2>2. a[0] = Step(a, 0)
    BY <1>4, <2>1
  <2>3. ASSUME n >= 1 PROVE a[1] = Step(a, 1)
    <3>1. Step(a, 1) = [a[0] EXCEPT !["min"] = lowest]
      BY <1>1
    <3> HIDE DEF Step
    <3>2. a[0] = Bounds(gpu.min, gpu.max) /\ a[1] = Bounds(lowest, gpu.max)
      BY <2>1, <2>3
    <3> QED
      BY <1>3, <3>1, <3>2, Zenon
  <2>4. ASSUME n >= 2 PROVE a[2] = Step(a, 2)
    <3>1. Step(a, 2) = [a[1] EXCEPT !["max"] = f]
      BY <1>1
    <3> HIDE DEF Step
    <3>2. a[1] = Bounds(lowest, gpu.max) /\ a[2] = Bounds(lowest, f)
      BY <2>1, <2>4
    <3> QED
      BY <1>3, <3>1, <3>2, Zenon
  <2>5. ASSUME n >= 3 PROVE a[3] = Step(a, 3)
    <3>1. Step(a, 3) = [a[2] EXCEPT !["min"] = f]
      BY <1>1
    <3> HIDE DEF Step
    <3>2. a[2] = Bounds(lowest, f) /\ a[3] = Bounds(f, f)
      BY <2>1, <2>5
    <3> QED
      BY <1>3, <3>1, <3>2, Zenon
  <2> HIDE DEF Step
  <2>6. \A k \in 0 .. n : a[k] = Step(a, k)
    <3>1. \A k \in 0 .. n : k = 0 \/ k = 1 \/ k = 2 \/ k = 3
      OBVIOUS
    <3> QED
      BY <2>2, <2>3, <2>4, <2>5, <3>1
  <2> QED
    BY <2>1, <2>6
<1>8. after = a
  BY <1>6, <1>7
<1>9. Gpu!AfterWrites(n, f) = a[n]
  BY <1>5, <1>8
<1> DEFINE lo == IF n = 0 THEN gpu.min ELSE IF n < 3 THEN lowest ELSE f
           hi == IF n < 2 THEN gpu.max ELSE f
<1>10. Gpu!AfterWrites(n, f) = Bounds(lo, hi)
  BY <1>9
<1> HIDE DEF lo, hi
<1>11. Bounds(lo, hi).min = lo /\ Bounds(lo, hi).max = hi
  BY DEF Bounds
<1>12. Bounds(lo, hi) = [min |-> lo, max |-> hi, powered |-> TRUE]
  <2> DEFINE r == [min |-> lo, max |-> hi, powered |-> TRUE]
  <2>4. r.min = lo /\ r.max = hi /\ r.powered = TRUE
    OBVIOUS
  <2>5. /\ Bounds(lo, hi)["min"] = lo /\ Bounds(lo, hi)["max"] = hi
        /\ Bounds(lo, hi)["powered"] = TRUE
    BY DEF Bounds
  <2>1. \A x \in {"min", "max", "powered"} : r[x] = Bounds(lo, hi)[x]
    <3> HIDE DEF r
    <3> QED
      BY <2>4, <2>5
  <2>2. /\ r = [x \in {"min", "max", "powered"} |-> r[x]]
        /\ Bounds(lo, hi) = [x \in {"min", "max", "powered"} |-> Bounds(lo, hi)[x]]
    BY DEF Bounds
  <2> HIDE DEF r
  <2>3. r = Bounds(lo, hi)
    BY <2>1, <2>2
  <2> QED
    BY <2>3 DEF r
<1> QED
  <2> DEFINE g == Gpu!AfterWrites(n, f)
  <2>1. g.min = lo /\ g.max = hi
    BY <1>10, <1>11
  <2>2. g = [min |-> g.min, max |-> g.max, powered |-> TRUE]
    BY <1>10, <1>12, <2>1
  <2> HIDE DEF g
  <2>3. /\ g = [min |-> g.min, max |-> g.max, powered |-> TRUE]
        /\ g.min = IF n = 0 THEN gpu.min ELSE IF n < 3 THEN lowest ELSE f
        /\ g.max = IF n < 2 THEN gpu.max ELSE f
    BY <2>1, <2>2 DEF lo, hi
  <2> QED
    BY <2>3 DEF g

(* The lowest frequency is in the table, below every other.                *)
LEMMA GpuLowest ==
  /\ Gpu!Table(Gpu!gpuFreqs) \subseteq Nat
  /\ Gpu!getMinGpuFreq \in Gpu!Table(Gpu!gpuFreqs)
  /\ \A f \in Gpu!Table(Gpu!gpuFreqs) : Gpu!getMinGpuFreq <= f
<1>1. Gpu!gpuFreqs[1] = Gpu!getMinGpuFreq
  BY SMTT(30) DEF Gpu!gpuFreqs, Gpu!getMinGpuFreq
<1>2. \A i \in 1 .. 12 : i = 1 \/ 1 < i
  OBVIOUS
<1> QED
  BY <1>1, <1>2, GpuTable DEF Gpu!Table

LEMMA GpuInit ==
  ASSUME Gpu!Init
  PROVE  Gpu!TypeOK
BY GpuLowest DEF Gpu!Init, Gpu!TypeOK

(* Each write fits the range the ones before it have left.                 *)
LEMMA GpuOrder ==
  ASSUME Gpu!TypeOK
  PROVE  Gpu!OrderAccepted
<1> SUFFICES ASSUME NEW f \in Gpu!Table(Gpu!gpuFreqs), NEW k \in 1 .. 3
             PROVE  Gpu!Fits(Gpu!AfterWrites(k - 1, f), Gpu!GpuWrites(f)[k])
  BY DEF Gpu!OrderAccepted, Gpu!Accepted
<1> DEFINE n == k - 1
           g == Gpu!AfterWrites(n, f)
           w == Gpu!GpuWrites(f)
<1>1. /\ gpu \in Gpu!GpuRanges /\ n \in 0 .. 3
      /\ gpu.max \in Gpu!Table(Gpu!gpuFreqs)
  BY DEF Gpu!TypeOK, Gpu!GpuRanges
<1>2. /\ g.min = IF n = 0 THEN gpu.min ELSE IF n < 3 THEN Gpu!getMinGpuFreq ELSE f
      /\ g.max = IF n < 2 THEN gpu.max ELSE f
  <2> HIDE DEF n
  <2> QED
    BY <1>1, GpuAfter
<1>3. /\ w[1] = <<"min", Gpu!getMinGpuFreq>>
      /\ w[2] = <<"max", f>>
      /\ w[3] = <<"min", f>>
  BY DEF Gpu!GpuWrites
<1> HIDE DEF w, g
<1>8. \A v : /\ Gpu!Fits(g, <<"min", v>>) <=> (v <= g.max)
             /\ Gpu!Fits(g, <<"max", v>>) <=> (v >= g.min)
  BY DEF Gpu!Fits
<1>9. f \in Nat /\ Gpu!getMinGpuFreq \in Nat /\ Gpu!getMinGpuFreq <= f
  BY GpuLowest
<1>4. ASSUME k = 1 PROVE Gpu!Fits(g, w[k])
  <2>1. g.max = gpu.max
    BY <1>2, <1>4
  <2>2. Gpu!getMinGpuFreq <= gpu.max
    BY <1>1, GpuLowest
  <2> QED
    BY <1>3, <1>4, <1>8, <2>1, <2>2
<1>5. ASSUME k = 2 PROVE Gpu!Fits(g, w[k])
  <2>1. g.min = Gpu!getMinGpuFreq
    BY <1>2, <1>5
  <2>2. f >= g.min
    BY <1>9, <2>1
  <2> QED
    BY <1>3, <1>5, <1>8, <2>2
<1>6. ASSUME k = 3 PROVE Gpu!Fits(g, w[k])
  <2>1. g.max = f
    BY <1>2, <1>6
  <2>2. f <= g.max
    BY <1>9, <2>1
  <2> QED
    BY <1>3, <1>6, <1>8, <2>2
<1>7. Gpu!Fits(g, w[k])
  BY <1>4, <1>5, <1>6
<1> QED
  BY <1>7 DEF g, w

(* The range stays in order after any number of the writes, the lower      *)
(* bound where it was or Gpu!getMinGpuFreq until all of them are made.                *)
LEMMA GpuSet ==
  ASSUME Gpu!TypeOK, NEW f \in Gpu!Table(Gpu!gpuFreqs), Gpu!SetGpuFreq(f)
  PROVE  /\ Gpu!TypeOK'
         /\ IF gpuResult' THEN gpu'.min = gpuAsked' /\ gpu'.max = gpuAsked' /\ gpu'.powered
            ELSE gpu'.min \in {gpu.min, Gpu!getMinGpuFreq}
<1>1. CASE gpuResult' = FALSE /\ UNCHANGED gpu
  BY <1>1 DEF Gpu!TypeOK, Gpu!SetGpuFreq
<1>2. ASSUME NEW n \in 0 .. 3, gpu' = Gpu!AfterWrites(n, f), gpuResult' = (n = 3)
      PROVE  /\ Gpu!TypeOK'
             /\ IF gpuResult' THEN gpu'.min = gpuAsked' /\ gpu'.max = gpuAsked' /\ gpu'.powered
                ELSE gpu'.min \in {gpu.min, Gpu!getMinGpuFreq}
  <2> DEFINE lo == gpu'.min
             hi == gpu'.max
  <2>1. /\ gpu' = [min |-> lo, max |-> hi, powered |-> TRUE]
        /\ lo = IF n = 0 THEN gpu.min ELSE IF n < 3 THEN Gpu!getMinGpuFreq ELSE f
        /\ hi = IF n < 2 THEN gpu.max ELSE f
    BY <1>2, GpuAfter DEF Gpu!TypeOK
  <2>2. /\ gpu.min \in Gpu!Table(Gpu!gpuFreqs) /\ gpu.max \in Gpu!Table(Gpu!gpuFreqs)
        /\ gpu.min <= gpu.max
    BY DEF Gpu!TypeOK, Gpu!GpuRanges
  <2> HIDE DEF lo, hi
  <2>3. /\ lo \in Gpu!Table(Gpu!gpuFreqs) /\ hi \in Gpu!Table(Gpu!gpuFreqs)
        /\ lo <= hi
    BY <2>1, <2>2, GpuLowest
  <2>4. gpu' \in Gpu!GpuRanges
    BY <2>1, <2>3 DEF Gpu!GpuRanges
  <2>5. gpuAsked' = f /\ gpuResult' \in BOOLEAN
    BY <1>2 DEF Gpu!SetGpuFreq
  <2>6. Gpu!TypeOK'
    BY <2>3, <2>4, <2>5 DEF Gpu!TypeOK, lo, hi
  <2>7. gpu'.powered
    BY <2>1
  <2>8. CASE n = 3
    <3>1. lo = f /\ hi = f
      BY <2>1, <2>8
    <3> QED
      BY <1>2, <2>5, <2>6, <2>7, <2>8, <3>1 DEF lo, hi
  <2>9. CASE n # 3
    <3>1. lo \in {gpu.min, Gpu!getMinGpuFreq}
      BY <2>1, <2>9
    <3> QED
      BY <1>2, <2>6, <2>9, <3>1 DEF lo
  <2> QED
    BY <2>8, <2>9
<1> QED
  BY <1>1, <1>2 DEF Gpu!SetGpuFreq

LEMMA GpuStutter ==
  ASSUME Gpu!TypeOK, UNCHANGED gpuFrequency
  PROVE  Gpu!TypeOK'
BY DEF Gpu!TypeOK, gpuFrequency

LEMMA GpuNextFound ==
  ASSUME Gpu!TypeOK
  PROVE  Gpu!NextIsLeastAbove
<1>1. gpu.max \in Int
  BY GpuLowest DEF Gpu!TypeOK, Gpu!GpuRanges
<1> QED
  BY <1>1, GpuNextIsLeast DEF Gpu!NextIsLeastAbove

-----------------------------------------------------------------------------
(* Sensors.                                                                *)

(* Unless a reading failed, what was read since the last average are the   *)
(* samples.                                                                *)
PowerInv ==
  /\ Power!TypeOK
  /\ \A s \in SensorNames : Power!Failed \notin since[s] =>
       since[s] = {samples[s][i] : i \in 1 .. Len(samples[s])}

(* The fold of getAvg is the sum over the indices.                         *)
LEMMA FoldIsSum ==
  ASSUME NEW v
  PROVE  Power!FoldSeq(+, 0, v) = SumFunctionOnSet(v, DOMAIN v)
BY DEF Power!FoldSeq, Power!FoldFunction, Power!FoldFunctionOnSet, Power!MapThenFoldSet,
   SumFunctionOnSet, FoldFunctionOnSet, MapThenFoldSet

(* An average has a sum between its count times the least and its count    *)
(* times the greatest sample.                                              *)
LEMMA AverageType ==
  ASSUME NEW v \in Seq(Int)
  PROVE  /\ Power!average(v) \in [sum : Int, n : Nat \ {0}]
         /\ v = <<>> => Power!average(v).sum = 0
         /\ v # <<>> => \E i, m \in 1 .. Len(v) :
              /\ v[i] * Power!average(v).n <= Power!average(v).sum
              /\ Power!average(v).sum <= v[m] * Power!average(v).n
<1> DEFINE n == Len(v)
           S == 1 .. n
           sum == SumFunctionOnSet(v, S)
<1>1. n \in Nat /\ DOMAIN v = S /\ \A i \in S : v[i] \in Int
  OBVIOUS
<1>2. v # <<>> => n \in Nat \ {0}
  OBVIOUS
<1>3. Power!average(v) = IF v = <<>> THEN [sum |-> 0, n |-> 1] ELSE [sum |-> sum, n |-> n]
  BY <1>1, FoldIsSum DEF Power!average
<1>4. IsFiniteSet(S) /\ Cardinality(S) = n
  <2> HIDE DEF n
  <2>1. Cardinality(1 .. n) = IF 1 > n THEN 0 ELSE n - 1 + 1
    BY <1>1, FS_Interval
  <2>2. IsFiniteSet(1 .. n)
    BY <1>1, FS_Interval
  <2> QED
    BY <1>1, <2>1, <2>2
<1>5. sum \in Int
  BY <1>1, <1>4, SumType
<1>6. v # <<>> => \E i, m \in S : \A j \in S : v[i] <= v[j] /\ v[j] <= v[m]
  <2> HIDE DEF n
  <2> QED
    BY <1>1, <1>2, Extremes
<1>7. ASSUME v # <<>>
      PROVE  \E i, m \in S : v[i] * n <= sum /\ sum <= v[m] * n
  <2>1. PICK i \in S, m \in S : \A j \in S : v[i] <= v[j] /\ v[j] <= v[m]
    BY <1>6, <1>7
  <2>2. v[i] \in Int /\ v[m] \in Int
    BY <1>1
  <2>3. v[i] * Cardinality(S) <= sum /\ sum <= v[m] * Cardinality(S)
    <3> HIDE DEF n, S
    <3> QED
      BY <1>1, <1>4, <2>1, <2>2, SumBounds
  <2> QED
    BY <1>4, <2>3
<1> HIDE DEF sum
<1> QED
  BY <1>2, <1>3, <1>5, <1>7

LEMMA PowerInit ==
  ASSUME Power!Init
  PROVE  PowerInv
BY PlatformAssumption DEF Power!SensorsAssumption, Power!Init, PowerInv, Power!TypeOK

(* What can be read is a number; Values and what a failure leaves apart.   *)
LEMMA ReadingsAreInts ==
  /\ Power!readSensor \subseteq Int /\ Values \subseteq Power!readSensor
  /\ {-1, Noise} \subseteq Power!readSensor
BY PlatformAssumption DEF Power!SensorsAssumption, Power!readSensor

LEMMA SamplesAreInts ==
  ASSUME PowerInv, NEW s \in SensorNames
  PROVE  samples[s] \in Seq(Int)
<1>1. samples[s] \in Seq(Power!readSensor)
  BY DEF PowerInv, Power!TypeOK
<1> DEFINE v == samples[s]
<1>2. /\ Len(v) \in Nat
      /\ v = [i \in 1 .. Len(v) |-> v[i]]
      /\ \A i \in 1 .. Len(v) : v[i] \in Power!readSensor
  BY <1>1
<1>3. \A i \in 1 .. Len(v) : v[i] \in Int
  BY <1>2, ReadingsAreInts
<1> HIDE DEF v
<1>4. v \in Seq(Int)
  BY <1>2, <1>3
<1> QED
  BY <1>4 DEF v

LEMMA Sampled ==
  ASSUME PowerInv, Power!sampleSensors
  PROVE  PowerInv'
<1>1. PICK value \in [SensorNames -> Power!readSensor], works \in [SensorNames -> BOOLEAN] :
             /\ \A s \in SensorNames : value[s] \in IF works[s] THEN Values ELSE {-1, Noise}
             /\ samples' = [s \in SensorNames |-> Append(samples[s], value[s])]
             /\ since' = [s \in SensorNames |->
                           since[s] \cup {IF works[s] THEN value[s] ELSE Power!Failed}]
  BY DEF Power!sampleSensors
<1>2. UNCHANGED <<curr, avg>>
  BY DEF Power!sampleSensors
<1>3. \A s \in SensorNames : /\ samples[s] \in Seq(Power!readSensor)
                             /\ since[s] \in SUBSET (Values \cup {Power!Failed})
  BY DEF PowerInv, Power!TypeOK
<1>4. samples' \in [SensorNames -> Seq(Power!readSensor)]
  BY <1>1, <1>3
<1>5. since' \in [SensorNames -> SUBSET (Values \cup {Power!Failed})]
  <2>1. \A s \in SensorNames : since'[s] \in SUBSET (Values \cup {Power!Failed})
    BY <1>1, <1>3
  <2>2. since' = [s \in SensorNames |-> since'[s]]
    BY <1>1
  <2> QED
    BY <2>1, <2>2
<1>6. ASSUME NEW s \in SensorNames, Power!Failed \notin since'[s]
      PROVE  since'[s] = {samples'[s][i] : i \in 1 .. Len(samples'[s])}
  <2> DEFINE v == samples[s]
             x == value[s]
  <2>1. works[s] /\ since'[s] = since[s] \cup {x} /\ Power!Failed \notin since[s]
    BY <1>1, <1>6
  <2>2. samples'[s] = Append(v, x) /\ v \in Seq(Power!readSensor) /\ x \in Power!readSensor
    BY <1>1, <1>3
  <2>3. since[s] = {v[i] : i \in 1 .. Len(v)}
    BY <2>1 DEF PowerInv
  <2> HIDE DEF v, x
  <2>4. {Append(v, x)[i] : i \in 1 .. Len(Append(v, x))} = {v[i] : i \in 1 .. Len(v)} \cup {x}
    BY <2>2
  <2> QED
    BY <2>1, <2>2, <2>3, <2>4
<1> QED
  BY <1>2, <1>4, <1>5, <1>6 DEF PowerInv, Power!TypeOK

LEMMA Averaged ==
  ASSUME PowerInv, NEW s \in SensorNames, Power!getAvg(s)
  PROVE  PowerInv'
<1>1. Power!average(samples[s]) \in [sum : Int, n : Nat \ {0}]
  BY SamplesAreInts, AverageType
<1>2. Power!TypeOK'
  BY <1>1 DEF Power!getAvg, PowerInv, Power!TypeOK
<1>3. \A t \in SensorNames : /\ samples'[t] = IF t = s THEN <<>> ELSE samples[t]
                             /\ since'[t] = IF t = s THEN {} ELSE since[t]
  BY DEF Power!getAvg, PowerInv, Power!TypeOK
<1> QED
  BY <1>2, <1>3 DEF PowerInv

LEMMA PowerNext ==
  ASSUME PowerInv, Power!Next
  PROVE  PowerInv'
<1>1. CASE Power!readSensors
  BY <1>1 DEF Power!readSensors, PowerInv, Power!TypeOK
<1> QED
  BY <1>1, Sampled, Averaged DEF Power!Next

LEMMA PowerStutter ==
  ASSUME PowerInv, UNCHANGED sensors
  PROVE  PowerInv'
BY DEF PowerInv, Power!TypeOK, sensors

(* The action property of AverageOfRecent.                                 *)
LEMMA AverageIsOfRecent ==
  ASSUME PowerInv, NEW s \in SensorNames, Power!getAvg(s), Power!Failed \notin since[s]
  PROVE  IF since[s] = {} THEN avg'[s].sum = 0
         ELSE \E lo, hi \in since[s] :
                lo * avg'[s].n <= avg'[s].sum /\ avg'[s].sum <= hi * avg'[s].n
<1> DEFINE v == samples[s]
<1>1. v \in Seq(Int)
  BY SamplesAreInts
<1>2. since[s] = {v[i] : i \in 1 .. Len(v)}
  BY DEF PowerInv
<1>3. avg'[s] = Power!average(v)
  BY DEF Power!getAvg, PowerInv, Power!TypeOK
<1> HIDE DEF v
<1>4. CASE v = <<>>
  <2>1. since[s] = {}
    BY <1>2, <1>4
  <2> QED
    BY <1>1, <1>3, <1>4, <2>1, AverageType
<1>5. CASE v # <<>>
  <2>1. PICK i \in 1 .. Len(v), m \in 1 .. Len(v) :
               /\ v[i] * avg'[s].n <= avg'[s].sum
               /\ avg'[s].sum <= v[m] * avg'[s].n
    BY <1>1, <1>3, <1>5, AverageType
  <2>2. v[i] \in since[s] /\ v[m] \in since[s]
    BY <1>2
  <2> QED
    BY <2>1, <2>2
<1> QED
  BY <1>4, <1>5

-----------------------------------------------------------------------------
(* Utilization.                                                            *)

(* The lines of a file, one behind the other: f[i] has the first i lines.  *)
Flattened(f, N, lines) ==
  /\ f[1] = lines[1]
  /\ \A i \in 2 .. N : f[i] = f[i - 1] \o lines[i]
  /\ Load!FlattenSeq(lines) = f[N]

LEMMA Lines ==
  ASSUME NEW N \in Nat \ {0}, NEW A, NEW lines \in [1 .. N -> Seq(A)]
  PROVE  \E f \in [1 .. N -> Seq(A)] : Flattened(f, N, lines)
<1> DEFINE Step(f, i) == IF i = 1 THEN lines[i] ELSE f[i - 1] \o lines[i]
           flatten == CHOOSE f : f = [i \in 1 .. N |-> Step(f, i)]
           last == N - 1
           step == [k \in 1 .. last |-> [p \in Seq(A) |-> p \o lines[k + 1]]]
<1>1. Load!FlattenSeq(lines) = flatten[N]
  <2>1. Len(lines) = N /\ N # 0
    OBVIOUS
  <2> QED
    BY <2>1 DEF Load!FlattenSeq
<1>2. last \in Nat /\ lines[1] \in Seq(A) /\ step \in [1 .. last -> [Seq(A) -> Seq(A)]]
  OBVIOUS
<1>3. PICK g \in [0 .. last -> Seq(A)] :
             g[0] = lines[1] /\ \A k \in 1 .. last : g[k] = step[k][g[k - 1]]
  <2> DEFINE B == Seq(A)
             first == lines[1]
  <2>1. last \in Nat /\ first \in B /\ step \in [1 .. last -> [B -> B]]
    BY <1>2
  <2> HIDE DEF last, step, B, first
  <2>2. \E g \in [0 .. last -> B] : Stepwise(g, last, first, step)
    BY <2>1, StepwiseExists
  <2> QED
    BY <2>2 DEF B, first, Stepwise
<1> DEFINE f == [i \in 1 .. N |-> g[i - 1]]
<1>4. /\ f \in [1 .. N -> Seq(A)]
      /\ f[1] = lines[1]
      /\ \A i \in 2 .. N : f[i] = f[i - 1] \o lines[i]
      /\ f = [i \in 1 .. N |-> f[i]]
  <2>1. \A i \in 2 .. N : g[i - 1] = g[i - 2] \o lines[i]
    <3> TAKE i \in 2 .. N
    <3>1. i - 1 \in 1 .. last /\ (i - 1) - 1 = i - 2 /\ (i - 1) + 1 = i /\ i - 2 \in 0 .. last
      OBVIOUS
    <3>2. g[i - 1] = step[i - 1][g[i - 2]] /\ g[i - 2] \in Seq(A)
      BY <1>3, <3>1
    <3> QED
      BY <3>1, <3>2
  <2>2. f \in [1 .. N -> Seq(A)]
    BY <1>3
  <2>3. f[1] = lines[1]
    BY <1>3
  <2>4. \A i \in 2 .. N : f[i] = g[i - 1] /\ f[i - 1] = g[i - 2]
    OBVIOUS
  <2>5. f = [i \in 1 .. N |-> f[i]]
    OBVIOUS
  <2> HIDE DEF f
  <2> QED
    BY <2>1, <2>2, <2>3, <2>4, <2>5
<1> HIDE DEF f
<1>5. f = [i \in 1 .. N |-> Step(f, i)]
  <2>1. \A i \in 1 .. N : f[i] = Step(f, i)
    <3> TAKE i \in 1 .. N
    <3>1. i = 1 \/ i \in 2 .. N
      OBVIOUS
    <3> QED
      BY <1>4, <3>1
  <2> HIDE DEF Step
  <2> QED
    BY <1>4, <2>1
<1>6. flatten = [i \in 1 .. N |-> Step(flatten, i)]
  <2> HIDE DEF Step
  <2> QED
    BY <1>5
<1> HIDE DEF flatten
<1>7. flatten[1] = lines[1] /\ \A i \in 2 .. N : flatten[i] = flatten[i - 1] \o lines[i]
  <2>1. \A i \in 1 .. N : flatten[i] = Step(flatten, i)
    <3> HIDE DEF Step
    <3> QED
      BY <1>6
  <2>2. Step(flatten, 1) = lines[1]
    OBVIOUS
  <2>3. ASSUME NEW i \in 2 .. N
        PROVE  i \in 1 .. N /\ Step(flatten, i) = flatten[i - 1] \o lines[i]
    <3>1. i # 1 /\ i \in 1 .. N
      OBVIOUS
    <3> QED
      BY <3>1, Zenon
  <2> HIDE DEF Step
  <2>4. 1 \in 1 .. N
    OBVIOUS
  <2> QED
    BY <2>1, <2>2, <2>3, <2>4
<1> DEFINE S == {k \in Nat : flatten[k + 1] \in Seq(A)}
<1>8. 0 \in S
  BY <1>7
<1>9. ASSUME NEW k \in 0 .. last - 1, k \in S
      PROVE  k + 1 \in S
  <2>1. k + 2 \in 2 .. N /\ (k + 2) - 1 = k + 1 /\ (k + 1) + 1 = k + 2 /\ k + 2 \in 1 .. N
    OBVIOUS
  <2>2. flatten[k + 2] = flatten[k + 1] \o lines[k + 2] /\ lines[k + 2] \in Seq(A)
    BY <1>7, <2>1
  <2>3. flatten[k + 1] \in Seq(A)
    BY <1>9
  <2>4. flatten[k + 1] \o lines[k + 2] \in Seq(A)
    BY <2>2, <2>3
  <2>5. flatten[(k + 1) + 1] \in Seq(A)
    BY <2>1, <2>2, <2>4
  <2> QED
    BY <2>5
<1>10. 0 .. last \subseteq S
  <2> HIDE DEF S, last
  <2> QED
    BY <1>2, <1>8, <1>9, BoundedInduction
<1>11. flatten \in [1 .. N -> Seq(A)]
  <2>1. \A i \in 1 .. N : flatten[i] \in Seq(A)
    <3> TAKE i \in 1 .. N
    <3>1. i - 1 \in 0 .. last /\ (i - 1) + 1 = i
      OBVIOUS
    <3>2. i - 1 \in S
      <4> HIDE DEF S, last
      <4> QED
        BY <1>10, <3>1
    <3> QED
      BY <3>1, <3>2
  <2>2. flatten = [i \in 1 .. N |-> flatten[i]]
    BY <1>6
  <2> QED
    BY <2>1, <2>2
<1> QED
  BY <1>1, <1>7, <1>11 DEF Flattened

(* The walk of the loop through the pieces, up to CPU i.                   *)
Onward(a, j) == IF a <= Len(Load!Pieces) /\ Load!Matches(Load!Pieces[a], j) THEN a + 1 ELSE a

LEMMA Walk ==
  ASSUME NEW i \in Nat
  PROVE  \E at \in [0 .. i -> Nat \ {0, 1}] :
           /\ at[0] = 2
           /\ \A j \in 1 .. i : at[j] = Onward(at[j - 1], j - 1)
           /\ Load!PieceAt(i) = at[i]
<1> DEFINE Step(h, j) == IF j = 0 THEN 2 ELSE Onward(h[j - 1], j - 1)
           at == CHOOSE h : h = [j \in 0 .. i |-> Step(h, j)]
           B == Nat \ {0, 1}
           step == [k \in 1 .. i |-> [a \in B |-> Onward(a, k - 1)]]
<1>1. Load!PieceAt(i) = at[i]
  BY DEF Load!PieceAt, Onward
<1>2. \A a \in B, j \in Nat : Onward(a, j) \in B
  BY DEF Onward
<1>3. 2 \in B /\ step \in [1 .. i -> [B -> B]]
  <2> HIDE DEF B
  <2>1. \A k \in 1 .. i : k - 1 \in Nat
    OBVIOUS
  <2>2. 2 \in B
    BY DEF B
  <2> QED
    BY <1>2, <2>1, <2>2
<1>4. PICK g \in [0 .. i -> B] : Stepwise(g, i, 2, step)
  <2> HIDE DEF B, step
  <2>1. \E g \in [0 .. i -> B] : Stepwise(g, i, 2, step)
    BY <1>3, StepwiseExists
  <2> QED
    BY <2>1
<1>5. /\ g[0] = 2
      /\ \A j \in 1 .. i : g[j] = Onward(g[j - 1], j - 1)
  <2> HIDE DEF B
  <2>1. \A j \in 1 .. i : j - 1 \in 0 .. i
    OBVIOUS
  <2> QED
    BY <1>4, <2>1 DEF Stepwise
<1>6. g = [j \in 0 .. i |-> Step(g, j)]
  <2>1. \A j \in 0 .. i : j = 0 \/ j \in 1 .. i
    OBVIOUS
  <2>2. \A j \in 0 .. i : g[j] = Step(g, j)
    BY <1>5, <2>1
  <2> HIDE DEF Step, B
  <2> QED
    BY <1>4, <2>2
<1>7. at = [j \in 0 .. i |-> Step(at, j)]
  <2> HIDE DEF Step
  <2> QED
    BY <1>6
<1> HIDE DEF at, B, step
<1>8. at[0] = 2 /\ \A j \in 1 .. i : at[j] = Onward(at[j - 1], j - 1)
  <2>1. \A j \in 0 .. i : at[j] = Step(at, j)
    <3> HIDE DEF Step
    <3> QED
      BY <1>7
  <2>2. 0 \in 0 .. i /\ \A j \in 1 .. i : j # 0 /\ j \in 0 .. i
    OBVIOUS
  <2> QED
    BY <2>1, <2>2
<1> DEFINE S == {k \in Nat : at[k] \in B}
<1>9. 0 \in S
  BY <1>8 DEF B
<1>10. ASSUME NEW k \in 0 .. i - 1, k \in S
       PROVE  k + 1 \in S
  <2>1. k + 1 \in 1 .. i /\ (k + 1) - 1 = k /\ k \in Nat
    OBVIOUS
  <2>2. at[k + 1] = Onward(at[k], k)
    BY <1>8, <2>1
  <2>3. at[k + 1] \in B
    BY <1>2, <1>10, <2>1, <2>2
  <2> QED
    BY <2>3
<1>11. \A j \in 0 .. i : at[j] \in B
  <2> HIDE DEF S
  <2>1. 0 .. i \subseteq S
    BY <1>9, <1>10, BoundedInduction
  <2> QED
    BY <2>1 DEF S
<1>12. at \in [0 .. i -> B]
  <2>1. at = [j \in 0 .. i |-> at[j]]
    <3> HIDE DEF Step
    <3> QED
      BY <1>7
  <2> QED
    BY <1>11, <2>1
<1> QED
  BY <1>1, <1>8, <1>12 DEF B

(* The ticks of one CPU are among those of all.                            *)
LEMMA InTotal ==
  ASSUME stat \in [Load!CPUs -> Load!Counters]
  PROVE  /\ Load!Total \in Nat
         /\ \A c \in Load!CPUs : stat[c].busy + stat[c].idle <= Load!Total
<1> DEFINE ticks == [c \in Load!CPUs |-> stat[c].busy + stat[c].idle]
<1>1. Load!Total = SumFunctionOnSet(ticks, Load!CPUs)
  BY DEF Load!Total, Load!SumFunctionOnSet, Load!FoldFunctionOnSet, Load!MapThenFoldSet,
     SumFunctionOnSet, FoldFunctionOnSet, MapThenFoldSet
<1>2. IsFiniteSet(Load!CPUs)
  <2>1. 0 \in Int /\ nCores - 1 \in Int
    BY PlatformAssumption DEF Load!UtilizationAssumption
  <2> QED
    BY <2>1, FS_Interval DEF Load!CPUs
<1>3. \A c \in Load!CPUs : /\ ticks[c] \in Nat /\ ticks[c] \in Int
                           /\ ticks[c] = stat[c].busy + stat[c].idle
  BY DEF Load!Counters
<1> HIDE DEF ticks
<1>4. SumFunctionOnSet(ticks, Load!CPUs) \in Nat
  BY <1>2, <1>3, SumNat
<1>5. ASSUME NEW c \in Load!CPUs
      PROVE  ticks[c] <= SumFunctionOnSet(ticks, Load!CPUs)
  <2>1. SumFunctionOnSet(ticks, Load!CPUs)
          = ticks[c] + SumFunctionOnSet(ticks, Load!CPUs \ {c})
    BY <1>2, <1>3, SumRemove
  <2>2. IsFiniteSet(Load!CPUs \ {c})
    BY <1>2, FS_Subset
  <2>3. SumFunctionOnSet(ticks, Load!CPUs \ {c}) \in Nat
    BY <1>3, <2>2, SumNat
  <2> QED
    BY <1>3, <2>1, <2>3
<1> QED
  BY <1>1, <1>3, <1>4, <1>5

(* The pieces but for the line of totals, whose own line fits the buffer   *)
(* or not.                                                                 *)
LEMMA PiecesAre ==
  ASSUME NEW f \in [1 .. nCores -> Seq(Load!CPUs \cup {-1})],
         Load!FlattenSeq([i \in 1 .. nCores |-> Load!Line(i - 1)]) = f[nCores]
  PROVE  /\ Load!Total >= LongAt => Load!Pieces[2] = -1
         /\ ~(Load!Total >= LongAt) =>
              /\ Len(Load!Pieces) = 2 + Len(f[nCores])
              /\ Load!Pieces[2 + Len(f[nCores])] = -1
              /\ \A k \in 1 .. Len(f[nCores]) : Load!Pieces[1 + k] = f[nCores][k]
<1> DEFINE F == f[nCores]
<1>1. F \in Seq(Load!CPUs \cup {-1})
  BY PlatformAssumption DEF Load!UtilizationAssumption
<1>2. Load!Pieces = (IF Load!Total >= LongAt THEN <<-1, -1>> ELSE <<-1>>) \o F \o <<-1>>
  BY DEF Load!Pieces
<1> HIDE DEF F
<1>3. CASE Load!Total >= LongAt
  <2>1. Load!Pieces = <<-1, -1>> \o F \o <<-1>>
    BY <1>2, <1>3
  <2> QED
    BY <1>1, <1>3, <2>1
<1>4. CASE ~(Load!Total >= LongAt)
  <2>1. Load!Pieces = <<-1>> \o F \o <<-1>>
    BY <1>2, <1>4
  <2>2. /\ Len(Load!Pieces) = 2 + Len(F)
        /\ Load!Pieces[2 + Len(F)] = -1
        /\ \A k \in 1 .. Len(F) : Load!Pieces[1 + k] = F[k]
    BY <1>1, <2>1
  <2> QED
    BY <1>4, <2>2 DEF F
<1> QED
  BY <1>3, <1>4

(* Where in the file the line of CPU i is, or would be, behind the first.  *)
Placed(place) ==
  /\ place \in [0 .. nCores -> Nat]
  /\ place[0] = 0
  /\ \A i \in Load!CPUs : place[i + 1] = IF i \in online THEN place[i] + 1 ELSE place[i]
  /\ Len(Load!Pieces) = 2 + place[nCores]
  /\ Load!Pieces[2 + place[nCores]] = -1
  /\ \A i \in online : Load!Pieces[2 + place[i]] = i

LEMMA LineTypes ==
  /\ \A c \in Load!CPUs : Load!Line(c) \in Seq(Load!CPUs \cup {-1})
  /\ stat \in [Load!CPUs -> Load!Counters] /\ ~(Load!Total >= LongAt) =>
       \A c \in Load!CPUs : Load!Line(c) = IF c \in online THEN <<c>> ELSE <<>>
<1>1. \A c \in Load!CPUs : Load!Line(c) \in Seq(Load!CPUs \cup {-1})
  <2> TAKE c \in Load!CPUs
  <2> DEFINE A == Load!CPUs \cup {-1}
  <2>1. c \in A /\ -1 \in A
    OBVIOUS
  <2> HIDE DEF A
  <2>2. <<>> \in Seq(A) /\ <<c>> \in Seq(A) /\ <<c, -1>> \in Seq(A)
    BY <2>1
  <2>3. Load!Line(c) \in Seq(A)
    BY <2>2 DEF Load!Line
  <2> QED
    BY <2>3 DEF A
<1>2. ASSUME stat \in [Load!CPUs -> Load!Counters], ~(Load!Total >= LongAt), NEW c \in Load!CPUs
      PROVE  Load!Line(c) = IF c \in online THEN <<c>> ELSE <<>>
  <2>1. stat[c].busy + stat[c].idle <= Load!Total /\ stat[c].busy + stat[c].idle \in Nat
    BY <1>2, InTotal DEF Load!Counters
  <2>2. LongAt \in Nat /\ Load!Total \in Nat
    BY <1>2, InTotal, PlatformAssumption DEF Load!UtilizationAssumption
  <2>3. ~(stat[c].busy + stat[c].idle >= LongAt)
    BY <1>2, <2>1, <2>2
  <2> QED
    BY <2>3 DEF Load!Line
<1> QED
  BY <1>1, <1>2

(* The lines of the file.                                                  *)
LEMMA FileLines ==
  \E f \in [1 .. nCores -> Seq(Load!CPUs \cup {-1})] :
    /\ f[1] = Load!Line(0)
    /\ \A i \in 2 .. nCores : f[i] = f[i - 1] \o Load!Line(i - 1)
    /\ Load!FlattenSeq([i \in 1 .. nCores |-> Load!Line(i - 1)]) = f[nCores]
<1> DEFINE A == Load!CPUs \cup {-1}
           lines == [i \in 1 .. nCores |-> Load!Line(i - 1)]
<1>1. nCores \in Nat \ {0}
  BY PlatformAssumption DEF Load!UtilizationAssumption
<1>2. lines \in [1 .. nCores -> Seq(A)]
  <2>1. \A i \in 1 .. nCores : i - 1 \in Load!CPUs
    BY <1>1 DEF Load!CPUs
  <2> QED
    BY <2>1, LineTypes
<1>3. lines[1] = Load!Line(0) /\ \A i \in 2 .. nCores : lines[i] = Load!Line(i - 1)
  BY <1>1
<1> HIDE DEF A, lines
<1>4. PICK f \in [1 .. nCores -> Seq(A)] : Flattened(f, nCores, lines)
  <2>1. \E f \in [1 .. nCores -> Seq(A)] : Flattened(f, nCores, lines)
    BY <1>1, <1>2, Lines
  <2> QED
    BY <2>1
<1>5. f[1] = Load!Line(0) /\ \A i \in 2 .. nCores : f[i] = f[i - 1] \o Load!Line(i - 1)
  BY <1>3, <1>4 DEF Flattened
<1>6. Load!FlattenSeq(lines) = f[nCores]
  BY <1>4 DEF Flattened
<1> QED
  BY <1>5, <1>6 DEF A, lines

(* While all lines fit the buffer, each online CPU has one.                *)
LEMMA LinesPlaced ==
  ASSUME stat \in [Load!CPUs -> Load!Counters], online \subseteq Load!CPUs,
         ~(Load!Total >= LongAt)
  PROVE  \E place : Placed(place)
<1> DEFINE A == Load!CPUs \cup {-1}
<1>1. PICK f \in [1 .. nCores -> Seq(A)] :
             /\ f[1] = Load!Line(0)
             /\ \A i \in 2 .. nCores : f[i] = f[i - 1] \o Load!Line(i - 1)
             /\ Load!FlattenSeq([i \in 1 .. nCores |-> Load!Line(i - 1)]) = f[nCores]
  BY FileLines
<1> DEFINE place == [i \in 0 .. nCores |-> IF i = 0 THEN 0 ELSE Len(f[i])]
<1>2. nCores \in Nat \ {0} /\ Load!CPUs = 0 .. nCores - 1
  BY PlatformAssumption DEF Load!UtilizationAssumption, Load!CPUs
<1>3. \A c \in Load!CPUs : Load!Line(c) = IF c \in online THEN <<c>> ELSE <<>>
  BY LineTypes
<1>4. /\ place \in [0 .. nCores -> Nat]
      /\ place[0] = 0
      /\ \A i \in 1 .. nCores : place[i] = Len(f[i]) /\ f[i] \in Seq(A)
  BY <1>1, <1>2
<1> HIDE DEF place, A
<1>5. ASSUME NEW i \in Load!CPUs
      PROVE  /\ place[i + 1] = IF i \in online THEN place[i] + 1 ELSE place[i]
             /\ i \in online => f[i + 1][place[i] + 1] = i
             /\ i # 0 => \A k \in 1 .. place[i] : f[i + 1][k] = f[i][k]
             /\ i + 1 \in 1 .. nCores
  <2>1. i + 1 \in 1 .. nCores /\ (i + 1) - 1 = i
    BY <1>2
  <2>2. CASE i = 0
    <3>1. f[1] = IF 0 \in online THEN <<0>> ELSE <<>>
      BY <1>1, <1>3, <2>2
    <3> QED
      BY <1>4, <2>1, <2>2, <3>1
  <2>3. CASE i # 0
    <3>1. i \in 1 .. nCores /\ i + 1 \in 2 .. nCores
      BY <1>2, <2>3
    <3>2. f[i + 1] = f[i] \o (IF i \in online THEN <<i>> ELSE <<>>) /\ f[i] \in Seq(A)
      BY <1>1, <1>3, <1>4, <2>1, <3>1
    <3>3. place[i] = Len(f[i]) /\ place[i + 1] = Len(f[i + 1])
      BY <1>4, <2>1, <3>1
    <3>4. CASE i \in online
      <4>1. f[i + 1] = f[i] \o <<i>>
        BY <3>2, <3>4
      <4> QED
        BY <2>1, <3>2, <3>3, <3>4, <4>1
    <3>5. CASE i \notin online
      <4>1. f[i + 1] = f[i] \o <<>>
        BY <3>2, <3>5
      <4> QED
        BY <2>1, <3>2, <3>3, <3>5, <4>1
    <3> QED
      BY <3>4, <3>5
  <2> QED
    BY <2>2, <2>3
<1>6. ASSUME NEW i \in 1 .. nCores
      PROVE  /\ place[i] <= place[nCores]
             /\ \A k \in 1 .. place[i] : f[nCores][k] = f[i][k]
  <2> DEFINE Holds(m) == /\ place[i] <= place[m]
                         /\ \A k \in 1 .. place[i] : f[m][k] = f[i][k]
             S == {d \in Nat : Holds(i + d)}
             left == nCores - i
  <2>1. i \in Nat \ {0} /\ left \in Nat /\ i + 0 = i /\ i + left = nCores /\ place[i] \in Nat
    BY <1>2, <1>4
  <2>2. 0 \in S
    BY <2>1
  <2>3. ASSUME NEW d \in 0 .. left - 1, d \in S
        PROVE  d + 1 \in S
    <3> DEFINE m == i + d
    <3>1. m \in Load!CPUs /\ m # 0 /\ i + (d + 1) = m + 1 /\ m \in 1 .. nCores
      BY <1>2, <2>1
    <3>2. Holds(m)
      BY <2>3
    <3> HIDE DEF m
    <3>7. /\ place[m + 1] = IF m \in online THEN place[m] + 1 ELSE place[m]
          /\ \A k \in 1 .. place[m] : f[m + 1][k] = f[m][k]
      BY <1>5, <3>1
    <3>8. m \in 0 .. nCores /\ m + 1 \in 0 .. nCores
      BY <1>2, <3>1
    <3>3. /\ place[m] \in Nat /\ place[m + 1] \in Nat
          /\ place[m] <= place[m + 1]
          /\ \A k \in 1 .. place[m] : f[m + 1][k] = f[m][k]
      BY <1>4, <3>7, <3>8
    <3>4. \A k \in 1 .. place[i] : k \in 1 .. place[m]
      BY <2>1, <3>2, <3>3
    <3>5. Holds(m + 1)
      BY <2>1, <3>2, <3>3, <3>4
    <3> HIDE DEF Holds
    <3>6. Holds(i + (d + 1))
      BY <3>1, <3>5
    <3> QED
      BY <3>6
  <2>4. left \in S
    <3> HIDE DEF S, left
    <3>1. 0 .. left \subseteq S
      BY <2>1, <2>2, <2>3, BoundedInduction
    <3> QED
      BY <2>1, <3>1
  <2>5. Holds(i + left)
    BY <2>4
  <2> HIDE DEF Holds, left
  <2>6. Holds(nCores)
    BY <2>1, <2>5
  <2> QED
    BY <2>6 DEF Holds
<1>7. /\ Len(Load!Pieces) = 2 + place[nCores]
      /\ Load!Pieces[2 + place[nCores]] = -1
      /\ \A k \in 1 .. place[nCores] : Load!Pieces[1 + k] = f[nCores][k]
  <2>1. /\ Len(Load!Pieces) = 2 + Len(f[nCores])
        /\ Load!Pieces[2 + Len(f[nCores])] = -1
        /\ \A k \in 1 .. Len(f[nCores]) : Load!Pieces[1 + k] = f[nCores][k]
    BY <1>1, PiecesAre DEF A
  <2>2. place[nCores] = Len(f[nCores])
    BY <1>2, <1>4
  <2> QED
    BY <2>1, <2>2
<1>8. ASSUME NEW i \in online
      PROVE  Load!Pieces[2 + place[i]] = i
  <2>1. i \in Load!CPUs
    OBVIOUS
  <2> DEFINE k == place[i] + 1
  <2>2. place[i + 1] = k /\ f[i + 1][k] = i /\ i + 1 \in 1 .. nCores
    BY <1>5, <2>1
  <2>3. place[i] \in Nat
    BY <1>2, <1>4, <2>1
  <2>4. k \in 1 .. place[i + 1] /\ 1 + k = 2 + place[i]
    BY <2>2, <2>3
  <2>5. f[nCores][k] = i /\ place[i + 1] <= place[nCores]
    <3> HIDE DEF k
    <3> QED
      BY <1>6, <2>2, <2>4
  <2>6. k \in 1 .. place[nCores]
    BY <1>2, <1>4, <2>2, <2>3, <2>5
  <2>7. Load!Pieces[1 + k] = i
    <3> HIDE DEF k
    <3> QED
      BY <1>7, <2>5, <2>6
  <2> QED
    BY <2>4, <2>7
<1>9. Placed(place)
  BY <1>4, <1>5, <1>7, <1>8 DEF Placed
<1> QED
  BY <1>9

(* Between where CPU j and CPU m have their places are the lines of CPUs   *)
(* between them.                                                           *)
LEMMA LinesBetween ==
  ASSUME NEW place, Placed(place), NEW j \in 0 .. nCores, NEW m \in j .. nCores
  PROVE  /\ place[j] <= place[m]
         /\ \A k \in place[j] .. place[m] - 1 : Load!Pieces[2 + k] \in j .. m - 1
<1> DEFINE Holds(n) == /\ place[j] <= place[n]
                       /\ \A k \in place[j] .. place[n] - 1 : Load!Pieces[2 + k] \in j .. n - 1
           S == {d \in Nat : Holds(j + d)}
           left == m - j
<1>1. nCores \in Nat /\ Load!CPUs = 0 .. nCores - 1
  BY PlatformAssumption DEF Load!UtilizationAssumption, Load!CPUs
<1>2. /\ j \in Nat /\ m \in Nat /\ left \in Nat /\ j + 0 = j /\ j + left = m
      /\ place[j] \in Nat
  BY <1>1 DEF Placed
<1>3. 0 \in S
  BY <1>2
<1>4. ASSUME NEW d \in 0 .. left - 1, d \in S
      PROVE  d + 1 \in S
  <2> DEFINE n == j + d
  <2>1. n \in Load!CPUs /\ j + (d + 1) = n + 1 /\ n \in 0 .. nCores /\ n + 1 \in 0 .. nCores
        /\ j <= n
    BY <1>1, <1>2
  <2>2. Holds(n)
    BY <1>4
  <2> HIDE DEF n
  <2>3. /\ place[n] \in Nat
        /\ place[n + 1] = IF n \in online THEN place[n] + 1 ELSE place[n]
        /\ n \in online => Load!Pieces[2 + place[n]] = n
    BY <2>1 DEF Placed
  <2>4. Holds(n + 1)
    <3>1. n \in Nat
      BY <1>1, <2>1
    <3>2. place[j] <= place[n + 1]
      BY <1>2, <2>2, <2>3
    <3>3. ASSUME NEW k \in place[j] .. place[n + 1] - 1
          PROVE  Load!Pieces[2 + k] \in j .. n
      <4>1. CASE k \in place[j] .. place[n] - 1
        BY <1>2, <2>2, <3>1, <4>1
      <4>2. CASE ~(k \in place[j] .. place[n] - 1)
        <5>1. k = place[n] /\ n \in online
          BY <1>2, <2>3, <4>2
        <5> QED
          BY <1>2, <2>1, <2>3, <3>1, <5>1
      <4> QED
        BY <4>1, <4>2
    <3>4. (n + 1) - 1 = n
      BY <3>1
    <3> QED
      BY <3>2, <3>3, <3>4
  <2> HIDE DEF Holds
  <2>5. Holds(j + (d + 1))
    BY <2>1, <2>4
  <2> QED
    BY <2>5
<1>5. left \in S
  <2> HIDE DEF S, left
  <2>1. 0 .. left \subseteq S
    BY <1>2, <1>3, <1>4, BoundedInduction
  <2> QED
    BY <1>2, <2>1
<1>6. Holds(j + left)
  BY <1>5
<1> HIDE DEF Holds, left
<1>7. Holds(m)
  BY <1>2, <1>6
<1> QED
  BY <1>7 DEF Holds

(* Only a CPU of its own number, or of ten times as much, has a line that  *)
(* matches: at its place CPU j finds its line, and no other one.           *)
LEMMA AtItsPlace ==
  ASSUME NEW place, Placed(place), Load!TenthStays,
         online \subseteq Load!CPUs, Load!CPUs \ Switching \subseteq online,
         NEW j \in Load!CPUs, j <= 9
  PROVE  /\ 2 + place[j] <= Len(Load!Pieces)
         /\ Load!Matches(Load!Pieces[2 + place[j]], j) <=> j \in online
<1>1. nCores \in 1 .. 99 /\ Load!CPUs = 0 .. nCores - 1
  BY PlatformAssumption DEF Load!UtilizationAssumption, Load!CPUs
<1>2. j \in 0 .. nCores /\ nCores \in j .. nCores /\ j \in Nat /\ nCores \in 0 .. nCores
  BY <1>1
<1>3. place[j] \in Nat /\ place[nCores] \in Nat
  BY <1>2 DEF Placed
<1>4. place[j] <= place[nCores]
  BY <1>2, LinesBetween
<1>5. Len(Load!Pieces) = 2 + place[nCores]
  BY DEF Placed
<1>6. CASE j \in online
  <2>1. Load!Pieces[2 + place[j]] = j
    BY <1>6 DEF Placed
  <2> QED
    BY <1>2, <1>3, <1>4, <1>5, <1>6, <2>1 DEF Load!Matches
<1>7. CASE j \notin online
  <2> DEFINE piece == Load!Pieces[2 + place[j]]
  <2>1. place[j + 1] = place[j]
    BY <1>7 DEF Placed
  <2>2. CASE place[j] = place[nCores]
    <3>1. piece = -1
      BY <2>2 DEF Placed
    <3> QED
      BY <1>3, <1>4, <1>5, <1>7, <3>1 DEF Load!Matches
  <2>3. CASE place[j] # place[nCores]
    <3>1. piece \in j + 1 .. 9
      <4>1. CASE nCores <= 10
        <5>1. j + 1 \in 0 .. nCores /\ nCores \in (j + 1) .. nCores
          BY <1>1, <1>2
        <5>2. place[j] \in place[j + 1] .. place[nCores] - 1
          BY <1>3, <1>4, <2>1, <2>3
        <5>3. piece \in (j + 1) .. nCores - 1
          BY <5>1, <5>2, LinesBetween
        <5> QED
          BY <1>1, <1>2, <4>1, <5>3
      <4>2. CASE nCores > 10
        <5>1. 9 \in online /\ 9 \in Load!CPUs
          BY <1>1, <4>2 DEF Load!TenthStays
        <5>2. j < 9
          BY <1>2, <1>7, <5>1
        <5>3. /\ j + 1 \in 0 .. nCores /\ 10 \in (j + 1) .. nCores
              /\ 9 \in (j + 1) .. nCores /\ 9 \in 0 .. nCores
          BY <1>1, <1>2, <4>2, <5>2
        <5>4. place[j + 1] <= place[9] /\ place[9] \in Nat
          BY <5>3, LinesBetween DEF Placed
        <5>5. place[10] = place[9] + 1
          BY <5>1 DEF Placed
        <5>6. place[j] \in place[j + 1] .. place[10] - 1
          BY <1>3, <2>1, <5>4, <5>5
        <5>7. piece \in (j + 1) .. 10 - 1
          BY <5>3, <5>6, LinesBetween
        <5> QED
          BY <5>7
      <4> QED
        BY <1>1, <4>1, <4>2
    <3> QED
      BY <1>2, <1>3, <1>4, <1>5, <1>7, <3>1 DEF Load!Matches
  <2> QED
    BY <2>2, <2>3
<1> QED
  BY <1>6, <1>7

(* So the walk is at the place of each of the first ten CPUs in its turn.  *)
LEMMA WalkPlaces ==
  ASSUME NEW place, Placed(place), Load!TenthStays,
         online \subseteq Load!CPUs, Load!CPUs \ Switching \subseteq online,
         NEW c \in Load!CPUs, c <= 9
  PROVE  Load!PieceAt(c) = 2 + place[c]
<1>1. nCores \in 1 .. 99 /\ Load!CPUs = 0 .. nCores - 1 /\ c \in Nat
  BY PlatformAssumption DEF Load!UtilizationAssumption, Load!CPUs
<1>2. PICK at \in [0 .. c -> Nat \ {0, 1}] :
             /\ at[0] = 2
             /\ \A j \in 1 .. c : at[j] = Onward(at[j - 1], j - 1)
             /\ Load!PieceAt(c) = at[c]
  BY <1>1, Walk
<1> DEFINE S == {j \in Nat : at[j] = 2 + place[j]}
<1>3. 0 \in S
  BY <1>2 DEF Placed
<1>4. ASSUME NEW j \in 0 .. c - 1, j \in S
      PROVE  j + 1 \in S
  <2>1. /\ j \in Load!CPUs /\ j <= 9 /\ j + 1 \in 1 .. c /\ (j + 1) - 1 = j /\ j \in Nat
        /\ j \in 0 .. nCores
    BY <1>1
  <2>2. at[j + 1] = Onward(at[j], j) /\ at[j] = 2 + place[j]
    BY <1>2, <1>4, <2>1
  <2>3. /\ 2 + place[j] <= Len(Load!Pieces)
        /\ Load!Matches(Load!Pieces[2 + place[j]], j) <=> j \in online
    BY <2>1, AtItsPlace
  <2>4. /\ place[j + 1] = IF j \in online THEN place[j] + 1 ELSE place[j]
        /\ place[j] \in Nat
    BY <2>1 DEF Placed
  <2>5. at[j + 1] = 2 + place[j + 1]
    BY <2>2, <2>3, <2>4 DEF Onward
  <2> QED
    BY <2>5
<1>5. c \in S
  <2> HIDE DEF S
  <2>1. 0 .. c \subseteq S
    BY <1>1, <1>3, <1>4, BoundedInduction
  <2> QED
    BY <1>1, <2>1
<1> QED
  BY <1>2, <1>5

(* Of the first ten CPUs those online are found, with their own counters,  *)
(* as long as the lines fit the buffer.                                    *)
LEMMA FoundIfOnline ==
  ASSUME stat \in [Load!CPUs -> Load!Counters], Load!TenthStays,
         online \subseteq Load!CPUs, Load!CPUs \ Switching \subseteq online,
         ~(Load!Total >= LongAt), NEW c \in Load!CPUs, c <= 9
  PROVE  /\ Load!Found(c) <=> c \in online
         /\ c \in online => Load!Read(c) = stat[c]
<1>1. PICK place : Placed(place)
  BY LinesPlaced
<1>2. Load!PieceAt(c) = 2 + place[c]
  BY <1>1, WalkPlaces
<1>3. /\ 2 + place[c] <= Len(Load!Pieces)
      /\ Load!Matches(Load!Pieces[2 + place[c]], c) <=> c \in online
  BY <1>1, AtItsPlace
<1>4. c \in online => Load!Pieces[2 + place[c]] = c
  BY <1>1 DEF Placed
<1> QED
  BY <1>2, <1>3, <1>4 DEF Load!Found, Load!Read

(* When the line of totals does not fit, the loop holds the rest of it and *)
(* finds no CPU.                                                           *)
LEMMA NoneFound ==
  ASSUME Load!Total >= LongAt, NEW c \in Load!CPUs
  PROVE  ~Load!Found(c)
<1>1. Load!Pieces[2] = -1
  <2>1. PICK f \in [1 .. nCores -> Seq(Load!CPUs \cup {-1})] :
               Load!FlattenSeq([i \in 1 .. nCores |-> Load!Line(i - 1)]) = f[nCores]
    BY FileLines
  <2> QED
    BY <2>1, PiecesAre
<1>2. c \in Nat
  BY PlatformAssumption DEF Load!UtilizationAssumption, Load!CPUs
<1>3. PICK at \in [0 .. c -> Nat \ {0, 1}] :
             /\ at[0] = 2
             /\ \A j \in 1 .. c : at[j] = Onward(at[j - 1], j - 1)
             /\ Load!PieceAt(c) = at[c]
  BY <1>2, Walk
<1>4. \A j : ~Load!Matches(Load!Pieces[2], j)
  BY <1>1 DEF Load!Matches
<1> DEFINE S == {j \in Nat : at[j] = 2}
<1>5. 0 \in S
  BY <1>3
<1>6. ASSUME NEW j \in 0 .. c - 1, j \in S
      PROVE  j + 1 \in S
  <2>1. j + 1 \in 1 .. c /\ (j + 1) - 1 = j /\ at[j] = 2
    BY <1>2, <1>6
  <2>2. at[j + 1] = Onward(at[j], j)
    BY <1>3, <2>1
  <2>3. at[j + 1] = 2
    BY <1>4, <2>1, <2>2 DEF Onward
  <2> QED
    BY <2>3
<1>7. c \in S
  <2> HIDE DEF S
  <2>1. 0 .. c \subseteq S
    BY <1>2, <1>5, <1>6, BoundedInduction
  <2> QED
    BY <1>2, <2>1
<1> QED
  BY <1>3, <1>4, <1>7 DEF Load!Found

(* Whatever line is taken for that of a CPU, it is the line of a CPU.      *)
LEMMA ReadType ==
  ASSUME stat \in [Load!CPUs -> Load!Counters], online \subseteq Load!CPUs,
         NEW c \in Load!CPUs, Load!Found(c)
  PROVE  Load!Read(c) \in Load!Counters
<1>1. ~(Load!Total >= LongAt)
  BY NoneFound
<1>2. PICK place : Placed(place)
  BY <1>1, LinesPlaced
<1>3. c \in Nat /\ nCores \in 1 .. 99 /\ Load!CPUs = 0 .. nCores - 1
  BY PlatformAssumption DEF Load!UtilizationAssumption, Load!CPUs
<1> DEFINE a == Load!PieceAt(c)
<1>4. a \in Nat \ {0, 1}
  <2>1. PICK at \in [0 .. c -> Nat \ {0, 1}] : a = at[c]
    BY <1>3, Walk
  <2> QED
    BY <1>3, <2>1
<1>5. a <= Len(Load!Pieces) /\ Load!Pieces[a] >= 0
  BY DEF Load!Found, Load!Matches
<1> HIDE DEF a
<1>6. place[0] = 0 /\ place[nCores] \in Nat /\ Len(Load!Pieces) = 2 + place[nCores]
      /\ Load!Pieces[2 + place[nCores]] = -1
  BY <1>2, <1>3 DEF Placed
<1>7. a # 2 + place[nCores]
  BY <1>5, <1>6
<1> DEFINE k == a - 2
<1>8. k \in place[0] .. place[nCores] - 1 /\ 2 + k = a
  BY <1>4, <1>5, <1>6, <1>7
<1>9. 0 \in 0 .. nCores /\ nCores \in 0 .. nCores
  BY <1>3
<1>10. Load!Pieces[2 + k] \in 0 .. nCores - 1
  <2> HIDE DEF k
  <2> QED
    BY <1>2, <1>8, <1>9, LinesBetween
<1>11. Load!Pieces[a] \in Load!CPUs
  BY <1>3, <1>8, <1>10
<1> QED
  BY <1>11 DEF Load!Read, a

(* A part of a whole is between 0 and 100 hundredths of it.                *)
LEMMA Percentage ==
  ASSUME NEW part_ \in Nat, NEW whole \in Nat, part_ <= whole, whole # 0
  PROVE  (part_ * 100) \div whole \in 0 .. 100
OBVIOUS

(* The counters that were read last are not ahead of the kernel's, and     *)
(* while all lines fit they are the ones of the CPU they are kept for.     *)
LoadInv ==
  /\ Load!TypeOK
  /\ Load!CPUs \ Switching \subseteq online
  /\ Load!TenthStays => \A c \in Load!CPUs :
       prev[c].busy <= stat[c].busy /\ prev[c].idle <= stat[c].idle
  /\ Load!TenthStays /\ ~(Load!Total >= LongAt) => \A c \in Load!CPUs :
       c <= 9 => prev[c] = seen[c]

LEMMA LoadInit ==
  ASSUME Load!Init
  PROVE  LoadInv
BY DEF Load!Init, LoadInv, Load!TypeOK, Load!Counters

LEMMA Counted ==
  ASSUME LoadInv, NEW c \in Load!CPUs, NEW kind \in {"busy", "idle"}, Load!Count(c, kind)
  PROVE  LoadInv'
<1>1. /\ stat' = [stat EXCEPT ![c] = [stat[c] EXCEPT ![kind] = stat[c][kind] + 1]]
      /\ UNCHANGED <<online, prev, usage, seen>>
  BY DEF Load!Count
<1>2. stat \in [Load!CPUs -> Load!Counters]
  BY DEF LoadInv, Load!TypeOK
<1>3. /\ stat' \in [Load!CPUs -> Load!Counters]
      /\ \A d \in Load!CPUs : stat[d].busy <= stat'[d].busy /\ stat[d].idle <= stat'[d].idle
  <2> DEFINE new == [stat[c] EXCEPT ![kind] = stat[c][kind] + 1]
  <2>1. /\ new \in Load!Counters
        /\ stat[c].busy <= new.busy /\ stat[c].idle <= new.idle
    BY <1>2 DEF Load!Counters
  <2>2. \A d \in Load!CPUs : /\ stat[d].busy \in Nat /\ stat[d].idle \in Nat
                             /\ stat'[d] = IF d = c THEN new ELSE stat[d]
    BY <1>1, <1>2 DEF Load!Counters
  <2>3. stat' \in [Load!CPUs -> Load!Counters]
    <3> HIDE DEF new
    <3> QED
      BY <1>1, <1>2, <2>1 DEF new
  <2> HIDE DEF new
  <2> QED
    BY <2>1, <2>2, <2>3
<1>4. Load!Total >= LongAt => Load!Total' >= LongAt
  <2>1. Load!Total <= Load!Total' /\ Load!Total \in Int /\ Load!Total' \in Int
    <3> DEFINE ticks == [d \in Load!CPUs |-> stat[d].busy + stat[d].idle]
               later == [d \in Load!CPUs |-> stat'[d].busy + stat'[d].idle]
    <3>1. /\ Load!Total = SumFunctionOnSet(ticks, Load!CPUs)
          /\ Load!Total' = SumFunctionOnSet(later, Load!CPUs)
      BY DEF Load!Total, Load!SumFunctionOnSet, Load!FoldFunctionOnSet, Load!MapThenFoldSet,
         SumFunctionOnSet, FoldFunctionOnSet, MapThenFoldSet, Load!CPUs
    <3>2. IsFiniteSet(Load!CPUs)
      <4>1. 0 \in Int /\ nCores - 1 \in Int
        BY PlatformAssumption DEF Load!UtilizationAssumption
      <4> QED
        BY <4>1, FS_Interval DEF Load!CPUs
    <3>3. \A d \in Load!CPUs : /\ ticks[d] \in Int /\ later[d] \in Int
                               /\ ticks[d] <= later[d]
      BY <1>2, <1>3 DEF Load!Counters
    <3> HIDE DEF ticks, later
    <3>4. /\ SumFunctionOnSet(ticks, Load!CPUs) <= SumFunctionOnSet(later, Load!CPUs)
          /\ SumFunctionOnSet(ticks, Load!CPUs) \in Int
          /\ SumFunctionOnSet(later, Load!CPUs) \in Int
      BY <3>2, <3>3, SumMonotonic, SumType
    <3> QED
      BY <3>1, <3>4
  <2> QED
    BY <2>1, PlatformAssumption DEF Load!UtilizationAssumption
<1>5. Load!TypeOK'
  BY <1>1, <1>3 DEF LoadInv, Load!TypeOK
<1>6. Load!TenthStays => \A d \in Load!CPUs :
        prev'[d].busy <= stat'[d].busy /\ prev'[d].idle <= stat'[d].idle
  <2>1. \A d \in Load!CPUs : /\ prev[d] \in Load!Counters /\ stat[d] \in Load!Counters
                             /\ stat'[d] \in Load!Counters
    BY <1>2, <1>3 DEF LoadInv, Load!TypeOK
  <2> QED
    BY <1>1, <1>3, <2>1 DEF LoadInv, Load!Counters
<1>7. Load!TenthStays /\ ~(Load!Total' >= LongAt) => \A d \in Load!CPUs :
        d <= 9 => prev'[d] = seen'[d]
  BY <1>1, <1>4 DEF LoadInv
<1>8. Load!CPUs \ Switching \subseteq online'
  BY <1>1 DEF LoadInv
<1>9. Load!TenthStays' <=> Load!TenthStays
  BY DEF Load!TenthStays
<1> QED
  BY <1>5, <1>6, <1>7, <1>8, <1>9 DEF LoadInv, Load!CPUs

LEMMA Switched ==
  ASSUME LoadInv, NEW c \in Switching, Load!Switch(c)
  PROVE  LoadInv'
<1>1. UNCHANGED <<stat, prev, usage, seen>>
  BY DEF Load!Switch
<1>2. /\ online' \subseteq online \cup {c}
      /\ online \ {c} \subseteq online'
  BY DEF Load!Switch, Load!SymDiff
<1>3. c \in Load!CPUs
  BY PlatformAssumption DEF Load!UtilizationAssumption
<1>4. Load!TypeOK'
  BY <1>1, <1>2, <1>3 DEF LoadInv, Load!TypeOK
<1>5. UNCHANGED Load!Total
  BY <1>1 DEF Load!Total, Load!CPUs
<1>6. Load!CPUs \ Switching \subseteq online'
  BY <1>2 DEF LoadInv
<1>7. UNCHANGED <<Load!TenthStays, Load!CPUs>>
  BY DEF Load!TenthStays, Load!CPUs
<1> QED
  BY <1>1, <1>4, <1>5, <1>6, <1>7 DEF LoadInv

(* What computeUtilization reports of CPU c.                               *)
LEMMA ReportType ==
  ASSUME LoadInv, Load!TenthStays, NEW c \in Load!CPUs
  PROVE  (IF Load!Found(c) THEN Load!computeCoreUtilization(Load!Read(c), prev[c]) ELSE 0)
           \in 0 .. 100
<1>1. CASE Load!Found(c)
  <2>1. c <= 9 /\ ~(Load!Total >= LongAt)
    BY <1>1, NoneFound DEF Load!Found, Load!Matches
  <2>2. Load!Read(c) = stat[c]
    BY <1>1, <2>1, FoundIfOnline DEF LoadInv, Load!TypeOK
  <2> DEFINE busy == stat[c].busy - prev[c].busy
             total == busy + stat[c].idle - prev[c].idle
  <2>3. busy \in Nat /\ total \in Nat /\ busy <= total
    BY DEF LoadInv, Load!TypeOK, Load!Counters
  <2>4. Load!computeCoreUtilization(stat[c], prev[c])
          = IF total = 0 THEN 0 ELSE (busy * 100) \div total
    BY DEF Load!computeCoreUtilization
  <2> HIDE DEF busy, total
  <2>5. Load!computeCoreUtilization(stat[c], prev[c]) \in 0 .. 100
    BY <2>3, <2>4, Percentage
  <2> QED
    BY <1>1, <2>2, <2>5
<1>2. CASE ~Load!Found(c)
  BY <1>2
<1> QED
  BY <1>1, <1>2

LEMMA Computed ==
  ASSUME LoadInv, Load!computeUtilization
  PROVE  LoadInv'
<1>1. UNCHANGED <<stat, online, Load!Total, Load!TenthStays, Load!CPUs>>
  BY DEF Load!computeUtilization, Load!Total, Load!TenthStays, Load!CPUs
<1>2. CASE usage' = [c \in Load!CPUs |-> 0] /\ UNCHANGED <<prev, seen>>
  <2>1. usage' \in [Load!CPUs -> 0 .. 100]
    BY <1>2
  <2> QED
    BY <1>1, <1>2, <2>1 DEF LoadInv, Load!TypeOK
<1>3. CASE /\ usage' = [c \in Load!CPUs |->
                    IF Load!Found(c) THEN Load!computeCoreUtilization(Load!Read(c), prev[c]) ELSE 0]
           /\ prev' = [c \in Load!CPUs |-> IF Load!Found(c) THEN Load!Read(c) ELSE prev[c]]
           /\ seen' = [c \in Load!CPUs |-> IF c \in online THEN stat[c] ELSE seen[c]]
  <2>1. /\ stat \in [Load!CPUs -> Load!Counters] /\ prev \in [Load!CPUs -> Load!Counters]
        /\ seen \in [Load!CPUs -> Load!Counters] /\ online \subseteq Load!CPUs
    BY DEF LoadInv, Load!TypeOK
  <2>2. prev' \in [Load!CPUs -> Load!Counters] /\ seen' \in [Load!CPUs -> Load!Counters]
    BY <1>3, <2>1, ReadType
  <2>3. Load!TenthStays => usage' \in [Load!CPUs -> 0 .. 100]
    BY <1>3, ReportType
  <2>4. Load!TypeOK'
    BY <1>1, <2>1, <2>2, <2>3 DEF Load!TypeOK
  <2>5. ASSUME Load!TenthStays, NEW c \in Load!CPUs
        PROVE  prev'[c].busy <= stat[c].busy /\ prev'[c].idle <= stat[c].idle
    <3>1. CASE Load!Found(c)
      <4>1. c <= 9 /\ ~(Load!Total >= LongAt)
        BY <3>1, NoneFound DEF Load!Found, Load!Matches
      <4>2. prev'[c] = stat[c]
        BY <1>3, <2>1, <2>5, <3>1, <4>1, FoundIfOnline DEF LoadInv
      <4>3. stat[c].busy \in Nat /\ stat[c].idle \in Nat
        BY <2>1 DEF Load!Counters
      <4> QED
        BY <4>2, <4>3
    <3>2. CASE ~Load!Found(c)
      BY <1>3, <2>5, <3>2 DEF LoadInv
    <3> QED
      BY <3>1, <3>2
  <2>6. ASSUME Load!TenthStays, ~(Load!Total >= LongAt), NEW c \in Load!CPUs, c <= 9
        PROVE  prev'[c] = seen'[c]
    <3>1. /\ Load!Found(c) <=> c \in online
          /\ c \in online => Load!Read(c) = stat[c]
      BY <2>1, <2>6, FoundIfOnline DEF LoadInv
    <3> QED
      BY <1>3, <2>6, <3>1 DEF LoadInv
  <2> QED
    BY <1>1, <2>4, <2>5, <2>6 DEF LoadInv
<1> QED
  BY <1>2, <1>3 DEF Load!computeUtilization

LEMMA LoadNext ==
  ASSUME LoadInv, Load!Next
  PROVE  LoadInv'
BY Counted, Switched, Computed DEF Load!Next

LEMMA LoadStutter ==
  ASSUME LoadInv, UNCHANGED utilization
  PROVE  LoadInv'
<1>1. UNCHANGED <<stat, online, prev, usage, seen>>
  BY DEF utilization
<1>2. UNCHANGED <<Load!Total, Load!TenthStays, Load!CPUs>>
  BY <1>1 DEF Load!Total, Load!TenthStays, Load!CPUs
<1> QED
  BY <1>1, <1>2 DEF LoadInv, Load!TypeOK

(* The action property of LoadOfEach.                                      *)
LEMMA EachReported ==
  ASSUME LoadInv, Load!Next, Load!TenthStays, seen' # seen, Load!Total < LongAt
  PROVE  Load!Reported(Load!CPUs \cap 0 .. 9)
<1>1. /\ usage' = [c \in Load!CPUs |->
              IF Load!Found(c) THEN Load!computeCoreUtilization(Load!Read(c), prev[c]) ELSE 0]
  BY DEF Load!Next, Load!Count, Load!Switch, Load!computeUtilization
<1> SUFFICES ASSUME NEW c \in Load!CPUs \cap 0 .. 9
             PROVE  usage'[c] = Load!Share(c)
  BY DEF Load!Reported
<1>2. ~(Load!Total >= LongAt)
  BY InTotal, PlatformAssumption DEF LoadInv, Load!TypeOK, Load!UtilizationAssumption
<1>3. c \in Load!CPUs /\ c <= 9
  OBVIOUS
<1>4. /\ Load!Found(c) <=> c \in online
      /\ c \in online => Load!Read(c) = stat[c]
  BY <1>2, <1>3, FoundIfOnline DEF LoadInv, Load!TypeOK
<1>5. prev[c] = seen[c]
  BY <1>2, <1>3 DEF LoadInv
<1>6. usage'[c] = IF c \in online THEN Load!computeCoreUtilization(stat[c], seen[c]) ELSE 0
  BY <1>1, <1>3, <1>4, <1>5
<1> QED
  BY <1>6 DEF Load!computeCoreUtilization, Load!Share

-----------------------------------------------------------------------------
(* The parts side by side.                                                 *)

(* The inductive invariant: that of every part.                            *)
PlatformInv ==
  /\ part \in Parts
  /\ SettingsInv /\ CpuInv /\ Gpu!TypeOK /\ LoadInv /\ PowerInv

LEMMA PlatformInit ==
  ASSUME Init
  PROVE  PlatformInv
BY SettingsInit, CpuInit, GpuInit, LoadInit, PowerInit DEF Init, PlatformInv

LEMMA GpuNext ==
  ASSUME Gpu!TypeOK, Gpu!Next
  PROVE  /\ Gpu!TypeOK'
         /\ IF gpuResult' THEN gpu'.min = gpuAsked' /\ gpu'.max = gpuAsked' /\ gpu'.powered
            ELSE gpu'.min \in {gpu.min, Gpu!getMinGpuFreq}
BY GpuSet DEF Gpu!Next

(* One part moves, the others stay.                                        *)
LEMMA PlatformNext ==
  ASSUME PlatformInv, [Next]_vars
  PROVE  PlatformInv'
<1>1. /\ part' = part
      /\ (part = "settings" /\ Settings!Next) \/ UNCHANGED settings
      /\ (part = "cpu" /\ Cpu!Next) \/ UNCHANGED cpuFrequency
      /\ (part = "gpu" /\ Gpu!Next) \/ UNCHANGED gpuFrequency
      /\ (part = "load" /\ Load!Next) \/ UNCHANGED utilization
      /\ (part = "power" /\ Power!Next) \/ UNCHANGED sensors
  BY DEF Next, vars
<1>2. SettingsInv'
  BY <1>1, SettingsNext, SettingsStutter DEF PlatformInv
<1>3. CpuInv'
  BY <1>1, CpuNext, CpuStutter DEF PlatformInv
<1>4. Gpu!TypeOK'
  BY <1>1, GpuNext, GpuStutter DEF PlatformInv
<1>5. LoadInv'
  BY <1>1, LoadNext, LoadStutter DEF PlatformInv
<1>6. PowerInv'
  BY <1>1, PowerNext, PowerStutter DEF PlatformInv
<1> QED
  BY <1>1, <1>2, <1>3, <1>4, <1>5, <1>6 DEF PlatformInv

LEMMA PlatformInductive == Spec => []PlatformInv
<1>1. Init => PlatformInv
  BY PlatformInit
<1>2. PlatformInv /\ [Next]_vars => PlatformInv'
  BY PlatformNext
<1> QED
  BY <1>1, <1>2, PTL DEF Spec

(* Every variable of every part keeps its type, and while CPU 9 stays      *)
(* online, if there are more than ten, a usage is a percentage.            *)
THEOREM PlatformTypes == Spec => []TypeOK
<1>1. PlatformInv => TypeOK
  BY DEF PlatformInv, SettingsInv, CpuInv, LoadInv, PowerInv, TypeOK
<1> QED
  BY <1>1, PlatformInductive, PTL

(* When grep hits nobody else's group, whatever settings the controller    *)
(* was told of are in force unless the kernel refused the last write, over *)
(* restarts, failed creations and deletions.                               *)
THEOREM SettingsInForce ==
  ASSUME Settings!ExactMatches
  PROVE  Spec => []InForceUnlessRefused
<1>1. PlatformInv => InForceUnlessRefused
  BY DEF PlatformInv, SettingsInv, InForceUnlessRefused
<1> QED
  BY <1>1, PlatformInductive, PTL

(* A SetCpuFreq that reports success leaves all CPUs at one frequency, for *)
(* every division of the CPUs into clock domains.                          *)
THEOREM AllCpusTogether == Spec => []CpusTogether
<1>1. PlatformInv => CpusTogether
  BY DEF PlatformInv, CpuInv, CpusTogether
<1> QED
  BY <1>1, PlatformInductive, PTL

(* getNextCpuFreq and getNextGpuFreq return the least frequency above the  *)
(* given one or the highest there is, for every reading of the CPUs' and   *)
(* the GPU's frequency.                                                    *)
THEOREM NextFound == Spec => []NextIsLeastAbove
<1>1. PlatformInv => NextIsLeastAbove
  BY CpuNextFound, GpuNextFound DEF PlatformInv, NextIsLeastAbove
<1> QED
  BY <1>1, PlatformInductive, PTL

(* The kernel never refuses a write of SetGpuFreq for the order of the     *)
(* bounds, whatever range was left to it.                                  *)
THEOREM GpuWritesAccepted == Spec => []OrderAccepted
<1>1. PlatformInv => OrderAccepted
  BY GpuOrder DEF PlatformInv, OrderAccepted
<1> QED
  BY <1>1, PlatformInductive, PTL

(* Raising never lowers the frequency of CPU 0, if a reading is not lower  *)
(* than what was set by more than the smallest gap of the table.           *)
THEOREM RaisesOnly ==
  ASSUME \A j \in Jitter : j >= -51000
  PROVE  Spec => RaiseNeverLowers
<1>1. PlatformInv => [speed'[DomainOf[0]] < speed[DomainOf[0]] => ~Cpu!Raise]_(Cpu!vars)
  BY RaiseIsUp DEF PlatformInv
<1> QED
  BY <1>1, PlatformInductive, PTL DEF RaiseNeverLowers, Cpu!RaiseNeverLowers

(* A successful SetGpuFreq pins the GPU to what was asked, one that stopped*)
(* halfway leaves the lower bound where it was or at the lowest frequency. *)
THEOREM GpuPinned == Spec => PinnedOrFree
<1>1. PlatformInv /\ [Next]_vars =>
        [IF gpuResult' THEN gpu'.min = gpuAsked' /\ gpu'.max = gpuAsked' /\ gpu'.powered
                       ELSE gpu'.min \in {gpu.min, Gpu!getMinGpuFreq}]_(Gpu!vars)
  <2> SUFFICES ASSUME PlatformInv, [Next]_vars, ~UNCHANGED Gpu!vars
               PROVE  IF gpuResult' THEN gpu'.min = gpuAsked' /\ gpu'.max = gpuAsked' /\ gpu'.powered
                      ELSE gpu'.min \in {gpu.min, Gpu!getMinGpuFreq}
    OBVIOUS
  <2>1. Gpu!Next
    BY DEF Next, vars, gpuFrequency, Gpu!vars
  <2> QED
    BY <2>1, GpuNext DEF PlatformInv
<1> QED
  BY <1>1, PlatformInductive, PTL DEF Spec, PinnedOrFree, Gpu!PinnedOrFree

(* Each of the first ten CPUs is reported its own share of busy ticks      *)
(* since it was last read, whichever CPUs went off and on line meanwhile.  *)
THEOREM LoadsReported == Spec => LoadOfEach
<1>1. PlatformInv /\ [Next]_vars =>
        [Load!TenthStays /\ seen' # seen /\ Load!Total < LongAt =>
           Load!Reported(Load!CPUs \cap 0 .. 9)]_(Load!vars)
  <2> SUFFICES ASSUME PlatformInv, [Next]_vars, Load!TenthStays, seen' # seen,
                      Load!Total < LongAt
               PROVE  Load!Reported(Load!CPUs \cap 0 .. 9)
    OBVIOUS
  <2>1. Load!Next
    BY DEF Next, vars, utilization
  <2> QED
    BY <2>1, EachReported DEF PlatformInv
<1> QED
  BY <1>1, PlatformInductive, PTL DEF Spec, LoadOfEach, Load!LoadOfEach

(* An average is between the least and the greatest value its sensor had   *)
(* since it was averaged last, unless a reading failed.                    *)
THEOREM AveragesRecent == Spec => AverageOfRecent
<1>1. PlatformInv =>
        [\A s \in SensorNames : Power!getAvg(s) /\ Power!Failed \notin since[s] =>
           IF since[s] = {} THEN avg'[s].sum = 0
           ELSE \E lo, hi \in since[s] :
                  lo * avg'[s].n <= avg'[s].sum /\ avg'[s].sum <= hi * avg'[s].n]_(Power!vars)
  BY AverageIsOfRecent DEF PlatformInv
<1> QED
  BY <1>1, PlatformInductive, PTL DEF AverageOfRecent, Power!AverageOfRecent
=============================================================================
