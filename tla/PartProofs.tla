----------------------------- MODULE PartProofs -----------------------------
(***************************************************************************)
(* Theorems about StateMapping.tla, for any numbers of zones;              *)
(* DispatchTiming.tla, for any settings of a route and any durations;      *)
(* StressClient.tla, for any numbers of queries, workers and futures;      *)
(* BackendBenchmark.tla, for any routes and any settings; AnswerAssembly,  *)
(* for any items and any confidences: the item kept for an entity is one   *)
(* of the most confident, and the kept items answer for all the others;    *)
(* and the types of MCParts.tla, which composes these parts.               *)
(***************************************************************************)
EXTENDS MCParts, RankingProofs, CalcProofs, CoreProofs, ImportProofs

(* No zone is empty: the division by the zone size is one by a positive    *)
(* number.                                                                 *)
LEMMA ZoneSize ==
  ASSUME NEW zones \in Nat, 1 <= zones, zones <= 65535
  PROVE  65536 \div zones \in Nat \ {0}
<1>1. 65536 \div zones \in Nat
  BY SMT
<1>2. ASSUME 65536 \div zones = 0 PROVE FALSE
  <2>1. 65536 % zones = 65536 - zones * (65536 \div zones)
    BY SMT
  <2>2. 65536 % zones < zones
    BY SMT
  <2> QED BY <1>2, <2>1, <2>2, SMT
<1> QED BY <1>1, <1>2

LEMMA Quotient ==
  ASSUME NEW n \in Nat, NEW width \in Nat \ {0}
  PROVE  n \div width \in Nat
  BY SMT

(* The cut-offs of Python and the conversions of C++ come to the same.     *)
LEMMA ZonesAgree ==
  ASSUME NEW val \in Int, -32768 <= val, val <= 32767,
         NEW zones \in Nat, 1 <= zones, zones <= 65535
  PROVE  /\ PythonZone(val, zones) = CppZone(val, zones)
         /\ PythonZone(val, zones) \in 0..(zones - 1)
<1> DEFINE found == (val + 32768) \div (65536 \div zones)
<1>1. AtMost(65535, AtLeast(0, val + 32768)) = val + 32768 /\ val + 32768 \in Nat
  BY DEF AtMost, AtLeast
<1>2. found \in Nat
  BY <1>1, ZoneSize, Quotient
<1>3. PythonZone(val, zones) = AtMost(zones - 1, found)
  <2>1. PythonZone(val, zones)
          = AtMost(zones - 1, AtMost(65535, AtLeast(0, val + 32768)) \div (65536 \div zones))
    BY DEF PythonZone
  <2> QED BY <1>1, <2>1
<1>4. CppZone(val, zones) = (IF found >= zones THEN zones - 1 ELSE found) % 65536
  BY DEF CppZone
<1> HIDE DEF found
<1> DEFINE kept == IF found >= zones THEN zones - 1 ELSE found
<1>5. kept \in Nat /\ kept <= 65534 /\ kept <= zones - 1 /\ AtMost(zones - 1, found) = kept
  BY <1>2 DEF AtMost
<1> HIDE DEF kept
<1>6. kept % 65536 = kept
  BY <1>5, SMT
<1>7. CppZone(val, zones) = kept % 65536
  BY <1>4 DEF kept
<1> QED BY <1>3, <1>5, <1>6, <1>7

MappingInv ==
  /\ value \in Int /\ -32768 <= value /\ value <= 32767
  /\ num_zones \in ZoneNumbers
  /\ num_zones \in Nat /\ 1 <= num_zones /\ num_zones <= 65535
  /\ py = PythonZone(value, num_zones)
  /\ cpp = CppZone(value, num_zones)

LEMMA MappingInitInv == MappingInit => MappingInv
<1> SUFFICES ASSUME MappingInit PROVE MappingInv
  OBVIOUS
<1>1. num_zones \in ZoneNumbers /\ value = -32768
  BY DEF MappingInit
<1>2. num_zones \in Nat /\ 1 <= num_zones /\ num_zones <= 65535
  BY <1>1, ZonesAssumption
<1> QED BY <1>1, <1>2 DEF MappingInit, MappingInv

LEMMA MappingStepInv == MappingInv /\ [MappingNext]_mappingVars => MappingInv'
<1> SUFFICES ASSUME MappingInv, [MappingNext]_mappingVars PROVE MappingInv'
  OBVIOUS
<1>1. CASE Scan
  BY <1>1 DEF Scan, MappingInv
<1>2. CASE UNCHANGED mappingVars
  BY <1>2 DEF mappingVars, MappingInv
<1> QED BY <1>1, <1>2 DEF MappingNext

LEMMA MappingTypes == MappingInv => MappingTypeOK
<1> SUFFICES ASSUME MappingInv PROVE MappingTypeOK
  OBVIOUS
<1>1. PICK val \in Int, zones \in Nat : val = value /\ zones = num_zones
  BY DEF MappingInv
<1>2. -32768 <= val /\ val <= 32767 /\ 1 <= zones /\ zones <= 65535
  BY <1>1 DEF MappingInv
<1>3. PythonZone(val, zones) \in 0..(zones - 1) /\ PythonZone(val, zones) = CppZone(val, zones)
  BY <1>2, ZonesAgree
<1>4. py = PythonZone(val, zones) /\ cpp = CppZone(val, zones) /\ zones \in ZoneNumbers
  BY <1>1 DEF MappingInv
<1> QED BY <1>1, <1>2, <1>3, <1>4 DEF MappingTypeOK

(* dim_to_zone in embedding/service.py and in state_to_hierarchy.cpp: both *)
(* place every value of an int16 in the same zone, however many zones      *)
(* there are, whether or not their number divides 65,536.                  *)
THEOREM MappingAgrees == MappingSpec => []SameZone
<1>1. MappingInv => SameZone
  BY ZonesAgree DEF MappingInv, SameZone
<1> QED BY <1>1, MappingInitInv, MappingStepInv, PTL DEF MappingSpec

-----------------------------------------------------------------------------
(* How far the clock of a dispatcher can be where it stands. *)
Latest == Later(HealthTimeout, setting.fail_fast + AttemptTimeout + 150)

TimingInv ==
  /\ setting \in Settings
  /\ elapsed \in Nat /\ busy \in Nat /\ unsent \in Nat
  /\ attempt \in Nat /\ attempt <= setting.retries
  /\ timing \in {"health", "loop", "failed", "ok", "recorded"}
  /\ timing = "health" => elapsed = 0
  /\ timing \in {"loop", "recorded"} => elapsed <= Latest
  /\ timing = "failed" => elapsed <= setting.fail_fast + AttemptTimeout

(* The doubling is a recursive function: it exists, and so it has the      *)
(* values it is given by.                                                  *)
LEMMA Doubling ==
  /\ Doubled[0] = 1
  /\ \A n \in Nat : Doubled[n] \in Nat /\ Doubled[n + 1] = 2 * Doubled[n]
<1> DEFINE step == [p \in Nat \X Nat |-> 2 * p[1]]
           Follows(g) == g = [n \in Nat |-> IF n = 0 THEN 1 ELSE 2 * g[n - 1]]
<1>1. PICK f : Recurs(f, Nat, 1, step)
  <2>1. step \in [Nat \X Nat -> Nat] /\ 1 \in Nat
    OBVIOUS
  <2> HIDE DEF step
  <2> QED BY <2>1, RecursionOnNat
<1>2. \A n \in Nat : f[n + 1] = 2 * f[n]
  <2>1. \A a, b \in Nat : step[<<a, b>>] = 2 * a
    OBVIOUS
  <2> HIDE DEF step
  <2>2. ASSUME NEW n \in Nat PROVE f[n + 1] = 2 * f[n]
    <3>1. n + 1 \in Nat /\ f[n] \in Nat
      BY <1>1 DEF Recurs
    <3>2. f[n + 1] = step[<<f[n], n + 1>>]
      BY <1>1 DEF Recurs
    <3> QED BY <2>1, <3>1, <3>2
  <2> QED BY <2>2
<1>3. Follows(f)
  <2>1. ASSUME NEW n \in Nat PROVE f[n] = IF n = 0 THEN 1 ELSE 2 * f[n - 1]
    <3>1. CASE n = 0
      BY <3>1, <1>1 DEF Recurs
    <3>2. CASE n # 0
      <4>1. n - 1 \in Nat /\ n - 1 + 1 = n
        BY <3>2
      <4> QED BY <3>2, <4>1, <1>2
    <3> QED BY <3>1, <3>2
  <2>2. f \in [Nat -> Nat]
    BY <1>1 DEF Recurs
  <2> QED BY <2>1, <2>2
<1>4. Follows(Doubled)
  <2> HIDE DEF Follows
  <2>1. Doubled = CHOOSE g : Follows(g)
    BY Zenon DEF Doubled, Follows
  <2> QED BY <1>3, <2>1
<1>5. \A n \in Nat : Doubled[n] = IF n = 0 THEN 1 ELSE 2 * Doubled[n - 1]
  BY <1>4
<1>6. \A n \in Nat : Doubled[n + 1] = 2 * Doubled[n]
  <2>1. ASSUME NEW n \in Nat PROVE Doubled[n + 1] = 2 * Doubled[n]
    <3>1. n + 1 \in Nat /\ n + 1 # 0 /\ n + 1 - 1 = n
      OBVIOUS
    <3> QED BY <1>5, <3>1
  <2> QED BY <2>1
<1>7. Doubled[0] = 1
  BY <1>5
<1>8. {n \in Nat : Doubled[n] \in Nat} = Nat
  <2> DEFINE T == {n \in Nat : Doubled[n] \in Nat}
  <2>1. T \in SUBSET Nat /\ 0 \in T /\ \A n \in T : n + 1 \in T
    BY <1>6, <1>7
  <2> HIDE DEF T
  <2>2. T = Nat
    BY <2>1, SetInduction
  <2> QED BY <2>2 DEF T
<1> QED BY <1>6, <1>7, <1>8

LEMMA DoublingGrows == \A n \in Nat : n >= 2 => Doubled[n] >= 4
<1> DEFINE T == {n \in Nat : n >= 2 => Doubled[n] >= 4}
<1>1. T \in SUBSET Nat /\ 0 \in T
  OBVIOUS
<1>2. ASSUME NEW n \in T PROVE n + 1 \in T
  <2>1. Doubled[1] = 2 * Doubled[0] /\ Doubled[2] = 2 * Doubled[1]
    <3>1. Doubled[0 + 1] = 2 * Doubled[0] /\ Doubled[1 + 1] = 2 * Doubled[1]
      BY Doubling
    <3> QED BY <3>1
  <2>2. n + 1 = 2 => Doubled[n + 1] = 4
    BY <2>1, Doubling
  <2>3. Doubled[n + 1] = 2 * Doubled[n] /\ Doubled[n] \in Nat
    BY Doubling
  <2> QED BY <2>2, <2>3
<1>3. T = Nat
  <2> HIDE DEF T
  <2> QED BY <1>1, <1>2, SetInduction
<1> QED BY <1>3

(* A pause is at most 1.5 seconds, whatever the backoff and the attempt;   *)
(* with a backoff of at least 0.1 s it is at least as long, and from the   *)
(* third on at least four times as long.                                   *)
LEMMA PauseIsBounded ==
  ASSUME setting \in Settings, attempt \in Nat
  PROVE  /\ Pause \in Nat /\ Pause <= 150
         /\ setting.backoff >= 10 /\ attempt = 0 => Pause >= 10
         /\ setting.backoff >= 10 /\ attempt = 1 => Pause >= 20
         /\ setting.backoff >= 10 /\ attempt >= 2 => Pause >= 40
<1> DEFINE power == Doubled[attempt]
<1>1. setting.backoff \in Nat
  BY TimingAssumption
<1>2. power \in Nat /\ (attempt = 0 => power = 1) /\ (attempt = 1 => power = 2)
      /\ (attempt >= 2 => power >= 4)
  <2>1. Doubled[0 + 1] = 2 * Doubled[0] /\ Doubled[0] = 1
    BY Doubling
  <2>2. Doubled[1] = 2
    BY <2>1
  <2> QED BY <2>1, <2>2, Doubling, DoublingGrows
<1>3. Pause = Smaller(setting.backoff * power, 150)
  BY DEF Pause
<1> HIDE DEF power
<1>4. setting.backoff * power \in Nat
  BY <1>1, <1>2
<1>5. ASSUME NEW least \in {1, 2, 4}, setting.backoff >= 10, power >= least
      PROVE  setting.backoff * power >= 10 * least
  <2>1. setting.backoff * power >= 10 * power
    BY <1>1, <1>2, <1>5, SMT
  <2> QED BY <2>1, <1>2, <1>4, <1>5
<1> QED BY <1>2, <1>3, <1>4, <1>5 DEF Smaller

LEMMA TimingStep == TimingInv /\ [TimingNext]_timingVars => TimingInv'
<1> SUFFICES ASSUME TimingInv, [TimingNext]_timingVars PROVE TimingInv'
  OBVIOUS
<1>0. /\ setting.timeout \in Nat /\ setting.fail_fast \in Nat /\ setting.retries \in Nat
      /\ Durations \subseteq Nat /\ elapsed \in Nat /\ busy \in Nat /\ unsent \in Nat
  BY TimingAssumption DEF TimingInv
<1>1. /\ HealthTimeout \in Nat /\ AttemptTimeout \in Nat /\ PostTimeout \in Nat
      /\ Latest \in Nat /\ HealthTimeout <= Latest
      /\ setting.fail_fast + AttemptTimeout + 150 <= Latest
  BY <1>0 DEF HealthTimeout, AttemptTimeout, PostTimeout, Latest, Smaller, Later
<1>2. setting' = setting => Latest' = Latest /\ AttemptTimeout' = AttemptTimeout
  BY DEF Latest, HealthTimeout, AttemptTimeout
<1>3. \A d \in Durations : /\ Smaller(d, HealthTimeout) \in Nat /\ Smaller(d, PostTimeout) \in Nat
                           /\ Smaller(d, HealthTimeout) <= HealthTimeout
  BY <1>0, <1>1 DEF Smaller
<1>4. Later(busy, elapsed) \in Nat
  BY <1>0 DEF Later
<1>5. CASE CheckHealth
  BY <1>5, <1>1, <1>2, <1>3 DEF CheckHealth, TimingInv
<1>6. CASE FailFast
  BY <1>6, <1>2 DEF FailFast, TimingInv
<1>7. CASE Answered
  <2>1. /\ elapsed' \in Nat /\ busy' \in Nat
        /\ elapsed' <= elapsed + AttemptTimeout /\ elapsed < setting.fail_fast
    <3>1. PICK d \in Durations :
            /\ Later(busy, elapsed) + Smaller(d, PostTimeout) <= elapsed + AttemptTimeout
            /\ elapsed' = Later(busy, elapsed) + Smaller(d, PostTimeout)
            /\ busy' = Later(busy, elapsed) + Smaller(d, PostTimeout)
      BY <1>7 DEF Answered
    <3>2. elapsed < setting.fail_fast
      BY <1>7 DEF Answered, InTime
    <3> QED BY <3>1, <3>2, <1>3, <1>4
  <2>2. setting' = setting /\ attempt' = attempt /\ unsent' = unsent /\ timing' \in {"ok", "failed"}
    BY <1>7 DEF Answered
  <2> QED BY <2>1, <2>2, <1>0, <1>1, <1>2 DEF TimingInv
<1>8. CASE AttemptTimesOut
  BY <1>8, <1>0, <1>1, <1>2, <1>3, <1>4 DEF AttemptTimesOut, InTime, TimingInv
<1>9. CASE Cancelled
  BY <1>9, <1>0, <1>1, <1>2 DEF Cancelled, InTime, TimingInv
<1>10. CASE TryAgain
  <2>1. Pause \in Nat /\ Pause <= 150
    BY PauseIsBounded DEF TimingInv
  <2> QED BY <1>10, <2>1, <1>0, <1>1, <1>2 DEF TryAgain, TimingInv
<1>11. CASE LastAttempt
  BY <1>11, <1>0, <1>1, <1>2 DEF LastAttempt, TimingInv
<1>12. CASE UNCHANGED timingVars
  BY <1>12, <1>2 DEF timingVars, TimingInv
<1> QED BY <1>5, <1>6, <1>7, <1>8, <1>9, <1>10, <1>11, <1>12 DEF TimingNext

LEMMA TimingStart == TimingInit => TimingInv
<1> SUFFICES ASSUME TimingInit PROVE TimingInv
  OBVIOUS
<1>1. setting \in Settings /\ setting.retries \in Nat
  BY TimingAssumption DEF TimingInit
<1> QED BY <1>1 DEF TimingInit, TimingInv

LEMMA TimingTypes == TimingInv => TimingTypeOK
<1> SUFFICES ASSUME TimingInv PROVE TimingTypeOK
  OBVIOUS
<1>1. setting.retries \in Nat
  BY TimingAssumption DEF TimingInv
<1> QED BY <1>1 DEF TimingInv, TimingTypeOK

(* _dispatch_route in api/main.py: whatever the timeout, the retries, the  *)
(* backoff and the fail-fast deadline of a route are, and however long its *)
(* calc service takes, a failure is recorded one attempt and one pause     *)
(* after the deadline at the latest, or right after the health check.      *)
THEOREM FailureIsRecordedInTime == TimingSpec => []RecordedInTime
<1>1. TimingInit => TimingInv
  BY TimingStart
<1>2. TimingInv => RecordedInTime
  BY DEF TimingInv, RecordedInTime, Latest
<1> QED BY <1>1, <1>2, TimingStep, PTL DEF TimingSpec

(* How far the worker can be behind when an attempt begins: each attempt   *)
(* that times out leaves it at most 0.25 s later, each pause lets it catch *)
(* up, and the doubling keeps the pauses ahead of what has gathered.       *)
Behind(n) == IF n = 0 THEN 0 ELSE IF n = 1 THEN 15 ELSE 20

SendInv ==
  setting.timeout >= 90 /\ setting.backoff >= 10 =>
    /\ unsent = 0
    /\ timing = "health" => busy <= elapsed /\ attempt = 0
    /\ timing = "loop" => busy <= elapsed + Behind(attempt)
    /\ timing = "failed" => busy <= elapsed + Behind(attempt) + 25

LEMMA SendStep == TimingInv /\ SendInv /\ [TimingNext]_timingVars => SendInv'
<1> SUFFICES ASSUME TimingInv, SendInv, [TimingNext]_timingVars PROVE SendInv'
  OBVIOUS
<1>1. setting' = setting
  BY DEF TimingNext, timingVars, CheckHealth, FailFast, Answered, AttemptTimesOut, Cancelled,
         TryAgain, LastAttempt
<1> SUFFICES ASSUME setting.timeout >= 90, setting.backoff >= 10
             PROVE  /\ unsent' = 0
                    /\ timing' = "health" => busy' <= elapsed' /\ attempt' = 0
                    /\ timing' = "loop" => busy' <= elapsed' + Behind(attempt')
                    /\ timing' = "failed" => busy' <= elapsed' + Behind(attempt') + 25
  BY <1>1 DEF SendInv
<1>2. /\ setting.timeout \in Nat /\ Durations \subseteq Nat
      /\ elapsed \in Int /\ busy \in Int /\ attempt \in Nat
  BY TimingAssumption DEF TimingInv
<1>3. AttemptTimeout = 90 /\ PostTimeout = 115
  BY <1>2 DEF AttemptTimeout, PostTimeout, Smaller
<1>4. /\ \A d \in Durations : Smaller(d, PostTimeout) \in 0..115
      /\ \A d \in Durations : Smaller(d, HealthTimeout) \in Nat
  BY <1>2, <1>3 DEF Smaller, HealthTimeout
<1>5. Later(busy, elapsed) \in Int /\ Behind(attempt) \in 0..20
  BY <1>2 DEF Later, Behind
<1>6. /\ unsent = 0
      /\ timing = "health" => busy <= elapsed /\ attempt = 0
      /\ timing = "loop" => Later(busy, elapsed) <= elapsed + Behind(attempt)
      /\ timing = "loop" => busy <= elapsed + Behind(attempt)
      /\ timing = "failed" => busy <= elapsed + Behind(attempt) + 25
  BY <1>2, <1>5 DEF SendInv, Later
<1>7. CASE CheckHealth
  <2>1. PICK d \in Durations : elapsed' = Smaller(d, HealthTimeout)
    BY <1>7 DEF CheckHealth
  <2>2. elapsed' >= 0 /\ elapsed' \in Int
    BY <2>1, <1>4
  <2>3. elapsed = 0
    BY <1>7 DEF CheckHealth, TimingInv
  <2> QED BY <1>7, <1>2, <1>6, <2>2, <2>3 DEF CheckHealth, Behind
<1>8. CASE FailFast
  BY <1>8, <1>6 DEF FailFast
<1>9. CASE Answered
  <2>1. elapsed' = busy' /\ elapsed' \in Int
    <3>1. PICK d \in Durations : elapsed' = Later(busy, elapsed) + Smaller(d, PostTimeout)
                              /\ busy' = Later(busy, elapsed) + Smaller(d, PostTimeout)
      BY <1>9 DEF Answered
    <3> QED BY <3>1, <1>4, <1>5
  <2> QED BY <1>9, <2>1, <1>5, <1>6 DEF Answered
<1>10. CASE AttemptTimesOut
  <2>1. PICK d \in Durations : busy' = Later(busy, elapsed) + Smaller(d, PostTimeout)
    BY <1>10 DEF AttemptTimesOut
  <2>2. timing = "loop" /\ elapsed' = elapsed + 90
    BY <1>10, <1>3 DEF AttemptTimesOut, InTime
  <2>3. busy' <= elapsed' + Behind(attempt) + 25
    BY <2>1, <2>2, <1>2, <1>4, <1>5, <1>6
  <2> QED BY <1>10, <2>3, <1>6 DEF AttemptTimesOut
<1>11. CASE Cancelled
  BY <1>11, <1>2, <1>3, <1>5, <1>6 DEF Cancelled, InTime
<1>12. CASE TryAgain
  <2>1. /\ Pause \in Int
        /\ attempt = 0 => Pause >= 10
        /\ attempt = 1 => Pause >= 20
        /\ attempt >= 2 => Pause >= 40
    BY PauseIsBounded DEF TimingInv
  <2>2. busy <= elapsed + Behind(attempt) + 25 /\ elapsed' = elapsed + Pause /\ attempt' = attempt + 1
    BY <1>12, <1>6 DEF TryAgain
  <2>3. busy <= elapsed' + Behind(attempt')
    BY <2>1, <2>2, <1>2 DEF Behind
  <2> QED BY <1>12, <2>3, <1>6 DEF TryAgain
<1>13. CASE LastAttempt
  BY <1>13, <1>6 DEF LastAttempt
<1>14. CASE UNCHANGED timingVars
  BY <1>14, <1>6 DEF timingVars
<1> QED BY <1>7, <1>8, <1>9, <1>10, <1>11, <1>12, <1>13, <1>14 DEF TimingNext

(* _dispatch_route: with a timeout of at least 0.9 s and a backoff of at   *)
(* least 0.1 s no attempt is used up without the calc service being asked, *)
(* however many retries the route has: a POST that outlives its attempt    *)
(* has always ended before the next attempt would give up as well.         *)
THEOREM AttemptsAreSent == TimingSpec => []EveryAttemptIsSent
<1>1. TimingInit => TimingInv /\ SendInv
  BY TimingStart DEF TimingInit, SendInv
<1>2. SendInv => EveryAttemptIsSent
  BY DEF SendInv, EveryAttemptIsSent
<1> QED BY <1>1, <1>2, TimingStep, SendStep, PTL DEF TimingSpec

-----------------------------------------------------------------------------
StressTypeInv ==
  /\ test \in {"load", "sustained"} /\ window \in BOOLEAN
  /\ query_count \in Nat /\ query_count <= MaxQueries
  /\ call \in [1..MaxQueries -> {"none", "queued", "submit", "poll"} \union Finished]
  /\ futures \subseteq Asked
  /\ counted \in [1..MaxQueries -> Nat]
  /\ testing \in {"fill", "collect", "exit", "done"}

JobTypes == job \in [1..MaxQueries -> {"none", "accepted", "assembled"}]

(* A query is either still looked at or counted once. *)
CountInv ==
  \A q \in Asked : \/ q \in futures /\ counted[q] = 0
                   \/ q \notin futures /\ counted[q] = 1

NotAskedInv == \A q \in 1..MaxQueries : q \notin Asked => counted[q] = 0

(* The load test has asked everything when it collects, and collects       *)
(* everything; the sustained test never looks at more than its queue.      *)
FuturesInv ==
  /\ test = "load" /\ testing # "fill" => query_count = MaxQueries
  /\ test = "load" /\ testing \in {"exit", "done"} => futures = {}
  /\ test = "sustained" => Cardinality(futures) <= QueueLength

StressInv == StressTypeInv /\ CountInv /\ NotAskedInv /\ FuturesInv

LEMMA AskedIsFinite ==
  ASSUME StressTypeInv
  PROVE  /\ Asked \subseteq 1..MaxQueries
         /\ \A S \in SUBSET Asked : IsFiniteSet(S) /\ Cardinality(S) \in Nat
<1>1. Asked \subseteq 1..MaxQueries
  BY StressAssumption DEF StressTypeInv, Asked
<1>2. IsFiniteSet(Asked)
  BY FS_Interval DEF StressTypeInv, Asked
<1>3. \A S \in SUBSET Asked : IsFiniteSet(S)
  BY <1>2, FS_Subset
<1> QED BY <1>1, <1>3, FS_CardinalityType

LEMMA StressInitInv == StressInit => StressInv
<1> SUFFICES ASSUME StressInit PROVE StressInv
  OBVIOUS
<1>1. Asked = {}
  BY DEF StressInit, Asked
<1>2. StressTypeInv
  BY <1>1, StressAssumption DEF StressInit, StressTypeInv
<1>3. CountInv /\ NotAskedInv
  BY <1>1 DEF StressInit, CountInv, NotAskedInv
<1>4. FuturesInv
  BY FS_EmptySet, StressAssumption DEF StressInit, FuturesInv
<1> QED BY <1>2, <1>3, <1>4 DEF StressInv

(* What the workers and the pipeline do leaves main's books alone. *)
LEMMA CallInv ==
  ASSUME StressInv, CallStep \/ \E q \in Asked : JobAssembled(q)
  PROVE  StressInv'
<1>1. UNCHANGED <<test, window, query_count, futures, counted, testing>>
  BY DEF CallStep, TakeCall, PostQuery, PollSucceeds, PollTimesOut, JobAssembled
<1>2. call' \in [1..MaxQueries -> {"none", "queued", "submit", "poll"} \union Finished]
  BY AskedIsFinite
     DEF StressInv, StressTypeInv, Finished,
         CallStep, TakeCall, PostQuery, PollSucceeds, PollTimesOut, JobAssembled
<1>3. Asked' = Asked
  BY <1>1 DEF Asked
<1> QED BY <1>1, <1>2, <1>3
        DEF StressInv, StressTypeInv, CountInv, NotAskedInv, FuturesInv

(* executor.submit: one query and one future more. *)
LEMMA SubmitInv ==
  ASSUME StressInv, SubmitCall
  PROVE  StressInv'
<1> DEFINE next == query_count + 1
<1>0. /\ query_count \in Nat /\ MaxQueries \in Nat /\ query_count < MaxQueries
      /\ QueueLength \in Nat /\ futures \subseteq Asked
      /\ counted \in [1..MaxQueries -> Nat]
  BY StressAssumption DEF StressInv, StressTypeInv, SubmitCall, MayAsk
<1>1. /\ query_count' = next /\ futures' = futures \union {next}
      /\ call' = [call EXCEPT ![next] = "queued"]
      /\ testing = "fill" /\ UNCHANGED <<test, window, counted, testing>>
  BY DEF SubmitCall
<1>2. Asked' = Asked \union {next} /\ next \notin Asked /\ next \in 1..MaxQueries
  BY <1>0, <1>1 DEF Asked
<1>3. StressTypeInv'
  <2>1. call' \in [1..MaxQueries -> {"none", "queued", "submit", "poll"} \union Finished]
    BY <1>1 DEF StressInv, StressTypeInv
  <2>2. query_count' \in Nat /\ query_count' <= MaxQueries
    BY <1>0, <1>1
  <2>3. futures' \subseteq Asked'
    BY <1>0, <1>1, <1>2
  <2> QED BY <2>1, <2>2, <2>3, <1>1 DEF StressInv, StressTypeInv
<1>4. counted[next] = 0
  BY <1>2 DEF StressInv, NotAskedInv
<1>5. CountInv'
  BY <1>0, <1>1, <1>2, <1>4 DEF StressInv, CountInv
<1>6. NotAskedInv'
  BY <1>1, <1>2 DEF StressInv, NotAskedInv
<1>7. FuturesInv'
  <2>1. ASSUME test = "sustained" PROVE Cardinality(futures') <= QueueLength
    <3>1. Cardinality(futures) < QueueLength
      BY <2>1 DEF SubmitCall, MayAsk
    <3>2. IsFiniteSet(futures) /\ Cardinality(futures) \in Nat /\ next \notin futures
      BY <1>0, <1>2, AskedIsFinite DEF StressInv
    <3>3. Cardinality(futures') = Cardinality(futures) + 1
      BY <3>2, <1>1, FS_AddElement
    <3> QED BY <3>1, <3>2, <3>3, <1>0
  <2> QED BY <2>1, <1>1 DEF StressInv, FuturesInv
<1> QED BY <1>3, <1>5, <1>6, <1>7 DEF StressInv

(* The loop over the futures: those that are done are counted and go. *)
LEMMA CollectInv ==
  ASSUME StressInv, CollectNext \/ CollectDone
  PROVE  StressInv'
<1>0. /\ futures \subseteq Asked /\ Asked \subseteq 1..MaxQueries
      /\ counted \in [1..MaxQueries -> Nat] /\ QueueLength \in Nat
      /\ Done \subseteq futures
  BY AskedIsFinite, StressAssumption DEF StressInv, StressTypeInv, Done
<1>1. /\ UNCHANGED <<test, window, query_count, call>> /\ testing = "collect"
      /\ testing' \in {"collect", "fill", "exit"}
      /\ test = "load" => testing' = "collect"
  BY DEF CollectNext, CollectDone
<1>2. Asked' = Asked
  BY <1>1 DEF Asked
<1>3. PICK gone \in SUBSET Done :
        /\ futures' = futures \ gone
        /\ counted' = [q \in 1..MaxQueries |-> counted[q] + IF q \in gone THEN 1 ELSE 0]
  <2>1. CASE CollectDone
    BY <2>1 DEF CollectDone, Remaining
  <2>2. CASE CollectNext
    <3>1. PICK q \in Done : /\ counted' = [counted EXCEPT ![q] = @ + 1]
                            /\ futures' = futures \ {q}
      BY <2>2 DEF CollectNext
    <3>2. counted' = [p \in 1..MaxQueries |-> counted[p] + IF p \in {q} THEN 1 ELSE 0]
      <4>1. q \in 1..MaxQueries
        BY <3>1, <1>0
      <4>2. \A p \in 1..MaxQueries : p # q => counted[p] + 0 = counted[p]
        BY <1>0
      <4> QED BY <3>1, <4>1, <4>2, <1>0
    <3> WITNESS {q} \in SUBSET Done
    <3> QED BY <3>1, <3>2
  <2> QED BY <2>1, <2>2
<1>4. \A q \in 1..MaxQueries :
        /\ q \in gone => counted'[q] = counted[q] + 1
        /\ q \notin gone => counted'[q] = counted[q]
  BY <1>0, <1>3
<1>5. StressTypeInv'
  <2>1. counted' \in [1..MaxQueries -> Nat]
    BY <1>0, <1>3
  <2> QED BY <2>1, <1>0, <1>1, <1>2, <1>3 DEF StressInv, StressTypeInv
<1>6. CountInv'
  BY <1>0, <1>2, <1>3, <1>4 DEF StressInv, CountInv
<1>7. NotAskedInv'
  BY <1>0, <1>2, <1>3, <1>4 DEF StressInv, NotAskedInv
<1>8. FuturesInv'
  <2>1. Cardinality(futures') <= Cardinality(futures)
        /\ Cardinality(futures') \in Nat /\ Cardinality(futures) \in Nat
    BY <1>0, <1>3, AskedIsFinite, FS_Subset DEF StressInv
  <2> QED BY <2>1, <1>0, <1>1 DEF StressInv, FuturesInv
<1> QED BY <1>5, <1>6, <1>7, <1>8 DEF StressInv

LEMMA StressStep == StressInv /\ [StressNext]_stressVars => StressInv'
<1> SUFFICES ASSUME StressInv, [StressNext]_stressVars PROVE StressInv'
  OBVIOUS
<1>1. ASSUME CloseWindow \/ StopFilling \/ LoadCollected \/ ExitExecutor
      PROVE  StressInv'
  <2>1. UNCHANGED <<test, query_count, call, futures, counted>>
    BY <1>1 DEF CloseWindow, StopFilling, LoadCollected, ExitExecutor
  <2>2. Asked' = Asked
    BY <2>1 DEF Asked
  <2>3. window' \in BOOLEAN /\ testing' \in {"fill", "collect", "exit", "done"}
    BY <1>1 DEF StressInv, StressTypeInv, CloseWindow, StopFilling, LoadCollected, ExitExecutor
  <2>4. FuturesInv'
    <3>1. CASE CloseWindow \/ LoadCollected \/ ExitExecutor
      BY <3>1, <2>1 DEF StressInv, FuturesInv, CloseWindow, LoadCollected, ExitExecutor
    <3>2. CASE StopFilling
      BY <3>2, <2>1, StressAssumption
         DEF StressInv, StressTypeInv, FuturesInv, StopFilling, MayAsk
    <3> QED BY <1>1, <3>1, <3>2
  <2> QED BY <2>1, <2>2, <2>3, <2>4 DEF StressInv, StressTypeInv, CountInv, NotAskedInv
<1>2. CASE UNCHANGED stressVars
  BY <1>2 DEF stressVars, StressInv, StressTypeInv, CountInv, NotAskedInv, FuturesInv, Asked
<1> QED BY <1>1, <1>2, CallInv, SubmitInv, CollectInv DEF StressNext, TestStep

LEMMA StressJobs ==
  /\ StressInit => JobTypes
  /\ JobTypes /\ [StressNext]_stressVars => JobTypes'
<1>1. StressInit => JobTypes
  BY DEF StressInit, JobTypes
<1>2. ASSUME JobTypes, [StressNext]_stressVars PROVE JobTypes'
  BY <1>2
     DEF JobTypes, StressNext, CallStep, TestStep, stressVars, TakeCall, PostQuery,
         PollSucceeds, PollTimesOut, JobAssembled, CloseWindow, SubmitCall, StopFilling,
         CollectNext, LoadCollected, CollectDone, ExitExecutor
<1> QED BY <1>1, <1>2

LEMMA StressTypes == StressInv /\ JobTypes => StressTypeOK
<1> SUFFICES ASSUME StressInv, JobTypes PROVE StressTypeOK
  OBVIOUS
<1>1. query_count \in 0..MaxQueries
  BY StressAssumption DEF StressInv, StressTypeInv
<1> QED BY <1>1 DEF StressInv, StressTypeInv, JobTypes, StressTypeOK

(* real_stress_benchmark.py: for any number of queries, workers and        *)
(* futures no query is counted twice, a load test counts each, and the     *)
(* sustained test leaves out no more than its queue holds.                 *)
THEOREM QueriesAreCounted == StressSpec => []CountsEveryQuery
<1>1. StressInv => CountsEveryQuery
  <2> SUFFICES ASSUME StressInv, testing = "done" PROVE CountsEveryQuery
    BY DEF CountsEveryQuery
  <2>1. {q \in Asked : counted[q] = 0} = futures
    BY DEF StressInv, StressTypeInv, CountInv
  <2>2. \A q \in Asked : counted[q] <= 1
    BY DEF StressInv, CountInv
  <2>3. test = "load" => Asked = 1..MaxQueries /\ futures = {}
    BY DEF StressInv, FuturesInv, Asked
  <2>4. Cardinality(futures) <= QueueLength
    <3>1. CASE test = "sustained"
      BY <3>1 DEF StressInv, FuturesInv
    <3>2. CASE test = "load"
      <4>1. Cardinality(futures) = 0
        BY <2>3, <3>2, FS_EmptySet
      <4> QED BY <4>1, StressAssumption
    <3> QED BY <3>1, <3>2 DEF StressInv, StressTypeInv
  <2> QED BY <2>1, <2>2, <2>3, <2>4 DEF CountsEveryQuery
<1> QED BY <1>1, StressInitInv, StressStep, PTL DEF StressSpec

-----------------------------------------------------------------------------
(* An entity is represented by one of its own items, and what the loop has *)
(* seen without entity is passed through; the sections follow from that.   *)
AssemblyInv ==
  /\ AssemblyTypeOK
  /\ HighestConfidenceWins
  /\ \A e \in Entities : byEntity[e] # 0 => items[byEntity[e]].entity = e
  /\ \A i \in 1..handled : items[i].entity = NoEntity => i \in passthrough
  /\ divided => handled = Len(items)
  /\ divided => main = {i \in Kept : items[i].content # Empty /\ InMainText(i)}
  /\ divided => low = {i \in Kept : items[i].content # Empty /\ ~ InMainText(i)}

LEMMA AssemblyInitInv == AssemblyInit => AssemblyInv
<1> SUFFICES ASSUME AssemblyInit PROVE AssemblyInv
  OBVIOUS
<1>1. items \in Seq(Item)
  <2>1. PICK n \in Nat : items \in [1..n -> Item]
    BY AssemblyAssumption DEF AssemblyInit
  <2> QED
    BY <2>1
<1>2. handled = 0 /\ divided = FALSE
  BY DEF AssemblyInit
<1>3. \A e \in Entities : byEntity[e] = 0
  BY DEF AssemblyInit
<1>4. AssemblyTypeOK
  <2>1. byEntity \in [Entities -> 0..handled]
    BY <1>2 DEF AssemblyInit
  <2>2. handled \in 0..Len(items)
    BY <1>1, <1>2
  <2> QED
    BY <1>1, <2>1, <2>2 DEF AssemblyTypeOK, AssemblyInit
<1> QED
  BY <1>2, <1>3, <1>4 DEF AssemblyInv, HighestConfidenceWins

(* The types of what an item consists of. *)
LEMMA ItemTypes ==
  ASSUME AssemblyTypeOK, NEW i \in 1..Len(items)
  PROVE  /\ items[i].entity \in Entities \union {NoEntity}
         /\ items[i].conf \in Nat
<1>1. items[i] \in Item
  BY DEF AssemblyTypeOK
<1> QED
  BY <1>1, AssemblyAssumption DEF Item

LEMMA PassThroughStep == AssemblyInv /\ PassThrough => AssemblyInv'
<1> SUFFICES ASSUME AssemblyInv, PassThrough PROVE AssemblyInv'
  OBVIOUS
<1> USE DEF AssemblyInv
<1>1. handled \in Nat /\ handled' = handled + 1 /\ handled' \in 0..Len(items) /\ items' = items
      /\ byEntity' = byEntity /\ divided' = divided /\ main' = main /\ low' = low
  BY DEF PassThrough, AssemblyTypeOK
<1>2. ~ divided
  BY DEF PassThrough, AssemblyTypeOK
<1>3. AssemblyTypeOK'
  BY <1>1 DEF PassThrough, AssemblyTypeOK
<1>4. items[handled + 1].entity \notin Entities
  BY AssemblyAssumption DEF PassThrough
<1>5. HighestConfidenceWins'
  BY <1>1, <1>4 DEF HighestConfidenceWins
<1>6. (\A i \in 1..handled : items[i].entity = NoEntity => i \in passthrough)'
  BY <1>1 DEF PassThrough
<1> QED
  BY <1>1, <1>2, <1>3, <1>5, <1>6

(* Keep: either there was no item of the entity, or the new one is more    *)
(* confident; a close tie needs a higher source, and an entity has one.    *)
LEMMA KeepStep == AssemblyInv /\ Keep => AssemblyInv'
<1> SUFFICES ASSUME AssemblyInv, Keep PROVE AssemblyInv'
  OBVIOUS
<1> USE DEF AssemblyInv
<1> DEFINE e == items[handled + 1].entity
<1>1. handled \in Nat /\ handled' = handled + 1 /\ handled' \in 0..Len(items) /\ items' = items
      /\ passthrough' = passthrough /\ divided' = divided /\ main' = main /\ low' = low
  BY DEF Keep, AssemblyTypeOK
<1>2. ~ divided
  BY DEF Keep, AssemblyTypeOK
<1>3. e \in Entities /\ e # NoEntity
  BY AssemblyAssumption DEF Keep
<1>4. /\ byEntity' = [byEntity EXCEPT ![e] = handled + 1]
      /\ byEntity \in [Entities -> 0..handled]
      /\ byEntity' \in [Entities -> 0..handled']
      /\ byEntity'[e] = handled + 1
      /\ \A f \in Entities \ {e} : byEntity'[f] = byEntity[f]
  <2>1. byEntity' = [byEntity EXCEPT ![e] = handled + 1]
    BY DEF Keep
  <2>2. byEntity \in [Entities -> 0..handled]
    BY DEF AssemblyTypeOK
  <2> QED
    BY <1>1, <1>3, <2>1, <2>2
<1>5. AssemblyTypeOK'
  BY <1>1, <1>4 DEF AssemblyTypeOK
<1>6. byEntity[e] # 0 => items[handled + 1].conf >= items[byEntity[e]].conf
  <2> SUFFICES ASSUME byEntity[e] # 0 PROVE items[handled + 1].conf >= items[byEntity[e]].conf
    OBVIOUS
  <2>1. Replaces(handled + 1, byEntity[e])
    BY DEF Keep
  <2>2. items[byEntity[e]].entity = e
    BY <1>3
  <2>3. Source[e] \in Int
    BY <1>3, AssemblyAssumption
  <2>4. items[handled + 1].conf > items[byEntity[e]].conf
    BY <2>1, <2>2, <2>3 DEF Replaces
  <2>5. byEntity[e] \in 1..Len(items) /\ handled + 1 \in 1..Len(items)
    BY <1>1, <1>3, <1>4
  <2> QED
    BY <2>4, <2>5, ItemTypes
<1>7. HighestConfidenceWins'
  <2> SUFFICES ASSUME NEW i \in 1..handled', items[i].entity \in Entities
               PROVE  LET k == byEntity'[items[i].entity] IN
                        k # 0 /\ items[k].entity = items[i].entity
                        /\ items[k].conf >= items[i].conf
    BY <1>1 DEF HighestConfidenceWins
  <2>1. CASE i = handled + 1
    BY <2>1, <1>1, <1>4, ItemTypes
  <2>2. CASE i \in 1..handled /\ items[i].entity # e
    BY <2>2, <1>4 DEF HighestConfidenceWins
  <2>3. CASE i \in 1..handled /\ items[i].entity = e
    <3>1. byEntity[e] # 0 /\ items[byEntity[e]].conf >= items[i].conf
      BY <2>3 DEF HighestConfidenceWins
    <3>2. byEntity[e] \in 1..Len(items) /\ handled + 1 \in 1..Len(items) /\ i \in 1..Len(items)
      BY <1>1, <1>3, <1>4, <3>1
    <3>3. items[byEntity[e]].conf \in Nat /\ items[handled + 1].conf \in Nat /\ items[i].conf \in Nat
      BY <3>2, ItemTypes
    <3>4. items[handled + 1].conf >= items[i].conf
      BY <1>6, <3>1, <3>3
    <3> QED
      BY <3>4, <2>3, <1>4, <1>1
  <2> QED
    BY <1>1, <2>1, <2>2, <2>3
<1>8. (\A f \in Entities : byEntity[f] # 0 => items[byEntity[f]].entity = f)'
  BY <1>1, <1>4
<1>9. (\A i \in 1..handled : items[i].entity = NoEntity => i \in passthrough)'
  BY <1>1, <1>3
<1> QED
  BY <1>1, <1>2, <1>5, <1>7, <1>8, <1>9

(* Drop: the kept item is at least as confident. *)
LEMMA DropStep == AssemblyInv /\ Drop => AssemblyInv'
<1> SUFFICES ASSUME AssemblyInv, Drop PROVE AssemblyInv'
  OBVIOUS
<1> USE DEF AssemblyInv
<1> DEFINE e == items[handled + 1].entity
<1>1. handled \in Nat /\ handled' = handled + 1 /\ handled' \in 0..Len(items) /\ items' = items
      /\ byEntity' = byEntity /\ passthrough' = passthrough
      /\ divided' = divided /\ main' = main /\ low' = low
  BY DEF Drop, AssemblyTypeOK
<1>2. ~ divided
  BY DEF Drop, AssemblyTypeOK
<1>3. e \in Entities /\ e # NoEntity
  BY AssemblyAssumption DEF Drop
<1>4. AssemblyTypeOK'
  BY <1>1 DEF AssemblyTypeOK
<1>5. byEntity[e] # 0 /\ ~ (items[handled + 1].conf > items[byEntity[e]].conf)
  BY DEF Drop, Replaces
<1>6. byEntity[e] \in 1..Len(items) /\ handled + 1 \in 1..Len(items)
  BY <1>1, <1>3, <1>5 DEF AssemblyTypeOK
<1>7. items[byEntity[e]].conf >= items[handled + 1].conf
  BY <1>5, <1>6, ItemTypes
<1>8. HighestConfidenceWins'
  <2> SUFFICES ASSUME NEW i \in 1..handled', items[i].entity \in Entities
               PROVE  LET k == byEntity[items[i].entity] IN
                        k # 0 /\ items[k].entity = items[i].entity
                        /\ items[k].conf >= items[i].conf
    BY <1>1 DEF HighestConfidenceWins
  <2>1. CASE i = handled + 1
    BY <2>1, <1>3, <1>5, <1>7
  <2>2. CASE i \in 1..handled
    BY <2>2 DEF HighestConfidenceWins
  <2> QED
    BY <1>1, <2>1, <2>2
<1>9. (\A i \in 1..handled : items[i].entity = NoEntity => i \in passthrough)'
  BY <1>1, <1>3
<1> QED
  BY <1>1, <1>2, <1>4, <1>8, <1>9

LEMMA DivideStep == AssemblyInv /\ Divide => AssemblyInv'
<1> SUFFICES ASSUME AssemblyInv, Divide PROVE AssemblyInv'
  OBVIOUS
<1> USE DEF AssemblyInv
<1>1. handled = Len(items) /\ UNCHANGED <<items, handled, byEntity, passthrough>> /\ divided' = TRUE
  BY DEF Divide
<1>2. Kept \subseteq 1..Len(items)
  <2>1. handled \in Nat /\ byEntity \in [Entities -> 0..handled] /\ passthrough \subseteq 1..handled
    BY DEF AssemblyTypeOK
  <2>2. \A f \in Entities : byEntity[f] # 0 => byEntity[f] \in 1..handled
    BY <2>1
  <2> QED
    BY <1>1, <2>1, <2>2 DEF Kept
<1>3. Kept' = Kept
  BY <1>1 DEF Kept
<1>4. /\ main' = {i \in Kept : items[i].content # Empty /\ InMainText(i)}
      /\ low' = {i \in Kept : items[i].content # Empty /\ ~ InMainText(i)}
  BY DEF Divide
<1>5. AssemblyTypeOK'
  BY <1>1, <1>2, <1>4 DEF AssemblyTypeOK
<1>6. HighestConfidenceWins'
  BY <1>1 DEF HighestConfidenceWins
<1>7. /\ main' = {i \in Kept' : items'[i].content # Empty /\ InMainText(i)'}
      /\ low' = {i \in Kept' : items'[i].content # Empty /\ ~ InMainText(i)'}
  BY <1>1, <1>3, <1>4 DEF InMainText
<1> QED
  BY <1>1, <1>5, <1>6, <1>7

LEMMA AssemblyStepInv == AssemblyInv /\ [AssemblyNext]_assemblyVars => AssemblyInv'
<1> SUFFICES ASSUME AssemblyInv, [AssemblyNext]_assemblyVars PROVE AssemblyInv'
  OBVIOUS
<1>1. CASE AssemblyNext
  BY <1>1, PassThroughStep, KeepStep, DropStep, DivideStep DEF AssemblyNext
<1>2. CASE UNCHANGED assemblyVars
  BY <1>2 DEF assemblyVars, AssemblyInv, AssemblyTypeOK, HighestConfidenceWins, Kept, InMainText
<1> QED
  BY <1>1, <1>2

LEMMA Vanishing == AssemblyInv => NothingVanishes
<1> SUFFICES ASSUME AssemblyInv, divided, NEW i \in 1..Len(items)
             PROVE  \E k \in 1..Len(items) :
                      /\ k = i \/ (items[k].entity = items[i].entity /\ items[i].entity # NoEntity)
                      /\ items[k].content # Empty =>
                           IF items[k].code \/ items[k].conf >= Threshold
                             THEN k \in main \ low
                             ELSE k \in low \ main
  BY DEF NothingVanishes
<1>1. handled = Len(items)
  BY DEF AssemblyInv
<1>2. \A k \in Kept : items[k].content # Empty =>
        IF items[k].code \/ items[k].conf >= Threshold
          THEN k \in main \ low
          ELSE k \in low \ main
  BY DEF AssemblyInv, InMainText
<1>3. CASE items[i].entity = NoEntity
  BY <1>1, <1>2, <1>3 DEF AssemblyInv, Kept
<1>4. CASE items[i].entity \in Entities
  <2> DEFINE k == byEntity[items[i].entity]
  <2>1. k # 0 /\ items[k].entity = items[i].entity
    BY <1>1, <1>4 DEF AssemblyInv, HighestConfidenceWins
  <2>2. k \in 1..Len(items)
    BY <1>1, <1>4, <2>1 DEF AssemblyInv, AssemblyTypeOK
  <2>3. k \in Kept
    BY <1>4, <2>1 DEF Kept
  <2>4. items[i].entity # NoEntity
    BY <1>4, AssemblyAssumption
  <2> QED
    BY <1>2, <2>1, <2>2, <2>3, <2>4
<1> QED
  BY <1>3, <1>4, ItemTypes DEF AssemblyInv

(* At every point of the loop the item kept for an entity is at least as   *)
(* confident as every item of it seen so far (_deduplicate_conflicts).     *)
THEOREM DedupCorrect == AssemblySpec => []HighestConfidenceWins
<1>1. AssemblyInv => HighestConfidenceWins
  BY DEF AssemblyInv
<1> QED
  BY AssemblyInitInv, AssemblyStepInv, <1>1, PTL DEF AssemblySpec

(* assemble loses no item but for one of its entity that stands for it, and *)
(* no item is in both sections or in the wrong one.                         *)
THEOREM AssemblyComplete == AssemblySpec => []NothingVanishes
  BY AssemblyInitInv, AssemblyStepInv, Vanishing, PTL DEF AssemblySpec

-----------------------------------------------------------------------------
(* What the containers run while a suite is measured, and who may answer:  *)
(* the service of docs_de with the backend of the suite, calc_bruce with   *)
(* the one docker-compose.yml fixes, or a row of their dispatchers.        *)
MayAnswer(s) == {s, Substituted(s)["calc_bruce"], Fallback}

BenchInv ==
  /\ BenchTypeOK
  /\ bench \in {"wait", "measure"} => deployed = Substituted(suite)
  /\ \A s \in Suites : answerers[s] \subseteq MayAnswer(s)

LEMMA Substitutes ==
  ASSUME NEW s \in Suites
  PROVE  /\ Substituted(s) \in [Calcs -> Environment]
         /\ \A c \in Calcs : Substituted(s)[c] \in MayAnswer(s)
BY DEF Substituted, Suites, Calcs, Environment, MayAnswer

LEMMA BenchInitInv == BenchInit => BenchInv
<1> SUFFICES ASSUME BenchInit PROVE BenchInv
  OBVIOUS
<1>1. suite \in Suites /\ "extractive" \in Suites
  BY DEF BenchInit, Suites
<1>2. deployed \in [Calcs -> Environment]
  BY <1>1, Substitutes DEF BenchInit
<1>3. query_idx \in 0..SuiteLength /\ cases \in 0..query_idx
  BY SuiteAssumption DEF BenchInit
<1> QED BY <1>1, <1>2, <1>3 DEF BenchInit, BenchInv, BenchTypeOK

LEMMA ComposeStep == BenchInv /\ (ComposeUp \/ ComposeFails) => BenchInv'
<1> SUFFICES ASSUME BenchInv, ComposeUp \/ ComposeFails PROVE BenchInv'
  OBVIOUS
<1>1. suite \in Suites /\ "extractive" \in Suites /\ Requested \in Suites
  BY DEF BenchInv, BenchTypeOK, Suites, Requested
<1>2. CASE ComposeUp
  <2>1. deployed' \in [Calcs -> Environment]
    BY <1>1, <1>2, Substitutes DEF ComposeUp
  <2>2. bench' \in {"wait", "measure"} => deployed' = Substituted(suite')
    BY <1>2 DEF ComposeUp, Requested
  <2> QED BY <1>2, <2>1, <2>2 DEF ComposeUp, BenchInv, BenchTypeOK
<1>3. CASE ComposeFails
  <2>1. deployed' \in [Calcs -> Environment]
    BY <1>1, <1>3, Substitutes DEF ComposeFails, BenchInv, BenchTypeOK
  <2>2. up' \subseteq Containers
    BY <1>3 DEF ComposeFails, BenchInv, BenchTypeOK
  <2> QED BY <1>3, <2>1, <2>2 DEF ComposeFails, BenchInv, BenchTypeOK
<1> QED BY <1>2, <1>3

LEMMA AssembledStep == BenchInv /\ QueryAssembled => BenchInv'
<1> SUFFICES ASSUME BenchInv, QueryAssembled PROVE BenchInv'
  OBVIOUS
<1>1. suite \in Suites /\ deployed = Substituted(suite)
  BY DEF BenchInv, BenchTypeOK, QueryAssembled
<1>2. PICK asked \in SUBSET Calcs \ {{}}, silent \in SUBSET Calcs :
        answerers' = [answerers EXCEPT ![suite] =
          @ \union {IF c \in silent THEN Fallback ELSE deployed[c] : c \in asked}]
  BY DEF QueryAssembled
<1> DEFINE new == {IF c \in silent THEN Fallback ELSE deployed[c] : c \in asked}
<1>3. new \subseteq MayAnswer(suite)
  <2>1. \A c \in asked : deployed[c] \in MayAnswer(suite)
    BY <1>1, Substitutes
  <2> QED BY <2>1 DEF MayAnswer
<1>4. MayAnswer(suite) \subseteq Environment \union {Fallback}
  BY <1>1 DEF MayAnswer, Substituted, Environment, Calcs
<1> HIDE DEF new
<1>5. answerers \in [Suites -> SUBSET (Environment \union {Fallback})]
  BY DEF BenchInv, BenchTypeOK
<1>6. answerers' = [answerers EXCEPT ![suite] = answerers[suite] \union new]
  BY <1>2 DEF new
<1>7. answerers' \in [Suites -> SUBSET (Environment \union {Fallback})]
  BY <1>1, <1>3, <1>4, <1>5, <1>6
<1>8. \A s \in Suites : answerers'[s] \subseteq MayAnswer(s)
  BY <1>1, <1>3, <1>5, <1>6 DEF BenchInv
<1>9. query_idx' \in 0..SuiteLength /\ cases' \in 0..query_idx'
  BY SuiteAssumption DEF QueryAssembled, BenchInv, BenchTypeOK
<1> QED BY <1>1, <1>7, <1>8, <1>9 DEF QueryAssembled, BenchInv, BenchTypeOK, MayAnswer

LEMMA SummariseStep == BenchInv /\ Summarise => BenchInv'
<1> SUFFICES ASSUME BenchInv, Summarise PROVE BenchInv'
  OBVIOUS
<1>1. query_idx \in Nat /\ cases \in Nat /\ cases <= SuiteLength
  BY SuiteAssumption DEF BenchInv, BenchTypeOK
<1>2. reported' \in [Suites -> {0} \union 2..SuiteLength]
  <2>1. CASE cases < 2
    BY <2>1 DEF Summarise, BenchInv, BenchTypeOK
  <2>2. CASE ~ (cases < 2)
    <3>1. cases \in 2..SuiteLength
      BY <1>1, <2>2, SuiteAssumption
    <3>2. reported' = [reported EXCEPT ![suite] = cases]
      BY <2>2 DEF Summarise
    <3> QED BY <3>1, <3>2 DEF BenchInv, BenchTypeOK
  <2> QED BY <2>1, <2>2
<1>3. suite' \in Suites /\ bench' \in {"compose", "restore", "raised"}
  BY DEF Summarise, BenchInv, BenchTypeOK, Suites
<1> QED BY <1>2, <1>3 DEF Summarise, BenchInv, BenchTypeOK, MayAnswer

LEMMA BenchStepInv == BenchInv /\ [BenchNext]_benchVars => BenchInv'
<1> SUFFICES ASSUME BenchInv, [BenchNext]_benchVars PROVE BenchInv'
  OBVIOUS
<1>1. CASE AllReady
  <2>1. query_idx' \in 0..SuiteLength /\ cases' \in 0..query_idx'
    BY <1>1, SuiteAssumption DEF AllReady
  <2> QED BY <1>1, <2>1 DEF AllReady, BenchInv, BenchTypeOK, MayAnswer
<1>2. CASE WaitFails
  BY <1>2 DEF WaitFails, BenchInv, BenchTypeOK, MayAnswer
<1>3. CASE QueryFails
  <2>1. query_idx' \in 0..SuiteLength /\ cases' \in 0..query_idx'
    BY <1>3, SuiteAssumption DEF QueryFails, BenchInv, BenchTypeOK
  <2> QED BY <1>3, <2>1 DEF QueryFails, BenchInv, BenchTypeOK, MayAnswer
<1>4. CASE ContainerStarts
  BY <1>4 DEF ContainerStarts, BenchInv, BenchTypeOK, MayAnswer
<1>5. CASE UNCHANGED benchVars
  BY <1>5 DEF benchVars, BenchInv, BenchTypeOK, MayAnswer
<1> QED BY <1>1, <1>2, <1>3, <1>4, <1>5, ComposeStep, AssembledStep, SummariseStep
        DEF BenchNext, BenchMain

(* docker-compose.yml, line 61, fixes the backend of calc_bruce, whatever  *)
(* the script asks for; so what a suite measures is the backend it names   *)
(* or this one, and no third, although containers come up one by one, a    *)
(* query may be answered while they do, and compose may fail half-way.     *)
THEOREM OnlyBruceDiffers == BenchSpec => [](\A s \in Suites : answerers[s] \subseteq MayAnswer(s))
<1>1. BenchInv => \A s \in Suites : answerers[s] \subseteq MayAnswer(s)
  BY DEF BenchInv
<1> QED BY <1>1, BenchInitInv, BenchStepInv, PTL DEF BenchSpec

-----------------------------------------------------------------------------
(* The parts of MCParts: the one that runs keeps its invariant, and the    *)
(* others stay as they ended.                                              *)
LEMMA TableStart == TableInit => TableInv
BY DEF TableInit, TableInv, EveryZoneIsCovered

MappingPart == IF part = "mapping" THEN MappingInv ELSE MappingAtEnd
SelectionPart == IF part = "selection" THEN SelectionInv ELSE SelectionAtEnd
RetrievalPart == IF part = "retrieval" THEN RetrievalInv ELSE RetrievalAtEnd
MergePart == IF part = "merge" THEN MergeInv ELSE MergeAtEnd
ChunkPart == IF part = "chunk" THEN ChunkInv /\ ChunkBounds ELSE ChunkAtEnd
AssemblyPart == IF part = "assembly" THEN AssemblyInv ELSE AssemblyAtEnd
CalcPart == IF part = "calc" THEN CalcInv /\ CalcTypeOK ELSE CalcAtEnd
TimingPart == IF part = "timing" THEN TimingInv ELSE TimingAtEnd
TablePart == IF part = "table" THEN TableInv /\ TableTypeOK ELSE TableAtEnd
CorePart == IF part = "core" THEN CoreInv ELSE CoreAtEnd
ImportPart == IF part = "import" THEN ImportInv ELSE ImportAtEnd
StressPart == IF part = "stress" THEN StressInv /\ JobTypes ELSE StressAtEnd
BenchPart == IF part = "bench" THEN BenchInv ELSE BenchAtEnd

LEMMA PartStep ==
  ASSUME [Next]_partVars
  PROVE  /\ part' = part
         /\ IF part = "mapping" THEN [MappingNext]_mappingVars ELSE UNCHANGED mappingVars
         /\ IF part = "selection" THEN [SelectionNext]_selectionVars ELSE UNCHANGED selectionVars
         /\ IF part = "retrieval" THEN [RetrievalNext]_retrievalVars ELSE UNCHANGED retrievalVars
         /\ IF part = "merge" THEN [MergeNext]_mergeVars ELSE UNCHANGED mergeVars
         /\ IF part = "chunk" THEN [ChunkNext]_chunkVars ELSE UNCHANGED chunkVars
         /\ IF part = "assembly" THEN [AssemblyNext]_assemblyVars ELSE UNCHANGED assemblyVars
         /\ IF part = "calc" THEN [CalcNext]_calcVars ELSE UNCHANGED calcVars
         /\ IF part = "timing" THEN [TimingNext]_timingVars ELSE UNCHANGED timingVars
         /\ IF part = "table" THEN [TableNext]_tableVars ELSE UNCHANGED tableVars
         /\ IF part = "core" THEN [CoreNext]_coreVars ELSE UNCHANGED coreVars
         /\ IF part = "import" THEN [ImportNext]_importVars ELSE UNCHANGED importVars
         /\ IF part = "stress" THEN [StressNext]_stressVars ELSE UNCHANGED stressVars
         /\ IF part = "bench" THEN [BenchNext]_benchVars ELSE UNCHANGED benchVars
<1>1. CASE Next
  BY <1>1 DEF Next
<1>2. CASE UNCHANGED partVars
  BY <1>2 DEF partVars
<1> QED BY <1>1, <1>2

LEMMA MappingPartKeeps == MappingPart /\ [Next]_partVars => MappingPart'
<1> SUFFICES ASSUME MappingPart, [Next]_partVars PROVE MappingPart'
  OBVIOUS
<1>1. part' = part /\ IF part = "mapping" THEN [MappingNext]_mappingVars ELSE UNCHANGED mappingVars
  BY PartStep
<1>2. CASE part = "mapping"
  BY <1>1, <1>2, MappingStepInv DEF MappingPart
<1>3. CASE part # "mapping"
  <2>1. UNCHANGED mappingVars /\ MappingAtEnd
    BY <1>1, <1>3 DEF MappingPart
  <2>2. MappingAtEnd'
    BY <2>1 DEF MappingAtEnd, mappingVars
  <2> QED BY <1>1, <1>3, <2>2 DEF MappingPart
<1> QED BY <1>2, <1>3

LEMMA SelectionPartKeeps == SelectionPart /\ [Next]_partVars => SelectionPart'
<1> SUFFICES ASSUME SelectionPart, [Next]_partVars PROVE SelectionPart'
  OBVIOUS
<1>1. part' = part /\ IF part = "selection" THEN [SelectionNext]_selectionVars ELSE UNCHANGED selectionVars
  BY PartStep
<1>2. CASE part = "selection"
  BY <1>1, <1>2, SelectionStepInv DEF SelectionPart
<1>3. CASE part # "selection"
  <2>1. UNCHANGED selectionVars /\ SelectionAtEnd
    BY <1>1, <1>3 DEF SelectionPart
  <2>2. SelectionAtEnd'
    BY <2>1 DEF SelectionAtEnd, selectionVars
  <2> QED BY <1>1, <1>3, <2>2 DEF SelectionPart
<1> QED BY <1>2, <1>3

LEMMA RetrievalPartKeeps == RetrievalPart /\ [Next]_partVars => RetrievalPart'
<1> SUFFICES ASSUME RetrievalPart, [Next]_partVars PROVE RetrievalPart'
  OBVIOUS
<1>1. part' = part /\ IF part = "retrieval" THEN [RetrievalNext]_retrievalVars ELSE UNCHANGED retrievalVars
  BY PartStep
<1>2. CASE part = "retrieval"
  BY <1>1, <1>2, RetrievalStepInv DEF RetrievalPart
<1>3. CASE part # "retrieval"
  <2>1. UNCHANGED retrievalVars /\ RetrievalAtEnd
    BY <1>1, <1>3 DEF RetrievalPart
  <2>2. RetrievalAtEnd'
    BY <2>1 DEF RetrievalAtEnd, retrievalVars
  <2> QED BY <1>1, <1>3, <2>2 DEF RetrievalPart
<1> QED BY <1>2, <1>3

LEMMA MergePartKeeps == MergePart /\ [Next]_partVars => MergePart'
<1> SUFFICES ASSUME MergePart, [Next]_partVars PROVE MergePart'
  OBVIOUS
<1>1. part' = part /\ IF part = "merge" THEN [MergeNext]_mergeVars ELSE UNCHANGED mergeVars
  BY PartStep
<1>2. CASE part = "merge"
  BY <1>1, <1>2, MergeStepInv DEF MergePart
<1>3. CASE part # "merge"
  <2>1. UNCHANGED mergeVars /\ MergeAtEnd
    BY <1>1, <1>3 DEF MergePart
  <2>2. MergeAtEnd'
    BY <2>1 DEF MergeAtEnd, mergeVars, input
  <2> QED BY <1>1, <1>3, <2>2 DEF MergePart
<1> QED BY <1>2, <1>3

LEMMA ChunkPartKeeps == ChunkPart /\ [Next]_partVars => ChunkPart'
<1> SUFFICES ASSUME ChunkPart, [Next]_partVars PROVE ChunkPart'
  OBVIOUS
<1>1. part' = part /\ IF part = "chunk" THEN [ChunkNext]_chunkVars ELSE UNCHANGED chunkVars
  BY PartStep
<1>2. CASE part = "chunk"
  BY <1>1, <1>2, ChunkStepInv, ChunkBoundsStep DEF ChunkPart
<1>3. CASE part # "chunk"
  <2>1. UNCHANGED chunkVars /\ ChunkAtEnd
    BY <1>1, <1>3 DEF ChunkPart
  <2>2. ChunkAtEnd'
    BY <2>1 DEF ChunkAtEnd, chunkVars
  <2> QED BY <1>1, <1>3, <2>2 DEF ChunkPart
<1> QED BY <1>2, <1>3

LEMMA AssemblyPartKeeps == AssemblyPart /\ [Next]_partVars => AssemblyPart'
<1> SUFFICES ASSUME AssemblyPart, [Next]_partVars PROVE AssemblyPart'
  OBVIOUS
<1>1. part' = part /\ IF part = "assembly" THEN [AssemblyNext]_assemblyVars ELSE UNCHANGED assemblyVars
  BY PartStep
<1>2. CASE part = "assembly"
  BY <1>1, <1>2, AssemblyStepInv DEF AssemblyPart
<1>3. CASE part # "assembly"
  <2>1. UNCHANGED assemblyVars /\ AssemblyAtEnd
    BY <1>1, <1>3 DEF AssemblyPart
  <2>2. AssemblyAtEnd'
    BY <2>1 DEF AssemblyAtEnd, assemblyVars
  <2> QED BY <1>1, <1>3, <2>2 DEF AssemblyPart
<1> QED BY <1>2, <1>3

LEMMA CalcPartKeeps == CalcPart /\ [Next]_partVars => CalcPart'
<1> SUFFICES ASSUME CalcPart, [Next]_partVars PROVE CalcPart'
  OBVIOUS
<1>1. part' = part /\ IF part = "calc" THEN [CalcNext]_calcVars ELSE UNCHANGED calcVars
  BY PartStep
<1>2. CASE part = "calc"
  BY <1>1, <1>2, CalcStep, CalcTypesStep DEF CalcPart
<1>3. CASE part # "calc"
  <2>1. UNCHANGED calcVars /\ CalcAtEnd
    BY <1>1, <1>3 DEF CalcPart
  <2>2. CalcAtEnd'
    BY <2>1 DEF CalcAtEnd, calcVars
  <2> QED BY <1>1, <1>3, <2>2 DEF CalcPart
<1> QED BY <1>2, <1>3

LEMMA TimingPartKeeps == TimingPart /\ [Next]_partVars => TimingPart'
<1> SUFFICES ASSUME TimingPart, [Next]_partVars PROVE TimingPart'
  OBVIOUS
<1>1. part' = part /\ IF part = "timing" THEN [TimingNext]_timingVars ELSE UNCHANGED timingVars
  BY PartStep
<1>2. CASE part = "timing"
  BY <1>1, <1>2, TimingStep DEF TimingPart
<1>3. CASE part # "timing"
  <2>1. UNCHANGED timingVars /\ TimingAtEnd
    BY <1>1, <1>3 DEF TimingPart
  <2>2. TimingAtEnd'
    BY <2>1 DEF TimingAtEnd, timingVars
  <2> QED BY <1>1, <1>3, <2>2 DEF TimingPart
<1> QED BY <1>2, <1>3

LEMMA TablePartKeeps == TablePart /\ [Next]_partVars => TablePart'
<1> SUFFICES ASSUME TablePart, [Next]_partVars PROVE TablePart'
  OBVIOUS
<1>1. part' = part /\ IF part = "table" THEN [TableNext]_tableVars ELSE UNCHANGED tableVars
  BY PartStep
<1>2. CASE part = "table"
  BY <1>1, <1>2, TableStep, TableTypes DEF TablePart
<1>3. CASE part # "table"
  <2>1. UNCHANGED tableVars /\ TableAtEnd
    BY <1>1, <1>3 DEF TablePart
  <2>2. TableAtEnd'
    BY <2>1 DEF TableAtEnd, tableVars
  <2> QED BY <1>1, <1>3, <2>2 DEF TablePart
<1> QED BY <1>2, <1>3

LEMMA CorePartKeeps == CorePart /\ [Next]_partVars => CorePart'
<1> SUFFICES ASSUME CorePart, [Next]_partVars PROVE CorePart'
  OBVIOUS
<1>1. part' = part /\ IF part = "core" THEN [CoreNext]_coreVars ELSE UNCHANGED coreVars
  BY PartStep
<1>2. CASE part = "core"
  BY <1>1, <1>2, CoreStepInv DEF CorePart
<1>3. CASE part # "core"
  <2>1. UNCHANGED coreVars /\ CoreAtEnd
    BY <1>1, <1>3 DEF CorePart
  <2>2. CoreAtEnd'
    BY <2>1 DEF CoreAtEnd, coreVars, mainVars
  <2> QED BY <1>1, <1>3, <2>2 DEF CorePart
<1> QED BY <1>2, <1>3

LEMMA ImportPartKeeps == ImportPart /\ [Next]_partVars => ImportPart'
<1> SUFFICES ASSUME ImportPart, [Next]_partVars PROVE ImportPart'
  OBVIOUS
<1>1. part' = part /\ IF part = "import" THEN [ImportNext]_importVars ELSE UNCHANGED importVars
  BY PartStep
<1>2. CASE part = "import"
  BY <1>1, <1>2, ImportStepInv DEF ImportPart
<1>3. CASE part # "import"
  <2>1. UNCHANGED importVars /\ ImportAtEnd
    BY <1>1, <1>3 DEF ImportPart
  <2>2. ImportAtEnd'
    BY <2>1 DEF ImportAtEnd, importVars
  <2> QED BY <1>1, <1>3, <2>2 DEF ImportPart
<1> QED BY <1>2, <1>3

LEMMA StressPartKeeps == StressPart /\ [Next]_partVars => StressPart'
<1> SUFFICES ASSUME StressPart, [Next]_partVars PROVE StressPart'
  OBVIOUS
<1>1. part' = part /\ IF part = "stress" THEN [StressNext]_stressVars ELSE UNCHANGED stressVars
  BY PartStep
<1>2. CASE part = "stress"
  BY <1>1, <1>2, StressStep, StressJobs DEF StressPart
<1>3. CASE part # "stress"
  <2>1. UNCHANGED stressVars /\ StressAtEnd
    BY <1>1, <1>3 DEF StressPart
  <2>2. StressAtEnd'
    BY <2>1 DEF StressAtEnd, stressVars
  <2> QED BY <1>1, <1>3, <2>2 DEF StressPart
<1> QED BY <1>2, <1>3

LEMMA BenchPartKeeps == BenchPart /\ [Next]_partVars => BenchPart'
<1> SUFFICES ASSUME BenchPart, [Next]_partVars PROVE BenchPart'
  OBVIOUS
<1>1. part' = part /\ IF part = "bench" THEN [BenchNext]_benchVars ELSE UNCHANGED benchVars
  BY PartStep
<1>2. CASE part = "bench"
  BY <1>1, <1>2, BenchStepInv DEF BenchPart
<1>3. CASE part # "bench"
  <2>1. UNCHANGED benchVars /\ BenchAtEnd
    BY <1>1, <1>3 DEF BenchPart
  <2>2. BenchAtEnd'
    BY <2>1 DEF BenchAtEnd, benchVars
  <2> QED BY <1>1, <1>3, <2>2 DEF BenchPart
<1> QED BY <1>2, <1>3

PartsInv ==
  /\ MappingPart
  /\ SelectionPart
  /\ RetrievalPart
  /\ MergePart
  /\ ChunkPart
  /\ AssemblyPart
  /\ CalcPart
  /\ TimingPart
  /\ TablePart
  /\ CorePart
  /\ ImportPart
  /\ StressPart
  /\ BenchPart

LEMMA PartsStart == Init => PartsInv
<1> SUFFICES ASSUME Init PROVE PartsInv
  OBVIOUS
<1>1. MappingPart
  BY MappingInitInv DEF Init, MappingPart
<1>2. SelectionPart
  BY SelectionInitInv DEF Init, SelectionPart
<1>3. RetrievalPart
  BY RetrievalInitInv DEF Init, RetrievalPart
<1>4. MergePart
  BY MergeInitInv DEF Init, MergePart
<1>5. ChunkPart
  BY ChunkInitInv, ChunkBoundsStart DEF Init, ChunkPart
<1>6. AssemblyPart
  BY AssemblyInitInv DEF Init, AssemblyPart
<1>7. CalcPart
  BY CalcStart, CalcTypesStart DEF Init, CalcPart
<1>8. TimingPart
  BY TimingStart DEF Init, TimingPart
<1>9. TablePart
  BY TableStart, TableTypes DEF Init, TablePart
<1>10. CorePart
  BY CoreInitInv DEF Init, CorePart
<1>11. ImportPart
  BY ImportInitInv DEF Init, ImportPart
<1>12. StressPart
  BY StressInitInv, StressJobs DEF Init, StressPart
<1>13. BenchPart
  BY BenchInitInv DEF Init, BenchPart
<1> QED BY <1>1, <1>2, <1>3, <1>4, <1>5, <1>6, <1>7, <1>8, <1>9, <1>10, <1>11,
        <1>12, <1>13 DEF PartsInv

LEMMA PartsKeep == PartsInv /\ [Next]_partVars => PartsInv'
BY MappingPartKeeps, SelectionPartKeeps, RetrievalPartKeeps, MergePartKeeps,
   ChunkPartKeeps, AssemblyPartKeeps, CalcPartKeeps, TimingPartKeeps,
   TablePartKeeps, CorePartKeeps, ImportPartKeeps, StressPartKeeps,
   BenchPartKeeps DEF PartsInv

(* What the parts that are not run hold is of its type. *)
LEMMA PartsAtEnd ==
  /\ MappingAtEnd => MappingTypeOK
  /\ SelectionAtEnd => SelectionTypeOK
  /\ RetrievalAtEnd => RetrievalTypeOK
  /\ MergeAtEnd => MergeTypeOK
  /\ ChunkAtEnd => ChunkTypeOK
  /\ AssemblyAtEnd => AssemblyTypeOK
  /\ CalcAtEnd => CalcTypeOK
  /\ TimingAtEnd => TimingTypeOK
  /\ TableAtEnd => TableTypeOK
  /\ CoreAtEnd => CoreTypeOK
  /\ ImportAtEnd => ImportTypeOK
  /\ StressAtEnd => StressTypeOK
  /\ BenchAtEnd => BenchTypeOK
<1>1. ASSUME MappingAtEnd PROVE MappingTypeOK
  BY <1>1, PartsAssumption DEF MappingAtEnd, MappingTypeOK
<1>2. ASSUME SelectionAtEnd PROVE SelectionTypeOK
  <2>1. PICK only \in Route : only = [name |-> Bruce, terms |-> 0, keywords |-> 0]
    BY SelectionAssumption DEF Route
  <2>2. <<only>> \in Seq(Route) /\ Len(<<only>>) = 1 /\ <<>> \in Seq(Route)
    OBVIOUS
  <2>3. routes = <<only>> /\ selected = <<only>>
    BY <1>2, <2>1 DEF SelectionAtEnd
  <2>4. Len(selected) <= 2
    BY <2>2, <2>3
  <2>5. tokens \in Tokens /\ ranked = <<>> /\ selecting = "done"
    BY <1>2, PartsAssumption DEF SelectionAtEnd
  <2> QED BY <2>2, <2>3, <2>4, <2>5 DEF SelectionTypeOK
<1>3. ASSUME RetrievalAtEnd PROVE RetrievalTypeOK
  <2>1. PICK p \in Profiles : p = CHOOSE q \in Profiles : TRUE
    BY PartsAssumption
  <2>2. profile = [c \in Chunks |-> p]
    BY <1>3, <2>1 DEF RetrievalAtEnd
  <2>3. Cardinality({}) = 0 /\ AnnLimit \in Nat /\ TrigramLimit \in Nat
    BY FS_EmptySet, RetrievalAssumption
  <2>4. <<>> \in Seq({}) /\ Len(<<>>) = 0 /\ <<Synthetic>> \in Seq({Synthetic})
    OBVIOUS
  <2>5. snapshot = {} /\ snapshot \union {Synthetic} = {Synthetic} /\ db = {} /\ annRows = {}
    BY <1>3 DEF RetrievalAtEnd
  <2>6. candidates \in Seq(snapshot) /\ Len(candidates) <= TrigramLimit
    BY <1>3, <2>3, <2>4, <2>5 DEF RetrievalAtEnd
  <2>7. result \in Seq(snapshot \union {Synthetic})
    BY <1>3, <2>4, <2>5 DEF RetrievalAtEnd
  <2>8. Cardinality(annRows) <= AnnLimit
    BY <2>3, <2>5
  <2>9. profile \in [Chunks -> Profiles]
    BY <2>2
  <2>10. long \in BOOLEAN /\ retrieving \in {"trigram", "ann", "rank"} \union Returns
    BY <1>3 DEF RetrievalAtEnd, Returns
  <2> QED BY <2>5, <2>6, <2>7, <2>8, <2>9, <2>10 DEF RetrievalTypeOK
<1>4. ASSUME MergeAtEnd PROVE MergeTypeOK
  <2>1. /\ <<r1, r2>> \in Seq(Routes) /\ Len(<<r1, r2>>) = 2
        /\ <<>> \in Seq([route : Routes, index : Nat \ {0}]) /\ Len(<<>>) = 0 /\ <<>> \in Seq(Keys)
    BY PartsAssumption
  <2>2. \A r \in Routes : pointers[r] <= Len(route_chunks[r])
    BY <1>4, <2>1 DEF MergeAtEnd
  <2>3. at \in 0 .. Len(order) + 1
    BY <1>4, <2>1 DEF MergeAtEnd
  <2>4. route_chunks \in [Routes -> Seq(Keys)] /\ pointers \in [Routes -> Nat]
    BY <1>4, <2>1 DEF MergeAtEnd
  <2>5. merged = <<>> /\ \A k \in 1..Len(merged) : FALSE
    BY <1>4, <2>1 DEF MergeAtEnd
  <2>6. order \in Seq(Routes) /\ seen \subseteq Keys /\ progressed \in BOOLEAN /\ done \in BOOLEAN
    BY <1>4, <2>1 DEF MergeAtEnd
  <2>7. merged \in Seq([route : Routes, index : Nat \ {0}])
    BY <2>1, <2>5
  <2> QED BY <2>2, <2>3, <2>4, <2>5, <2>6, <2>7 DEF MergeTypeOK
<1>5. ASSUME ChunkAtEnd PROVE ChunkTypeOK
  BY <1>5 DEF ChunkAtEnd, ChunkTypeOK
<1>6. ASSUME AssemblyAtEnd PROVE AssemblyTypeOK
  BY <1>6 DEF AssemblyAtEnd, AssemblyTypeOK
<1>7. ASSUME CalcAtEnd PROVE CalcTypeOK
  <2>1. /\ <<>> \in Seq(ChunkKinds \union {Unreadable}) /\ <<>> \in Seq(ChunkKinds)
        /\ <<>> \in Seq(Nat) /\ <<>> \in Seq([kind : Kinds, conf : 0..100, page : Nat])
    OBVIOUS
  <2> QED BY <1>7, <2>1 DEF CalcAtEnd, CalcTypeOK, Backends
<1>8. ASSUME TimingAtEnd PROVE TimingTypeOK
  BY <1>8, PartsAssumption DEF TimingAtEnd, TimingTypeOK
<1>9. ASSUME TableAtEnd PROVE TableTypeOK
  BY <1>9 DEF TableAtEnd, TableTypeOK
<1>10. ASSUME CoreAtEnd PROVE CoreTypeOK
  <2>1. 0 \in 0..MaxMatches /\ 1 \in 1..(MaxMatches + 1)
    BY CoreAssumption
  <2> QED BY <1>10, <2>1 DEF CoreAtEnd, CoreTypeOK, Ended
<1>11. ASSUME ImportAtEnd PROVE ImportTypeOK
  BY <1>11 DEF ImportAtEnd, ImportTypeOK
<1>12. ASSUME StressAtEnd PROVE StressTypeOK
  <2>1. 0 \in 0..MaxQueries
    BY StressAssumption
  <2> QED BY <1>12, <2>1 DEF StressAtEnd, StressTypeOK
<1>13. ASSUME BenchAtEnd PROVE BenchTypeOK
  <2>1. 0 \in 0..SuiteLength /\ 0 \in 0..0
    BY SuiteAssumption
  <2>2. "extractive" \in Suites
    BY DEF Suites
  <2>3. Substituted("extractive") \in [Calcs -> Environment]
    BY <2>2, Substitutes
  <2> QED BY <1>13, <2>1, <2>2, <2>3 DEF BenchAtEnd, BenchTypeOK
<1> QED BY <1>1, <1>2, <1>3, <1>4, <1>5, <1>6, <1>7, <1>8, <1>9, <1>10, <1>11,
        <1>12, <1>13

LEMMA PartsTypes == PartsInv => PartsTypeOK
<1> SUFFICES ASSUME PartsInv PROVE PartsTypeOK
  OBVIOUS
<1>1. MappingTypeOK
  BY PartsAtEnd, MappingTypes DEF PartsInv, MappingPart
<1>2. SelectionTypeOK
  <2>1. SelectionInv => SelectionTypeOK
    BY DEF SelectionInv
  <2> QED BY <2>1, PartsAtEnd DEF PartsInv, SelectionPart
<1>3. RetrievalTypeOK
  <2>1. RetrievalInv => RetrievalTypeOK
    BY DEF RetrievalInv
  <2> QED BY <2>1, PartsAtEnd DEF PartsInv, RetrievalPart
<1>4. MergeTypeOK
  <2>1. MergeInv => MergeTypeOK
    BY DEF MergeInv
  <2> QED BY <2>1, PartsAtEnd DEF PartsInv, MergePart
<1>5. ChunkTypeOK
  BY PartsAtEnd, ChunkTypes DEF PartsInv, ChunkPart
<1>6. AssemblyTypeOK
  <2>1. AssemblyInv => AssemblyTypeOK
    BY DEF AssemblyInv
  <2> QED BY <2>1, PartsAtEnd DEF PartsInv, AssemblyPart
<1>7. CalcTypeOK
  BY PartsAtEnd DEF PartsInv, CalcPart
<1>8. TimingTypeOK
  BY PartsAtEnd, TimingTypes DEF PartsInv, TimingPart
<1>9. TableTypeOK
  BY PartsAtEnd DEF PartsInv, TablePart
<1>10. CoreTypeOK
  <2>1. CoreInv => CoreTypeOK
    BY DEF CoreInv
  <2> QED BY <2>1, PartsAtEnd DEF PartsInv, CorePart
<1>11. ImportTypeOK
  <2>1. ImportInv => ImportTypeOK
    BY DEF ImportInv
  <2> QED BY <2>1, PartsAtEnd DEF PartsInv, ImportPart
<1>12. StressTypeOK
  BY PartsAtEnd, StressTypes DEF PartsInv, StressPart
<1>13. BenchTypeOK
  <2>1. BenchInv => BenchTypeOK
    BY DEF BenchInv
  <2> QED BY <2>1, PartsAtEnd DEF PartsInv, BenchPart
<1> QED BY <1>1, <1>2, <1>3, <1>4, <1>5, <1>6, <1>7, <1>8, <1>9, <1>10, <1>11,
        <1>12, <1>13 DEF PartsTypeOK

(* Whichever function or program runs, with whatever numbers of zones,     *)
(* routes, chunks, rows, files, queries and whatever settings: every       *)
(* variable of every part keeps its type.                                  *)
THEOREM PartsTypesCorrect == FairSpec => []PartsTypeOK
BY PartsStart, PartsKeep, PartsTypes, PTL DEF FairSpec
=============================================================================
