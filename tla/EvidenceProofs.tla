---------------------------- MODULE EvidenceProofs ----------------------------
(***************************************************************************)
(* Theorems about Evidence, for any tests, observers, durations and        *)
(* numbers of runs: the timeline and its way into the bundle; that Parse   *)
(* tells the truth of any stream; that aggregate counts any campaign.      *)
(* What the folds of Parse and aggregate compute is shown by induction on  *)
(* the stream, the runs and the tests of a run (section "Induction, and    *)
(* folds").                                                                *)
(***************************************************************************)
EXTENDS Evidence, SequenceTheorems, FiniteSetTheorems,
        WellFoundedInduction, TLAPS

-----------------------------------------------------------------------------
(* The inductive invariant *)

Events == [by : Observers, at : Nat, whole : BOOLEAN]

ControlTypes ==
  /\ stage \in {"testing", "reporting", "aggregating", "done"}
  /\ clock \in Nat
  /\ file \in {"none", "json", "md", "junit"}
TestTypes == tests \in [Tests -> {"idle", "running"} \cup Terminal]
RecordTypes ==
  /\ record \in [Observers -> [pc : {"idle", "stamped", "done"}, at : Nat]]
  /\ timeline \in Seq(Events)
  /\ recorded \subseteq [by : Observers, from : Nat, to : Nat]
HistoryTypes ==
  truth = [failed |-> truth.failed, leaves |-> truth.leaves,
           unreadable |-> truth.unreadable, unopened |-> truth.unopened,
           unwritten |-> truth.unwritten]
BundleTypes ==
  bundle = [json |-> bundle.json, summary |-> bundle.summary,
            md |-> bundle.md, junit |-> bundle.junit]

(* A Record call began before now, and the ones that returned ended before  *)
(* now; each has its line, one that returned before another began first.    *)
Ordered ==
  /\ \A o \in Observers : record[o].pc = "stamped" => record[o].at < clock
  /\ \A c \in recorded : c.from < c.to /\ c.to < clock
  /\ \A c \in recorded : \E i \in DOMAIN timeline : timeline[i].by = c.by
  /\ TimelineRespectsRealTime

(* The files there are, by the file that is next.                           *)
Files ==
  /\ stage = "testing" => file = "none"
  /\ stage = "testing" \/ (stage = "reporting" /\ file \in {"none", "json"})
       => bundle.json = "absent" /\ ~bundle.md /\ bundle.junit = <<>>
  /\ stage = "reporting" /\ file = "md" =>
       Whole /\ ~bundle.md /\ bundle.junit = <<>>
  /\ stage = "reporting" /\ file = "junit" => Whole /\ bundle.md
  /\ bundle.md => Whole
  /\ bundle.junit # <<>> => bundle.md

(* The checkpoints on their way from the timeline to the bundle.            *)
Carried ==
  /\ stage = "reporting" /\ file # "none" /\ ~truth.unopened =>
       summary.Checkpoints = timeline
  /\ Whole /\ ~truth.unopened => bundle.summary.Checkpoints = timeline

ReportTypes == ControlTypes /\ HistoryTypes /\ BundleTypes
EvidenceInv ==
  ReportTypes /\ TestTypes /\ RecordTypes /\ Ordered /\ Files /\ Carried

-----------------------------------------------------------------------------
(* What the steps leave alone *)

LEMMA SameRecords ==
  ASSUME RecordTypes, Ordered, UNCHANGED <<record, clock, timeline, recorded>>
  PROVE  RecordTypes' /\ Ordered'
<1>1. RecordTypes'
  BY DEF RecordTypes
<1>2. Ordered'
  BY DEF Ordered, TimelineRespectsRealTime
<1> QED BY <1>1, <1>2

LEMMA SameReports ==
  ASSUME ReportTypes, Files,
         UNCHANGED <<stage, truth, summary, file, bundle>>,
         clock' \in Nat
  PROVE  ReportTypes' /\ Files'
<1>1. ReportTypes'
  BY DEF ReportTypes, ControlTypes, HistoryTypes, BundleTypes
<1>2. Files'
  BY DEF Files, Whole
<1> QED BY <1>1, <1>2

LEMMA SameCarried ==
  ASSUME Carried, UNCHANGED <<stage, truth, summary, file, bundle, timeline>>
  PROVE  Carried'
  BY DEF Carried, Whole

(* While the tests run there is no summary, whole or in progress.           *)
LEMMA NothingCarried ==
  ASSUME stage' \in {"testing", "reporting"}, file' = "none",
         bundle'.json = "absent"
  PROVE  Carried'
  BY DEF Carried, Whole

-----------------------------------------------------------------------------
(* The steps *)

LEMMA InitEvidence ==
  ASSUME Init
  PROVE  EvidenceInv
<1>1. ControlTypes
  BY DEF Init, ControlTypes
<1>2. HistoryTypes
  BY DEF Init, HistoryTypes, Unknown
<1>3. BundleTypes /\ bundle.json = "absent" /\ ~bundle.md
      /\ bundle.junit = <<>>
  BY DEF Init, BundleTypes, NoBundle
<1>4. TestTypes
  BY DEF Init, TestTypes
<1>5. RecordTypes
  <2>1. timeline \in Seq(Events)
    BY EmptySeq DEF Init
  <2>2. record \in [Observers -> [pc : {"idle", "stamped", "done"}, at : Nat]]
    BY DEF Init
  <2> QED BY <2>1, <2>2 DEF Init, RecordTypes
<1>6. Ordered
  BY DEF Init, Ordered, TimelineRespectsRealTime
<1>7. Files
  BY <1>3 DEF Init, Files, Whole
<1>8. Carried
  BY <1>3 DEF Init, Carried, Whole
<1> QED BY <1>1, <1>2, <1>3, <1>4, <1>5, <1>6, <1>7, <1>8
        DEF EvidenceInv, ReportTypes

LEMMA TestEvidence ==
  ASSUME EvidenceInv, NEW t \in Tests,
         \/ StartTest(t)
         \/ \E s \in Terminal, d \in Durations : FinishTest(t, s, d)
  PROVE  EvidenceInv'
<1>1. /\ UNCHANGED <<stage, record, clock, timeline, summary, file, bundle,
                     truth, recorded>>
      /\ \E s \in {"running"} \cup Terminal : tests' = [tests EXCEPT ![t] = s]
  BY DEF StartTest, FinishTest, reporting
<1>2. TestTypes'
  BY <1>1 DEF EvidenceInv, TestTypes
<1>3. clock' \in Nat
  BY <1>1 DEF EvidenceInv, ReportTypes, ControlTypes
<1> QED BY <1>1, <1>2, <1>3, SameRecords, SameReports, SameCarried
        DEF EvidenceInv

LEMMA EndEvidence ==
  ASSUME EvidenceInv, EndTests
  PROVE  EvidenceInv'
<1>1. /\ stage = "testing" /\ stage' = "reporting"
      /\ \E failed \in BOOLEAN : truth' = Outcome(failed)
      /\ tests' = [t \in Tests |-> "idle"]
      /\ record' = [o \in Observers |-> [pc |-> "idle", at |-> 0]]
      /\ UNCHANGED <<clock, timeline, summary, file, bundle, recorded>>
  BY DEF EndTests, reporting
<1>2. /\ ControlTypes /\ BundleTypes /\ RecordTypes /\ Ordered
      /\ file = "none" /\ bundle.json = "absent" /\ ~bundle.md
      /\ bundle.junit = <<>>
  BY <1>1 DEF EvidenceInv, ReportTypes, Files
<1>3. HistoryTypes'
  BY <1>1 DEF HistoryTypes, Outcome, Unknown
<1>4. ControlTypes' /\ BundleTypes' /\ TestTypes'
  BY <1>1, <1>2 DEF ControlTypes, BundleTypes, TestTypes
<1>5. /\ record' \in [Observers -> [pc : {"idle", "stamped", "done"}, at : Nat]]
      /\ \A o \in Observers : record'[o].pc = "idle"
  BY <1>1
<1>6. RecordTypes'
  BY <1>1, <1>2, <1>5 DEF RecordTypes
<1>7. Ordered'
  BY <1>1, <1>2, <1>5 DEF Ordered, TimelineRespectsRealTime
<1>8. Files'
  BY <1>1, <1>2 DEF Files, Whole
<1>9. Carried'
  BY <1>1, <1>2, NothingCarried
<1> QED BY <1>3, <1>4, <1>6, <1>7, <1>8, <1>9 DEF EvidenceInv, ReportTypes

LEMMA StampEvidence ==
  ASSUME EvidenceInv, NEW o \in Observers, Stamp(o)
  PROVE  EvidenceInv'
<1>1. /\ record' = [record EXCEPT ![o] = [pc |-> "stamped", at |-> clock]]
      /\ clock' = clock + 1
      /\ UNCHANGED <<stage, tests, timeline, summary, file, bundle, truth,
                     recorded>>
  BY DEF Stamp, reporting
<1>2. clock \in Nat /\ RecordTypes /\ Ordered
  BY DEF EvidenceInv, ReportTypes, ControlTypes
<1>3. /\ record' \in [Observers -> [pc : {"idle", "stamped", "done"}, at : Nat]]
      /\ record'[o] = [pc |-> "stamped", at |-> clock]
      /\ \A p \in Observers : p # o => record'[p] = record[p]
  BY <1>1, <1>2 DEF RecordTypes
<1>4. RecordTypes'
  BY <1>1, <1>2, <1>3 DEF RecordTypes
<1>5. \A p \in Observers : record'[p].pc = "stamped" => record'[p].at < clock'
  <2> SUFFICES ASSUME NEW p \in Observers, record'[p].pc = "stamped"
               PROVE  record'[p].at < clock'
    OBVIOUS
  <2>1. CASE p = o
    BY <1>1, <1>2, <1>3, <2>1
  <2>2. CASE p # o
    <3>1. record[p].at \in Nat /\ record[p].at < clock
      BY <1>2, <1>3, <2>2 DEF Ordered, RecordTypes
    <3> QED BY <1>1, <1>2, <1>3, <2>2, <3>1
  <2> QED BY <2>1, <2>2
<1>6. \A c \in recorded' : c.from < c.to /\ c.to < clock'
  BY <1>1, <1>2 DEF Ordered, RecordTypes
<1>7. Ordered'
  BY <1>1, <1>2, <1>5, <1>6 DEF Ordered, TimelineRespectsRealTime
<1>8. TestTypes' /\ clock' \in Nat
  BY <1>1, <1>2 DEF EvidenceInv, TestTypes
<1> QED BY <1>1, <1>4, <1>7, <1>8, SameReports, SameCarried DEF EvidenceInv

(* The line of a Record call that returns is behind the lines of all that   *)
(* returned before.                                                         *)
LEMMA RecordEvidence ==
  ASSUME EvidenceInv, NEW o \in Observers, Record(o)
  PROVE  EvidenceInv'
<1> DEFINE event == [by |-> o, at |-> record[o].at, whole |-> TRUE]
           half == [event EXCEPT !.whole = FALSE]
           call == [by |-> o, from |-> record[o].at, to |-> clock]
<1>1. clock \in Nat /\ RecordTypes /\ Ordered
  BY DEF EvidenceInv, ReportTypes, ControlTypes
<1>2. record[o].at \in Nat
  BY <1>1 DEF RecordTypes
<1>3. /\ stage = "testing" /\ record[o].pc = "stamped"
      /\ \/ /\ timeline' = Append(timeline, event)
            /\ recorded' = recorded \cup {call}
         \/ /\ timeline' \in {timeline, Append(timeline, event),
                              Append(timeline, half)}
            /\ recorded' = recorded
      /\ record' = [record EXCEPT ![o].pc = "done"] /\ clock' = clock + 1
      /\ UNCHANGED <<stage, tests, summary, file, bundle, truth>>
  BY Zenon DEF Record, Appended, reporting
<1>4. /\ event \in Events /\ half \in Events /\ event.by = o
      /\ call \in [by : Observers, from : Nat, to : Nat]
      /\ call.by = o /\ call.from = record[o].at /\ call.to = clock
      /\ call.from \in Nat /\ call.from < clock
  <2>1. event \in Events /\ half \in Events /\ event.by = o
    BY <1>2 DEF Events
  <2>2. record[o].at < clock
    BY <1>1, <1>3 DEF Ordered
  <2> QED BY <1>1, <1>2, <2>1, <2>2
<1> HIDE DEF event, half, call
<1>5. /\ record' \in [Observers -> [pc : {"idle", "stamped", "done"}, at : Nat]]
      /\ record'[o].pc = "done"
      /\ \A p \in Observers : p # o => record'[p] = record[p]
  BY <1>1, <1>3 DEF RecordTypes
<1>6. \E e \in Events : timeline' = timeline \/ timeline' = Append(timeline, e)
  BY <1>3, <1>4
<1>7. /\ timeline' \in Seq(Events)
      /\ \A i \in DOMAIN timeline :
           i \in DOMAIN timeline' /\ timeline'[i] = timeline[i]
  <2>1. CASE timeline' = timeline
    BY <1>1, <2>1 DEF RecordTypes
  <2>2. ASSUME NEW e \in Events, timeline' = Append(timeline, e)
        PROVE  /\ timeline' \in Seq(Events)
               /\ \A i \in DOMAIN timeline :
                    i \in DOMAIN timeline' /\ timeline'[i] = timeline[i]
    BY <1>1, <2>2, AppendProperties DEF RecordTypes
  <2> QED BY <1>6, <2>1, <2>2
<1>8. RecordTypes'
  BY <1>1, <1>3, <1>4, <1>5, <1>7 DEF RecordTypes
<1>9. \A p \in Observers : record'[p].pc = "stamped" => record'[p].at < clock'
  <2> SUFFICES ASSUME NEW p \in Observers, record'[p].pc = "stamped"
               PROVE  record'[p].at < clock'
    OBVIOUS
  <2>1. record'[p] = record[p]
    BY <1>5
  <2>2. record[p].at \in Nat /\ record[p].at < clock
    BY <1>1, <2>1 DEF Ordered, RecordTypes
  <2> QED BY <1>1, <1>3, <2>1, <2>2
<1>10. \A c \in recorded : c.from \in Nat /\ c.to \in Nat
  BY <1>1 DEF RecordTypes
<1>11. \A c \in recorded : /\ c.from < c.to /\ c.to < clock /\ c.to < clock'
                           /\ c.from < clock
  BY <1>1, <1>3, <1>10 DEF Ordered
<1>12. ASSUME recorded' = recorded
       PROVE  Ordered'
  <2>1. \A c \in recorded' : \E i \in DOMAIN timeline' : timeline'[i].by = c.by
    BY <1>1, <1>7, <1>12 DEF Ordered
  <2>2. TimelineRespectsRealTime'
    BY <1>1, <1>7, <1>12 DEF Ordered, TimelineRespectsRealTime
  <2>3. \A c \in recorded' : c.from < c.to /\ c.to < clock'
    BY <1>11, <1>12
  <2> QED BY <1>9, <2>1, <2>2, <2>3, Zenon DEF Ordered
<1>13. ASSUME timeline' = Append(timeline, event),
              recorded' = recorded \cup {call}
       PROVE  Ordered'
  <2> DEFINE last == Len(timeline) + 1
  <2>1. /\ last \in DOMAIN timeline' /\ timeline'[last].by = o
        /\ \A i \in DOMAIN timeline : i < last
    BY <1>1, <1>4, <1>13, AppendProperties DEF RecordTypes
  <2> HIDE DEF last
  <2>2. \A c \in recorded' : c.from < c.to /\ c.to < clock'
    BY <1>1, <1>3, <1>4, <1>11, <1>13
  <2>3. \A c \in recorded' : \E i \in DOMAIN timeline' : timeline'[i].by = c.by
    BY <1>1, <1>4, <1>7, <1>13, <2>1 DEF Ordered
  <2>4. ASSUME NEW c \in recorded', NEW d \in recorded', c.to < d.from
        PROVE  \E i, j \in DOMAIN timeline' :
                 i < j /\ timeline'[i].by = c.by /\ timeline'[j].by = d.by
    <3>1. CASE c \in recorded /\ d \in recorded
      BY <1>1, <1>7, <2>4, <3>1 DEF Ordered, TimelineRespectsRealTime
    <3>2. CASE c \in recorded /\ d = call
      <4>1. PICK i \in DOMAIN timeline : timeline[i].by = c.by
        BY <1>1, <3>2 DEF Ordered
      <4> QED BY <1>4, <1>7, <2>1, <3>2, <4>1
    <3>3. CASE c = call
      <4>1. d.from \in Nat /\ d.from < clock
        BY <1>4, <1>10, <1>11, <1>13, <2>4
      <4> QED BY <1>1, <1>4, <2>4, <3>3, <4>1
    <3> QED BY <1>13, <2>4, <3>1, <3>2, <3>3
  <2>5. TimelineRespectsRealTime'
    BY <2>4 DEF TimelineRespectsRealTime
  <2> QED BY <1>9, <2>2, <2>3, <2>5, Zenon DEF Ordered
<1>14. Ordered'
  BY <1>3, <1>12, <1>13
<1>15. TestTypes' /\ clock' \in Nat
  BY <1>1, <1>3 DEF EvidenceInv, TestTypes
<1>16. Carried'
  BY <1>3, NothingCarried DEF EvidenceInv, Files
<1> QED BY <1>3, <1>8, <1>14, <1>15, <1>16, SameReports DEF EvidenceInv

LEMMA SummariseEvidence ==
  ASSUME EvidenceInv, Summarise
  PROVE  EvidenceInv'
<1>1. /\ stage = "reporting" /\ file = "none"
      /\ UNCHANGED <<tests, record, clock, timeline, bundle, recorded>>
  BY DEF Summarise
<1>2. /\ ControlTypes /\ HistoryTypes /\ BundleTypes /\ TestTypes
      /\ RecordTypes /\ Ordered /\ bundle.json = "absent" /\ ~bundle.md
      /\ bundle.junit = <<>>
  BY <1>1 DEF EvidenceInv, ReportTypes, Files
<1>3. BundleTypes' /\ TestTypes' /\ RecordTypes' /\ Ordered'
  <2>1. BundleTypes' /\ TestTypes'
    BY <1>1, <1>2 DEF BundleTypes, TestTypes
  <2> QED BY <1>1, <1>2, <2>1, SameRecords
<1>4. PICK opened \in BOOLEAN :
        LET loaded == IF opened THEN LoadTimeline(timeline) ELSE {<<>>}
        IN \/ /\ \E events \in loaded :
                   summary' = [Parse(stream) EXCEPT !.Checkpoints = events]
              /\ truth' = [truth EXCEPT !.unopened = ~opened]
              /\ file' = "json" /\ stage' = stage
           \/ /\ truth' = [truth EXCEPT !.unreadable = TRUE]
              /\ stage' = "aggregating" /\ UNCHANGED <<summary, file>>
  BY Zenon DEF Summarise
<1>5. CASE /\ truth' = [truth EXCEPT !.unreadable = TRUE]
           /\ stage' = "aggregating" /\ UNCHANGED <<summary, file>>
  <2>1. HistoryTypes'
    BY <1>2, <1>5 DEF HistoryTypes
  <2>2. ControlTypes' /\ Files' /\ Carried'
    BY <1>1, <1>2, <1>5 DEF ControlTypes, Files, Carried, Whole
  <2> QED BY <1>3, <2>1, <2>2 DEF EvidenceInv, ReportTypes
<1>6. ASSUME NEW events,
             opened => events = timeline,
             summary' = [Parse(stream) EXCEPT !.Checkpoints = events],
             truth' = [truth EXCEPT !.unopened = ~opened],
             file' = "json", stage' = stage
      PROVE  EvidenceInv'
  <2>1. HistoryTypes' /\ (~truth'.unopened => opened)
    BY <1>2, <1>6 DEF HistoryTypes
  <2>2. summary'.Checkpoints = events
    BY <1>6 DEF Parse, NoSummary
  <2>3. ControlTypes' /\ Files'
    BY <1>1, <1>2, <1>6 DEF ControlTypes, Files, Whole
  <2>4. Carried'
    BY <1>1, <1>2, <1>6, <2>1, <2>2 DEF Carried, Whole
  <2> QED BY <1>3, <2>1, <2>3, <2>4 DEF EvidenceInv, ReportTypes
<1>7. \A events \in LoadTimeline(timeline) : events = timeline
  BY DEF LoadTimeline
<1> QED BY <1>4, <1>5, <1>6, <1>7

LEMMA WriteEvidence ==
  ASSUME EvidenceInv, WriteBundle
  PROVE  EvidenceInv'
<1>1. /\ stage = "reporting" /\ file # "none"
      /\ UNCHANGED <<tests, record, clock, timeline, summary, recorded>>
  BY DEF WriteBundle
<1>2. /\ ControlTypes /\ HistoryTypes /\ BundleTypes /\ TestTypes
      /\ RecordTypes /\ Ordered /\ Files /\ Carried
  BY DEF EvidenceInv, ReportTypes
<1>3. TestTypes' /\ RecordTypes' /\ Ordered'
  <2>1. TestTypes'
    BY <1>1, <1>2 DEF TestTypes
  <2> QED BY <1>1, <1>2, <2>1, SameRecords
<1>4. file = "json" \/ file = "md" \/ file = "junit"
  BY <1>1, <1>2 DEF ControlTypes
<1>5. ASSUME file' = "none", stage' = "aggregating",
             truth' = [truth EXCEPT !.unwritten = TRUE],
             NEW left \in {"absent", "torn"},
             bundle' = IF file = "json" THEN [bundle EXCEPT !.json = left]
                       ELSE bundle
      PROVE  EvidenceInv'
  <2>1. HistoryTypes' /\ truth'.unopened = truth.unopened
    BY <1>2, <1>5 DEF HistoryTypes
  <2>2. ControlTypes'
    BY <1>1, <1>2, <1>5 DEF ControlTypes
  <2>3. CASE file = "json"
    <3>1. /\ BundleTypes' /\ bundle'.json = left /\ bundle'.md = bundle.md
          /\ bundle'.junit = bundle.junit
      BY <1>2, <1>5, <2>3 DEF BundleTypes
    <3>2. ~bundle.md /\ bundle.junit = <<>>
      BY <1>1, <1>2, <2>3 DEF Files
    <3>3. Files' /\ Carried'
      BY <1>5, <3>1, <3>2 DEF Files, Carried, Whole
    <3> QED BY <1>3, <2>1, <2>2, <3>1, <3>3 DEF EvidenceInv, ReportTypes
  <2>4. CASE file # "json"
    <3>1. bundle' = bundle
      BY <1>5, <2>4
    <3>2. BundleTypes' /\ Files' /\ Carried'
      BY <1>1, <1>2, <1>5, <2>1, <3>1
         DEF BundleTypes, Files, Carried, Whole
    <3> QED BY <1>3, <2>1, <2>2, <3>2 DEF EvidenceInv, ReportTypes
  <2> QED BY <2>3, <2>4
<1>6. ASSUME file = "json", truth' = truth, stage' = stage, file' = "md",
             bundle' = [bundle EXCEPT !.json = "whole", !.summary = summary]
      PROVE  EvidenceInv'
  <2>1. /\ BundleTypes' /\ bundle'.json = "whole"
        /\ bundle'.summary = summary /\ bundle'.md = bundle.md
        /\ bundle'.junit = bundle.junit
    BY <1>2, <1>6 DEF BundleTypes
  <2>2. ~bundle.md /\ bundle.junit = <<>>
    BY <1>1, <1>2, <1>6 DEF Files
  <2>3. ControlTypes' /\ HistoryTypes'
    BY <1>1, <1>2, <1>6 DEF ControlTypes, HistoryTypes
  <2>4. Files'
    BY <1>1, <1>6, <2>1, <2>2 DEF Files, Whole
  <2>5. Carried'
    BY <1>1, <1>2, <1>6, <2>1 DEF Carried, Whole
  <2> QED BY <1>3, <2>1, <2>3, <2>4, <2>5 DEF EvidenceInv, ReportTypes
<1>7. ASSUME file = "md", truth' = truth, stage' = stage, file' = "junit",
             bundle' = [bundle EXCEPT !.md = TRUE]
      PROVE  EvidenceInv'
  <2>1. /\ BundleTypes' /\ bundle'.json = bundle.json
        /\ bundle'.summary = bundle.summary /\ bundle'.md
        /\ bundle'.junit = bundle.junit
    BY <1>2, <1>7 DEF BundleTypes
  <2>2. Whole
    BY <1>1, <1>2, <1>7 DEF Files
  <2>3. ControlTypes' /\ HistoryTypes'
    BY <1>1, <1>2, <1>7 DEF ControlTypes, HistoryTypes
  <2>4. Files'
    BY <1>1, <1>7, <2>1, <2>2 DEF Files, Whole
  <2>5. Carried'
    BY <1>1, <1>2, <1>7, <2>1 DEF Carried, Whole
  <2> QED BY <1>3, <2>1, <2>3, <2>4, <2>5 DEF EvidenceInv, ReportTypes
<1>8. ASSUME file = "junit", truth' = truth, stage' = "aggregating",
             file' = "none",
             bundle' = [bundle EXCEPT !.junit = toJUnit(summary)]
      PROVE  EvidenceInv'
  <2>1. /\ BundleTypes' /\ bundle'.json = bundle.json
        /\ bundle'.summary = bundle.summary /\ bundle'.md = bundle.md
    BY <1>2, <1>8 DEF BundleTypes
  <2>2. Whole /\ bundle.md
    BY <1>1, <1>2, <1>8 DEF Files
  <2>3. ControlTypes' /\ HistoryTypes'
    BY <1>1, <1>2, <1>8 DEF ControlTypes, HistoryTypes
  <2>4. Files'
    BY <1>1, <1>8, <2>1, <2>2 DEF Files, Whole
  <2>5. Carried'
    BY <1>1, <1>2, <1>8, <2>1 DEF Carried, Whole
  <2> QED BY <1>3, <2>1, <2>3, <2>4, <2>5 DEF EvidenceInv, ReportTypes
<1>9. CASE /\ \E left \in {"absent", "torn"} :
                bundle' = IF file = "json"
                          THEN [bundle EXCEPT !.json = left] ELSE bundle
           /\ AfterFailure(file)
           /\ truth' = [truth EXCEPT !.unwritten = TRUE]
  BY <1>5, <1>9 DEF AfterFailure
<1>10. CASE /\ bundle' =
                 CASE file = "json" -> [bundle EXCEPT !.json = "whole",
                                                      !.summary = summary]
                   [] file = "md" -> [bundle EXCEPT !.md = TRUE]
                   [] file = "junit" -> [bundle EXCEPT
                                           !.junit = toJUnit(summary)]
            /\ file' = Following(file)
            /\ stage' = IF file = "junit" THEN "aggregating" ELSE stage
            /\ UNCHANGED truth
  <2>1. CASE file = "json"
    BY <1>6, <1>10, <2>1 DEF Following
  <2>2. CASE file = "md"
    BY <1>7, <1>10, <2>2 DEF Following
  <2>3. CASE file = "junit"
    BY <1>8, <1>10, <2>3 DEF Following
  <2> QED BY <1>4, <2>1, <2>2, <2>3
<1> QED BY <1>9, <1>10, Zenon DEF WriteBundle

LEMMA AggregateEvidence ==
  ASSUME EvidenceInv, Aggregate
  PROVE  EvidenceInv'
<1>1. /\ stage = "aggregating" /\ stage' = "done"
      /\ UNCHANGED <<tests, record, clock, timeline, summary, file, bundle,
                     truth, recorded>>
  BY DEF Aggregate
<1>2. /\ ControlTypes /\ HistoryTypes /\ BundleTypes /\ TestTypes
      /\ RecordTypes /\ Ordered /\ Files /\ Carried
  BY DEF EvidenceInv, ReportTypes
<1>3. ControlTypes' /\ HistoryTypes' /\ BundleTypes' /\ TestTypes'
  BY <1>1, <1>2 DEF ControlTypes, HistoryTypes, BundleTypes, TestTypes
<1>4. Files' /\ Carried'
  BY <1>1, <1>2 DEF Files, Carried, Whole
<1> QED BY <1>1, <1>2, <1>3, <1>4, SameRecords DEF EvidenceInv, ReportTypes

LEMMA NextEvidence ==
  ASSUME EvidenceInv, [Next]_vars
  PROVE  EvidenceInv'
<1>1. CASE UNCHANGED vars
  <2>1. UNCHANGED <<stage, tests, record, clock, timeline, summary, file,
                    bundle, truth, recorded>>
    BY <1>1 DEF vars
  <2>2. TestTypes' /\ clock' \in Nat
    BY <2>1 DEF EvidenceInv, TestTypes, ReportTypes, ControlTypes
  <2> QED BY <2>1, <2>2, SameRecords, SameReports, SameCarried
          DEF EvidenceInv
<1>2. CASE Next
  BY <1>2, TestEvidence, EndEvidence, StampEvidence, RecordEvidence,
     SummariseEvidence, WriteEvidence, AggregateEvidence DEF Next
<1> QED BY <1>1, <1>2

LEMMA EvidenceInvariant == Spec => []EvidenceInv
<1>1. Init => EvidenceInv
  BY InitEvidence
<1>2. EvidenceInv /\ [Next]_vars => EvidenceInv'
  BY NextEvidence
<1> QED BY <1>1, <1>2, PTL DEF Spec

-----------------------------------------------------------------------------
(* Theorems *)

(* Every variable keeps its type, and a file of the bundle is there only    *)
(* after the ones that are written before it (WriteBundle).                 *)
THEOREM EvidenceTypes == Spec => []TypeOK
<1>1. EvidenceInv => TypeOK
  BY DEF EvidenceInv, ReportTypes, ControlTypes, TestTypes, RecordTypes,
         Files, TypeOK
<1> QED BY <1>1, EvidenceInvariant, PTL

(* However many goroutines record at once, a checkpoint whose Record call   *)
(* returned before another began is before it in events.jsonl: the order of *)
(* the lock can differ from that of the times only for calls that overlap   *)
(* (Record).                                                                *)
THEOREM TimelineKeepsRealTime == Spec => []TimelineRespectsRealTime
<1>1. EvidenceInv => TimelineRespectsRealTime
  BY DEF EvidenceInv, Ordered
<1> QED BY <1>1, EvidenceInvariant, PTL

(* No checkpoint whose Record returned nil is lost on the way to            *)
(* summary.json: a timeline that was opened is taken over whole or ends the *)
(* report (LoadTimeline, main of e2e-report).                               *)
THEOREM NoCheckpointIsLost == Spec => []CheckpointsSurvive
<1>1. EvidenceInv => CheckpointsSurvive
  BY DEF EvidenceInv, Ordered, Carried, CheckpointsSurvive
<1> QED BY <1>1, EvidenceInvariant, PTL

(* For every number of executions, the index that aggregate computes for    *)
(* the p95 is one of the sorted durations, and the first that at least 95   *)
(* in 100 of them do not come after.                                        *)
THEOREM PercentileIndex ==
  ASSUME NEW n \in Nat \ {0}
  PROVE  /\ p95Index(n) \in 1 .. n
         /\ 100 * p95Index(n) >= 95 * n
         /\ \A k \in Nat : 100 * k >= 95 * n => p95Index(n) <= k
  BY DEF p95Index

-----------------------------------------------------------------------------
(* Induction, and folds *)

(* The library's induction theorems have a predicate as their parameter,    *)
(* which the provers do not instantiate; that every set of numbers has a    *)
(* least one has a set.                                                     *)
LEMMA LeastNat ==
  ASSUME NEW T \in SUBSET Nat, T # {}
  PROVE  \E m \in T : \A k \in T : m <= k
<1>1. PICK R : /\ IsWellFoundedOn(R, Nat)
               /\ \A k, m \in Nat : <<k, m>> \in R <=> k < m
  <2>1. \A k, m \in Nat : <<k, m>> \in OpToRel(<, Nat) <=> k < m
    BY DEF OpToRel
  <2> QED BY <2>1, NatLessThanWellFounded, Zenon
<1>2. IsWellFoundedOn(R, Nat) /\ T \subseteq Nat
  BY <1>1
<1>3. PICK m \in T : \A k \in T : ~(<<k, m>> \in R)
  <2>1. \E m \in T : \A k \in T : ~(<<k, m>> \in R)
    BY ONLY <1>2, T # {}, WFMin
  <2> QED BY <2>1
<1>4. \A k \in T : m \in Nat /\ k \in Nat /\ ~(k < m)
  BY <1>1, <1>2, <1>3
<1>5. \A k \in T : m <= k
  BY <1>4
<1> QED BY <1>5

(* Induction over the natural numbers, for a set in place of a predicate.   *)
LEMMA SetInduction ==
  ASSUME NEW S, 0 \in S, \A n \in Nat : n \in S => n + 1 \in S
  PROVE  \A n \in Nat : n \in S
<1> SUFFICES ASSUME ~(Nat \subseteq S) PROVE FALSE
  OBVIOUS
<1>1. PICK m \in Nat \ S : \A k \in Nat \ S : m <= k
  <2>1. Nat \ S # {} /\ Nat \ S \in SUBSET Nat
    OBVIOUS
  <2> QED BY <2>1, LeastNat
<1>2. m # 0 /\ m - 1 \in Nat /\ ~(m <= m - 1)
  BY <1>1
<1>3. m - 1 \in S
  BY <1>1, <1>2
<1>4. (m - 1) + 1 \in S
  BY <1>2, <1>3
<1> QED BY <1>1, <1>4

LEMMA MaxInSet ==
  ASSUME NEW n \in Nat, NEW s \in SUBSET (1 .. n), s # {}
  PROVE  Max(s) \in s /\ \A k \in s : k <= Max(s)
<1> DEFINE T == {n - k : k \in s}
<1>1. T \in SUBSET Nat /\ T # {}
  <2>1. \A k \in s : k \in Nat /\ n - k \in Nat
    OBVIOUS
  <2> QED BY <2>1, Zenon
<1>2. PICK m \in T : \A k \in T : m <= k
  BY <1>1, LeastNat
<1>3. PICK x \in s : m = n - x
  BY <1>2
<1>4. \A k \in s : x >= k
  <2> TAKE k \in s
  <2>1. m <= n - k /\ k \in 1 .. n /\ x \in 1 .. n
    BY <1>2, <1>3
  <2> QED BY <1>3, <2>1
<1>5. \E y \in s : \A k \in s : y >= k
  BY <1>4
<1>6. Max(s) \in s /\ \A k \in s : Max(s) >= k
  BY <1>5, Zenon DEF Max
<1> QED
  <2> HIDE DEF T
  <2>1. \A k \in s : k \in 1 .. n
    OBVIOUS
  <2> QED BY <1>6, <2>1

LEMMA IntervalPrefix ==
  ASSUME NEW n \in Nat, NEW i \in 1 .. n
  PROVE  /\ 1 .. i \in SUBSET (1 .. n) /\ 1 .. i # {} /\ i \in 0 .. n
         /\ i - 1 \in 0 .. n
         /\ Max(1 .. i) = i /\ (1 .. i) \ {i} = 1 .. (i - 1)
<1>1. /\ i \in Nat /\ i # 0 /\ i \in 1 .. i /\ i \in 0 .. n
      /\ i - 1 \in 0 .. n
  OBVIOUS
<1>2. 1 .. i \in SUBSET (1 .. n) /\ 1 .. i \in SUBSET (1 .. i) /\ 1 .. i # {}
  <2>1. 1 .. i \subseteq 1 .. n
    OBVIOUS
  <2> QED BY <1>1, <2>1
<1>3. Max(1 .. i) \in 1 .. i /\ i <= Max(1 .. i)
  BY <1>1, <1>2, MaxInSet, Zenon
<1>4. Max(1 .. i) = i
  BY <1>1, <1>3
<1>5. (1 .. i) \ {i} = 1 .. (i - 1)
  OBVIOUS
<1> QED BY <1>1, <1>2, <1>4, <1>5

(* Induction over the subsets of a finite set, each reached by adding its   *)
(* chosen element.                                                          *)
LEMMA SubsetInduction ==
  ASSUME NEW S, IsFiniteSet(S), NEW ch, NEW P, {} \in P,
         \A s \in SUBSET S : s # {} =>
           ch[s] \in s /\ (s \ {ch[s]} \in P => s \in P)
  PROVE  S \in P
<1> DEFINE N == {n \in Nat : \A s \in SUBSET S : Cardinality(s) <= n => s \in P}
<1>1. \A s \in SUBSET S : IsFiniteSet(s) /\ Cardinality(s) \in Nat
  BY FS_Subset, FS_CardinalityType
<1>2. 0 \in N
  <2>1. \A s \in SUBSET S : Cardinality(s) <= 0 => s = {}
    BY <1>1, FS_EmptySet
  <2> QED BY <2>1
<1>3. ASSUME NEW n \in Nat, n \in N
      PROVE  n + 1 \in N
  <2> SUFFICES ASSUME NEW s \in SUBSET S, Cardinality(s) <= n + 1, s # {}
               PROVE  s \in P
    <3>1. n + 1 \in Nat
      OBVIOUS
    <3> QED BY <3>1, Zenon
  <2>1. ch[s] \in s /\ s \ {ch[s]} \in SUBSET S
    OBVIOUS
  <2>2. Cardinality(s \ {ch[s]}) = Cardinality(s) - 1
    BY <1>1, <2>1, FS_RemoveElement
  <2>3. Cardinality(s \ {ch[s]}) <= n
    BY <1>1, <2>2
  <2> QED BY <1>3, <2>1, <2>3
<1> HIDE DEF N
<1>4. Cardinality(S) \in N
  BY <1>1, <1>2, <1>3, SetInduction
<1>5. Cardinality(S) <= Cardinality(S)
  BY <1>1
<1> QED BY <1>4, <1>5 DEF N

(* One step of each of the model's folds, by the name of the fold.          *)
Step(fold, data, acc, x) ==
  CASE fold = "lines" -> Apply(acc, data[x])
    [] fold = "runs" -> AddRun(acc, data[x])
    [] fold = "tests" -> AddTest(acc, x, data[x])
    [] fold = "sum" -> acc + data[x].Executions

(* The recursion of a fold, by the choice of the next element.              *)
Iterates(iter, S, ch, fold, data, base) ==
  /\ iter = [s \in SUBSET S |-> iter[s]]
  /\ \A s \in SUBSET S :
       iter[s] = IF s = {} THEN base
                 ELSE Step(fold, data, iter[s \ {ch[s]}], ch[s])
IteratesLeft(iter, n, fold, data, base) ==
  /\ iter = [s \in SUBSET (1 .. n) |-> iter[s]]
  /\ \A s \in SUBSET (1 .. n) :
       iter[s] = IF s = {} THEN base
                 ELSE Step(fold, data, iter[s \ {Max(s)}], Max(s))

(* A fold is well defined: there is a function that obeys its recursion.    *)
LEMMA FoldExists ==
  ASSUME NEW S, IsFiniteSet(S), NEW fold, NEW data, NEW base, NEW ch,
         \A s \in SUBSET S : s # {} => ch[s] \in s
  PROVE  \E iter : Iterates(iter, S, ch, fold, data, base)
<1> DEFINE Iter(g, n) ==
             \A s \in SUBSET S : Cardinality(s) <= n =>
               g[s] = IF s = {} THEN base
                      ELSE Step(fold, data, g[s \ {ch[s]}], ch[s])
           N == {n \in Nat : \E g : g = [s \in SUBSET S |-> g[s]] /\ Iter(g, n)}
<1>1. \A s \in SUBSET S : IsFiniteSet(s) /\ Cardinality(s) \in Nat
                          /\ Cardinality(s) <= Cardinality(S)
  BY FS_Subset, FS_CardinalityType
<1>2. 0 \in N
  <2> DEFINE g == [s \in SUBSET S |-> base]
  <2>1. \A s \in SUBSET S : Cardinality(s) <= 0 => s = {}
    BY <1>1, FS_EmptySet
  <2>2. g = [s \in SUBSET S |-> g[s]]
    BY Zenon
  <2>3. Iter(g, 0)
    BY <2>1, Zenon
  <2> HIDE DEF g
  <2> QED BY <2>2, <2>3
<1>3. ASSUME NEW n \in Nat, n \in N
      PROVE  n + 1 \in N
  <2>1. PICK g : Iter(g, n)
    BY <1>3
  <2> DEFINE h == [s \in SUBSET S |->
                     IF s = {} THEN base
                     ELSE Step(fold, data, g[s \ {ch[s]}], ch[s])]
  <2>2. \A s \in SUBSET S : Cardinality(s) <= n => h[s] = g[s]
    BY <2>1, Zenon
  <2>3. ASSUME NEW s \in SUBSET S, Cardinality(s) <= n + 1
        PROVE  h[s] = IF s = {} THEN base
                      ELSE Step(fold, data, h[s \ {ch[s]}], ch[s])
    <3>1. CASE s = {}
      BY <3>1, Zenon
    <3>2. CASE s # {}
      <4>1. s \ {ch[s]} \in SUBSET S /\ ch[s] \in s
        BY <3>2, Zenon
      <4>2. Cardinality(s \ {ch[s]}) = Cardinality(s) - 1
        BY <1>1, <4>1, FS_RemoveElement
      <4>3. Cardinality(s \ {ch[s]}) <= n
        BY <1>1, <2>3, <4>2
      <4>4. h[s \ {ch[s]}] = g[s \ {ch[s]}]
        BY <2>2, <4>1, <4>3, Zenon
      <4> QED BY <3>2, <4>4, Zenon
    <3> QED BY <3>1, <3>2
  <2>4. h = [s \in SUBSET S |-> h[s]]
    BY Zenon
  <2> HIDE DEF h
  <2>5. Iter(h, n + 1)
    BY <2>3, Zenon
  <2>6. n + 1 \in Nat
    OBVIOUS
  <2> HIDE DEF Iter
  <2> QED BY <2>4, <2>5, <2>6, Zenon
<1> HIDE DEF N
<1>4. Cardinality(S) \in N
  BY <1>1, <1>2, <1>3, SetInduction
<1>5. PICK g : g = [s \in SUBSET S |-> g[s]] /\ Iter(g, Cardinality(S))
  BY <1>4 DEF N
<1>6. Iterates(g, S, ch, fold, data, base)
  BY <1>1, <1>5, Zenon DEF Iterates
<1> QED BY <1>6

(* FoldLeft reads from left to right.                                       *)
LEMMA FoldLeftExists ==
  ASSUME NEW n \in Nat, NEW fold, NEW data, NEW base
  PROVE  \E iter : IteratesLeft(iter, n, fold, data, base)
<1> DEFINE ch == [s \in SUBSET (1 .. n) |-> Max(s)]
<1>1. \A s \in SUBSET (1 .. n) : s # {} => Max(s) \in s
  BY MaxInSet
<1>2. IsFiniteSet(1 .. n)
  BY FS_Interval
<1>3. \A s \in SUBSET (1 .. n) : ch[s] = Max(s)
  OBVIOUS
<1> HIDE DEF ch
<1>4. \A s \in SUBSET (1 .. n) : s # {} => ch[s] \in s
  BY <1>1, <1>3, Zenon
<1>5. PICK iter : Iterates(iter, 1 .. n, ch, fold, data, base)
  BY <1>2, <1>4, FoldExists, Zenon
<1>6. IteratesLeft(iter, n, fold, data, base)
  BY <1>3, <1>5, Zenon DEF Iterates, IteratesLeft
<1> QED BY <1>6

(* Parse reads the stream line by line.                                     *)
LEMMA ParseLines ==
  ASSUME NEW lines, NEW n \in Nat, DOMAIN lines = 1 .. n
  PROVE  \E r : /\ r[0] = <<>>
                /\ \A i \in 1 .. n : r[i] = Apply(r[i - 1], lines[i])
                /\ r[n] = FoldLeft(Apply, <<>>, lines)
<1> DEFINE IsIter(iter) ==
             iter = [s \in SUBSET (1 .. n) |->
                       IF s = {} THEN <<>>
                       ELSE Apply(iter[s \ {Max(s)}], lines[Max(s)])]
           it == CHOOSE iter : IsIter(iter)
<1>1. FoldLeft(Apply, <<>>, lines) = it[1 .. n]
  BY Zenon DEF FoldLeft, MapThenFoldSet
<1>2. \E iter : IsIter(iter)
  <2>1. PICK iter : IteratesLeft(iter, n, "lines", lines, <<>>)
    BY FoldLeftExists, Zenon
  <2>2. \A acc, x : Step("lines", lines, acc, x) = Apply(acc, lines[x])
    BY DEF Step
  <2>3. IsIter(iter)
    BY <2>1, <2>2, Zenon DEF IteratesLeft
  <2> QED BY <2>3, Zenon
<1>3. \A s \in SUBSET (1 .. n) :
        it[s] = IF s = {} THEN <<>>
                ELSE Apply(it[s \ {Max(s)}], lines[Max(s)])
  BY <1>2, Zenon
<1> HIDE DEF it
<1> DEFINE r == [i \in 0 .. n |-> it[1 .. i]]
<1>4. r[0] = <<>>
  <2>1. 1 .. 0 = {} /\ {} \in SUBSET (1 .. n) /\ 0 \in 0 .. n
    OBVIOUS
  <2> QED BY <1>3, <2>1, Zenon
<1>5. ASSUME NEW i \in 1 .. n
      PROVE  r[i] = Apply(r[i - 1], lines[i])
  BY <1>3, IntervalPrefix, Zenon
<1>6. r[n] = FoldLeft(Apply, <<>>, lines)
  <2>1. n \in 0 .. n
    OBVIOUS
  <2> QED BY <1>1, <2>1, Zenon
<1> HIDE DEF r
<1> QED BY <1>4, <1>5, <1>6, Zenon

(* Aggregate adds the runs one by one.                                      *)
LEMMA AggregateRuns ==
  ASSUME NEW entries, NEW n \in Nat, DOMAIN entries = 1 .. n, NEW base
  PROVE  \E r : /\ r[0] = base
                /\ \A i \in 1 .. n : r[i] = AddRun(r[i - 1], entries[i])
                /\ r[n] = FoldLeft(AddRun, base, entries)
<1> DEFINE IsIter(iter) ==
             iter = [s \in SUBSET (1 .. n) |->
                       IF s = {} THEN base
                       ELSE AddRun(iter[s \ {Max(s)}], entries[Max(s)])]
           it == CHOOSE iter : IsIter(iter)
<1>1. FoldLeft(AddRun, base, entries) = it[1 .. n]
  BY Zenon DEF FoldLeft, MapThenFoldSet
<1>2. \E iter : IsIter(iter)
  <2>1. PICK iter : IteratesLeft(iter, n, "runs", entries, base)
    BY FoldLeftExists, Zenon
  <2>2. \A acc, x : Step("runs", entries, acc, x) = AddRun(acc, entries[x])
    BY DEF Step
  <2>3. IsIter(iter)
    BY <2>1, <2>2, Zenon DEF IteratesLeft
  <2> QED BY <2>3, Zenon
<1>3. \A s \in SUBSET (1 .. n) :
        it[s] = IF s = {} THEN base
                ELSE AddRun(it[s \ {Max(s)}], entries[Max(s)])
  BY <1>2, Zenon
<1> HIDE DEF it
<1> DEFINE r == [i \in 0 .. n |-> it[1 .. i]]
<1>4. r[0] = base
  <2>1. 1 .. 0 = {} /\ {} \in SUBSET (1 .. n) /\ 0 \in 0 .. n
    OBVIOUS
  <2> QED BY <1>3, <2>1, Zenon
<1>5. ASSUME NEW i \in 1 .. n
      PROVE  r[i] = AddRun(r[i - 1], entries[i])
  BY <1>3, IntervalPrefix, Zenon
<1>6. r[n] = FoldLeft(AddRun, base, entries)
  <2>1. n \in 0 .. n
    OBVIOUS
  <2> QED BY <1>1, <2>1, Zenon
<1> HIDE DEF r
<1> QED BY <1>4, <1>5, <1>6, Zenon

-----------------------------------------------------------------------------
(* What Parse makes of a stream *)

Results == [status : {"running"} \cup Terminal, elapsed : Nat]
Lines == [test : Tests \cup {<<>>}, action : {"run"} \cup Terminal,
          elapsed : Nat]
Named(lines) == {lines[i].test : i \in DOMAIN lines} \ {<<>>}
Ended(lines, t, status) ==
  \E i \in DOMAIN lines :
    lines[i].test = t /\ lines[i].action = status /\ status \in Terminal

(* The results after the first k lines.                                     *)
ResultsAfter(res, lines, k) ==
  /\ DOMAIN res = {lines[i].test : i \in 1 .. k} \ {<<>>}
  /\ \A t \in DOMAIN res :
       /\ res[t] \in Results
       /\ \/ /\ res[t].status = "running"
             /\ \A i \in 1 .. k :
                  lines[i].test = t => lines[i].action \notin Terminal
          \/ \E i \in 1 .. k :
               /\ lines[i].test = t /\ lines[i].action \in Terminal
               /\ res[t].status = lines[i].action

LEMMA ApplyLine ==
  ASSUME NEW lines, NEW n \in Nat, lines \in [1 .. n -> Lines],
         NEW k \in 1 .. n, NEW before, NEW res,
         ResultsAfter(before, lines, k - 1), res = Apply(before, lines[k])
  PROVE  ResultsAfter(res, lines, k)
<1> DEFINE e == lines[k]
<1>1. /\ e \in Lines /\ e = lines[k]
      /\ 1 .. k = (1 .. (k - 1)) \cup {k} /\ k \notin 1 .. (k - 1)
  OBVIOUS
<1>2. {lines[i].test : i \in 1 .. k} =
        {lines[i].test : i \in 1 .. (k - 1)} \cup {e.test}
  BY <1>1, Zenon
<1> HIDE DEF e
<1>5. ASSUME NEW t \in DOMAIN before, lines[k].test # t
             \/ lines[k].action \notin Terminal
      PROVE  /\ before[t] \in Results
             /\ \/ /\ before[t].status = "running"
                   /\ \A i \in 1 .. k :
                        lines[i].test = t => lines[i].action \notin Terminal
                \/ \E i \in 1 .. k :
                     /\ lines[i].test = t /\ lines[i].action \in Terminal
                     /\ before[t].status = lines[i].action
  <2>1. /\ \A i \in 1 .. k : i = k \/ i \in 1 .. (k - 1)
        /\ \A i \in 1 .. (k - 1) : i \in 1 .. k
    BY <1>1, Zenon
  <2>2. before[t] \in Results
    BY Zenon DEF ResultsAfter
  <2>3. CASE /\ before[t].status = "running"
             /\ \A i \in 1 .. (k - 1) :
                  lines[i].test = t => lines[i].action \notin Terminal
    BY <1>5, <2>1, <2>2, <2>3, Zenon
  <2>4. CASE \E i \in 1 .. (k - 1) :
               /\ lines[i].test = t /\ lines[i].action \in Terminal
               /\ before[t].status = lines[i].action
    BY <2>1, <2>2, <2>4, Zenon
  <2> QED BY <2>3, <2>4, Zenon DEF ResultsAfter
<1>3. CASE e.test = <<>>
  <2>1. res = before
    BY <1>1, <1>3, Zenon DEF Apply
  <2>2. \A t \in DOMAIN before : t # <<>>
    BY Zenon DEF ResultsAfter
  <2>3. DOMAIN res = {lines[i].test : i \in 1 .. k} \ {<<>>}
    BY <1>2, <1>3, <2>1, Zenon DEF ResultsAfter
  <2>4. ASSUME NEW t \in DOMAIN res
        PROVE  /\ res[t] \in Results
               /\ \/ /\ res[t].status = "running"
                     /\ \A i \in 1 .. k :
                          lines[i].test = t => lines[i].action \notin Terminal
                  \/ \E i \in 1 .. k :
                       /\ lines[i].test = t /\ lines[i].action \in Terminal
                       /\ res[t].status = lines[i].action
    BY <1>1, <1>3, <1>5, <2>1, <2>2, Zenon
  <2> QED BY <2>3, <2>4, Zenon DEF ResultsAfter
<1>4. CASE e.test # <<>>
  <2> DEFINE known == IF e.test \in DOMAIN before THEN before[e.test]
                      ELSE [status |-> "running", elapsed |-> 0]
             result == IF e.action \in Terminal
                       THEN [status |-> e.action, elapsed |-> e.elapsed]
                       ELSE known
  <2>1. res = [t \in DOMAIN before \cup {e.test} |->
                 IF t = e.test THEN result ELSE before[t]]
    BY <1>1, <1>4, Zenon DEF Apply
  <2>2. /\ DOMAIN res = DOMAIN before \cup {e.test} /\ res[e.test] = result
        /\ \A t \in DOMAIN before : t # e.test => res[t] = before[t]
    BY <2>1, Zenon
  <2>3. DOMAIN res = {lines[i].test : i \in 1 .. k} \ {<<>>}
    BY <1>2, <1>4, <2>2, Zenon DEF ResultsAfter
  <2>4. ASSUME NEW t \in DOMAIN res, t # e.test
        PROVE  /\ res[t] \in Results
               /\ \/ /\ res[t].status = "running"
                     /\ \A i \in 1 .. k :
                          lines[i].test = t => lines[i].action \notin Terminal
                  \/ \E i \in 1 .. k :
                       /\ lines[i].test = t /\ lines[i].action \in Terminal
                       /\ res[t].status = lines[i].action
    <3>1. t \in DOMAIN before /\ res[t] = before[t] /\ lines[k].test # t
      BY <1>1, <2>2, <2>4, Zenon
    <3> QED BY <1>5, <3>1, Zenon
  <2>5. e.action \in Terminal =>
          /\ result = [status |-> e.action, elapsed |-> e.elapsed]
          /\ result \in Results /\ result.status = e.action
    BY <1>1 DEF Results, Lines
  <2>6. e.action \notin Terminal => result = known
    BY Zenon
  <2>7. e.test \notin DOMAIN before =>
          known = [status |-> "running", elapsed |-> 0]
    BY Zenon
  <2>8. e.test \in DOMAIN before => known = before[e.test]
    BY Zenon
  <2>9. [status |-> "running", elapsed |-> 0] \in Results
        /\ [status |-> "running", elapsed |-> 0].status = "running"
    BY DEF Results
  <2>10. e.test \notin DOMAIN before =>
           \A i \in 1 .. (k - 1) : lines[i].test # e.test
    BY <1>4, Zenon DEF ResultsAfter
  <2> HIDE DEF known, result
  <2>11. /\ res[e.test] \in Results
         /\ \/ /\ res[e.test].status = "running"
               /\ \A i \in 1 .. k : lines[i].test = e.test =>
                                      lines[i].action \notin Terminal
            \/ \E i \in 1 .. k :
                 /\ lines[i].test = e.test /\ lines[i].action \in Terminal
                 /\ res[e.test].status = lines[i].action
    <3>1. CASE e.action \in Terminal
      <4>1. k \in 1 .. k
        BY <1>1, Zenon
      <4>2. res[e.test] \in Results /\ res[e.test].status = lines[k].action
        BY <1>1, <2>2, <2>5, <3>1, Zenon
      <4> QED BY <1>1, <3>1, <4>1, <4>2, Zenon
    <3>2. CASE e.action \notin Terminal /\ e.test \notin DOMAIN before
      BY <1>1, <2>2, <2>6, <2>7, <2>9, <2>10, <3>2, Zenon
    <3>3. CASE e.action \notin Terminal /\ e.test \in DOMAIN before
      <4>1. res[e.test] = before[e.test] /\ lines[k].action \notin Terminal
        BY <1>1, <2>2, <2>6, <2>8, <3>3, Zenon
      <4>2. /\ before[e.test] \in Results
            /\ \/ /\ before[e.test].status = "running"
                  /\ \A i \in 1 .. k : lines[i].test = e.test =>
                                         lines[i].action \notin Terminal
               \/ \E i \in 1 .. k :
                    /\ lines[i].test = e.test /\ lines[i].action \in Terminal
                    /\ before[e.test].status = lines[i].action
        BY <1>5, <3>3, <4>1, Zenon
      <4> QED BY ONLY <4>1, <4>2, Zenon
    <3> QED BY <3>1, <3>2, <3>3
  <2> QED BY <2>3, <2>4, <2>11, Zenon DEF ResultsAfter
<1> QED BY <1>3, <1>4

(* The fold knows every test that a line names, with the action of one of   *)
(* its terminal lines, or as running when it has none.                      *)
LEMMA ParseResults ==
  ASSUME NEW lines \in Seq(Lines), NEW res,
         res = FoldLeft(Apply, <<>>, lines)
  PROVE  ResultsAfter(res, lines, Len(lines))
<1> DEFINE n == Len(lines)
<1>1. n \in Nat /\ DOMAIN lines = 1 .. n /\ lines \in [1 .. n -> Lines]
  OBVIOUS
<1> HIDE DEF n
<1>2. PICK r : /\ r[0] = <<>>
               /\ \A i \in 1 .. n : r[i] = Apply(r[i - 1], lines[i])
               /\ r[n] = FoldLeft(Apply, <<>>, lines)
  BY <1>1, ParseLines
<1> DEFINE S == {k \in Nat : k <= n => ResultsAfter(r[k], lines, k)}
<1>3. 0 \in S
  <2>1. DOMAIN <<>> = {} /\ 1 .. 0 = {}
    OBVIOUS
  <2>2. ResultsAfter(r[0], lines, 0)
    BY <1>2, <2>1, Zenon DEF ResultsAfter
  <2> QED BY <2>2
<1>4. ASSUME NEW k \in Nat, k \in S
      PROVE  k + 1 \in S
  <2> SUFFICES ASSUME k + 1 <= n PROVE ResultsAfter(r[k + 1], lines, k + 1)
    OBVIOUS
  <2>1. k + 1 \in 1 .. n /\ (k + 1) - 1 = k /\ k <= n
    BY <1>1
  <2>2. r[k + 1] = Apply(r[k], lines[k + 1]) /\ ResultsAfter(r[k], lines, k)
    BY <1>2, <1>4, <2>1
  <2> QED BY <1>1, <2>1, <2>2, ApplyLine
<1> HIDE DEF S
<1>5. n \in S
  BY <1>1, <1>3, <1>4, SetInduction
<1>6. ResultsAfter(r[n], lines, n)
  BY <1>1, <1>5 DEF S
<1> QED BY <1>2, <1>6 DEF n

(* A stream and the leaf tests that were really begun, with how they ended. *)
Matches(lines, leaves) ==
  /\ leaves = [t \in Reported(Named(lines)) |-> leaves[t]]
  /\ \A t \in DOMAIN leaves :
       /\ leaves[t] \in Terminal
       /\ \A i \in DOMAIN lines :
            lines[i].test = t /\ lines[i].action \in Terminal =>
              lines[i].action = leaves[t]
       /\ \/ leaves[t] = "fail"
          \/ \E i \in DOMAIN lines :
               lines[i].test = t /\ lines[i].action \in Terminal

With(s, status) == {t \in DOMAIN s.Tests : s.Tests[t].status = status}

(* A summary whose tests are finitely many, and whose counts are theirs.    *)
Counts(s) ==
  /\ IsFiniteSet(DOMAIN s.Tests)
  /\ s.Tests \in [DOMAIN s.Tests -> [status : Terminal, elapsed : Nat]]
  /\ s.Passed = Cardinality(With(s, "pass"))
  /\ s.Failed = Cardinality(With(s, "fail"))
  /\ s.Skipped = Cardinality(With(s, "skip"))
Tells(s, leaves) ==
  /\ Counts(s)
  /\ [t \in DOMAIN s.Tests |-> s.Tests[t].status] = leaves

(* Two disjoint finite sets.                                                *)
LEMMA CardinalityOfBoth ==
  ASSUME NEW A, NEW B, NEW C, IsFiniteSet(C), C = A \cup B, A \cap B = {}
  PROVE  /\ IsFiniteSet(A) /\ IsFiniteSet(B)
         /\ Cardinality(A) \in Nat /\ Cardinality(B) \in Nat
         /\ Cardinality(C) = Cardinality(A) + Cardinality(B)
<1>1. A \in SUBSET C /\ B \in SUBSET C
  OBVIOUS
<1>2. IsFiniteSet(A) /\ IsFiniteSet(B)
  BY <1>1, FS_Subset
<1>3. Cardinality(A) \in Nat /\ Cardinality(B) \in Nat
  BY <1>2, FS_CardinalityType
<1>4. Cardinality(C) = Cardinality(A) + Cardinality(B) - 0
  BY <1>2, FS_Union, FS_EmptySet
<1> QED BY <1>2, <1>3, <1>4

(* Every test passed, failed or was skipped.                                *)
LEMMA ThreeOutcomes ==
  ASSUME NEW s, IsFiniteSet(DOMAIN s.Tests),
         s.Tests \in [DOMAIN s.Tests -> [status : Terminal, elapsed : Nat]]
  PROVE  /\ \A status \in Terminal : /\ IsFiniteSet(With(s, status))
                                     /\ Cardinality(With(s, status)) \in Nat
         /\ Cardinality({t \in DOMAIN s.Tests :
                           s.Tests[t].status \in {"pass", "skip"}}) =
              Cardinality(With(s, "pass")) + Cardinality(With(s, "skip"))
         /\ Cardinality(DOMAIN s.Tests) =
              Cardinality(With(s, "pass")) + Cardinality(With(s, "skip"))
                + Cardinality(With(s, "fail"))
<1> DEFINE P == With(s, "pass") K == With(s, "skip") F == With(s, "fail")
           Q == {t \in DOMAIN s.Tests : s.Tests[t].status \in {"pass", "skip"}}
<1>1. \A t \in DOMAIN s.Tests : s.Tests[t].status \in {"pass", "fail", "skip"}
  BY DEF Terminal
<1>2. Q = P \cup K /\ P \cap K = {}
  BY DEF With
<1>3. DOMAIN s.Tests = Q \cup F /\ Q \cap F = {}
  BY <1>1 DEF With
<1> HIDE DEF Q
<1>4. IsFiniteSet(Q) /\ IsFiniteSet(F) /\ Cardinality(F) \in Nat
      /\ Cardinality(DOMAIN s.Tests) = Cardinality(Q) + Cardinality(F)
  BY <1>3, CardinalityOfBoth
<1>5. IsFiniteSet(P) /\ IsFiniteSet(K) /\ Cardinality(P) \in Nat
      /\ Cardinality(K) \in Nat
      /\ Cardinality(Q) = Cardinality(P) + Cardinality(K)
  BY <1>2, <1>4, CardinalityOfBoth
<1> HIDE DEF P, K, F
<1>6. Cardinality(DOMAIN s.Tests) =
        Cardinality(P) + Cardinality(K) + Cardinality(F)
  BY <1>4, <1>5
<1>7. \A status \in Terminal : /\ IsFiniteSet(With(s, status))
                               /\ Cardinality(With(s, status)) \in Nat
  BY <1>4, <1>5 DEF Terminal, P, K, F
<1> QED BY <1>5, <1>6, <1>7 DEF P, K, F, Q

LEMMA FiniteNames ==
  ASSUME NEW lines \in Seq(Lines)
  PROVE  IsFiniteSet(Named(lines))
<1> DEFINE all == {lines[i].test : i \in DOMAIN lines}
           f == [i \in DOMAIN lines |-> lines[i].test]
<1>1. IsFiniteSet(DOMAIN lines)
  <2>1. DOMAIN lines = 1 .. Len(lines) /\ Len(lines) \in Int /\ 1 \in Int
    OBVIOUS
  <2> QED BY <2>1, FS_Interval
<1>2. f \in Surjection(DOMAIN lines, all)
  BY Zenon DEF Surjection
<1>3. IsFiniteSet(all)
  BY <1>1, <1>2, FS_Surjection
<1>4. Named(lines) \in SUBSET all
  BY DEF Named
<1> QED BY <1>3, <1>4, FS_Subset

(* A summary tells what the tests did if the stream does.                   *)
LEMMA ParseTells ==
  ASSUME NEW lines \in Seq(Lines), NEW leaves, Matches(lines, leaves)
  PROVE  Tells(Parse(lines), leaves)
<1> DEFINE results == FoldLeft(Apply, <<>>, lines)
           final == [t \in Reported(DOMAIN results) |-> Finished(results[t])]
           count(S) == Cardinality({t \in DOMAIN final : final[t].status \in S})
           s == Parse(lines)
<1>1. /\ s.Tests = final
      /\ s.Passed = count({"pass"}) /\ s.Skipped = count({"skip"})
      /\ s.Failed = Cardinality(DOMAIN final) - count({"pass", "skip"})
  BY DEF Parse, NoSummary
<1>2. PICK res : res = results
  OBVIOUS
<1>3. ResultsAfter(res, lines, Len(lines))
  BY <1>2, ParseResults, Zenon
<1>4. DOMAIN lines = 1 .. Len(lines)
  OBVIOUS
<1>5. DOMAIN res = Named(lines)
  BY <1>3, <1>4, Zenon DEF ResultsAfter, Named
<1>6. final = [t \in DOMAIN leaves |-> Finished(res[t])]
  BY <1>2, <1>5, Zenon DEF Matches
<1>7. IsFiniteSet(DOMAIN leaves) /\ DOMAIN leaves \subseteq DOMAIN res
  <2>1. DOMAIN leaves = Reported(Named(lines))
    BY Zenon DEF Matches
  <2>2. Reported(Named(lines)) \in SUBSET Named(lines)
    BY DEF Reported
  <2> QED BY <1>5, <2>1, <2>2, FiniteNames, FS_Subset
<1>8. ASSUME NEW t \in DOMAIN leaves
      PROVE  /\ Finished(res[t]) \in [status : Terminal, elapsed : Nat]
             /\ Finished(res[t]).status = leaves[t]
  <2>1. t \in DOMAIN res /\ res[t] \in Results
    BY <1>3, <1>7, Zenon DEF ResultsAfter
  <2>2. leaves[t] \in Terminal
    BY Zenon DEF Matches
  <2>3. CASE /\ res[t].status = "running"
             /\ \A i \in 1 .. Len(lines) :
                  lines[i].test = t => lines[i].action \notin Terminal
    <3>1. leaves[t] = "fail"
      BY <1>4, <2>3, Zenon DEF Matches
    <3>2. Finished(res[t]) = [res[t] EXCEPT !.status = "fail"]
      BY <2>3, Zenon DEF Finished
    <3> QED BY <2>1, <3>1, <3>2 DEF Results, Terminal
  <2>4. CASE \E i \in 1 .. Len(lines) :
               /\ lines[i].test = t /\ lines[i].action \in Terminal
               /\ res[t].status = lines[i].action
    <3>1. res[t].status = leaves[t]
      BY <1>4, <2>4, Zenon DEF Matches
    <3>2. leaves[t] # "running"
      BY <2>2 DEF Terminal
    <3>3. Finished(res[t]) = res[t]
      BY <3>1, <3>2, Zenon DEF Finished
    <3> QED BY <2>1, <2>2, <3>1, <3>3 DEF Results
  <2> QED BY <1>3, <2>1, <2>3, <2>4, Zenon DEF ResultsAfter
<1> HIDE DEF final, s
<1>9. /\ DOMAIN s.Tests = DOMAIN leaves
      /\ s.Tests \in [DOMAIN leaves -> [status : Terminal, elapsed : Nat]]
      /\ \A t \in DOMAIN leaves : s.Tests[t].status = leaves[t]
  BY <1>1, <1>6, <1>8, Zenon
<1>10. /\ s.Passed = Cardinality(With(s, "pass"))
       /\ s.Skipped = Cardinality(With(s, "skip"))
  <2>1. /\ With(s, "pass") = {t \in DOMAIN final : final[t].status \in {"pass"}}
        /\ With(s, "skip") = {t \in DOMAIN final : final[t].status \in {"skip"}}
    BY <1>1 DEF With
  <2> QED BY <1>1, <2>1, Zenon
<1>11. s.Failed = Cardinality(With(s, "fail"))
  <2> DEFINE p == Cardinality(With(s, "pass")) k == Cardinality(With(s, "skip"))
             f == Cardinality(With(s, "fail"))
             q == Cardinality({t \in DOMAIN s.Tests :
                                 s.Tests[t].status \in {"pass", "skip"}})
  <2>1. s.Failed = Cardinality(DOMAIN s.Tests) - q
    BY <1>1, Zenon
  <2>2. /\ p \in Nat /\ k \in Nat /\ f \in Nat /\ q = p + k
        /\ Cardinality(DOMAIN s.Tests) = p + k + f
    BY <1>7, <1>9, ThreeOutcomes DEF Terminal
  <2> HIDE DEF p, k, f, q
  <2>3. s.Failed = f
    BY <2>1, <2>2
  <2> QED BY <2>3 DEF f
<1>12. [t \in DOMAIN s.Tests |-> s.Tests[t].status] = leaves
  <2>1. leaves = [t \in DOMAIN leaves |-> leaves[t]]
    BY Zenon DEF Matches
  <2> QED BY <1>9, <2>1, Zenon
<1>13. Tells(s, leaves)
  BY <1>7, <1>9, <1>10, <1>11, <1>12, Zenon DEF Tells, Counts
<1> QED BY <1>13 DEF s

-----------------------------------------------------------------------------
(* The summary and the truth: the second inductive invariant *)

(* While the tests run, the stream has a line for every test that was begun *)
(* and no other, and a terminal line, of its status, for every one that     *)
(* ended and no other.                                                      *)
StreamTells ==
  stage = "testing" =>
    /\ stream \in Seq(Lines)
    /\ \A i \in DOMAIN stream : stream[i].test \in Tests
    /\ \A t \in Tests : tests[t] # "idle" <=>
                          \E i \in DOMAIN stream : stream[i].test = t
    /\ \A i \in DOMAIN stream : stream[i].action \in Terminal =>
                                  tests[stream[i].test] = stream[i].action
    /\ \A t \in Tests : tests[t] \in Terminal => Ended(stream, t, tests[t])

(* What the run leaves behind, if it is readable, agrees with the truth.    *)
StreamTruth ==
  stage = "reporting" /\ file = "none" /\ Torn \notin Range(stream) =>
    stream \in Seq(Lines) /\ Matches(stream, truth.leaves)

FailuresTell ==
  (\E t \in DOMAIN truth.leaves : truth.leaves[t] = "fail") => truth.failed

(* So does the summary, in memory and on disk.                              *)
Summed ==
  /\ stage = "reporting" /\ file # "none" => Tells(summary, truth.leaves)
  /\ stage = "reporting" /\ file \in {"md", "junit"} =>
       bundle.summary = summary
  /\ Whole => Tells(bundle.summary, truth.leaves)
  /\ bundle.junit # <<>> => bundle.junit = toJUnit(bundle.summary)

(* A run without a summary is one whose files could not be read or written. *)
Accounted ==
  stage \in {"aggregating", "done"} =>
    Whole \/ truth.unreadable \/ truth.unwritten

SummaryInv ==
  StreamTells /\ StreamTruth /\ FailuresTell /\ Summed /\ Accounted

LEMMA NoTestIsPackage == <<>> \notin Tests
  BY DEF Tests

LEMMA AppendLine ==
  ASSUME NEW old \in Seq(Lines), NEW line \in Lines
  PROVE  /\ Append(old, line) \in Seq(Lines)
         /\ DOMAIN Append(old, line) = DOMAIN old \cup {Len(old) + 1}
         /\ Append(old, line)[Len(old) + 1] = line
         /\ \A i \in DOMAIN old : Append(old, line)[i] = old[i]
  BY AppendProperties

LEMMA InitSummary ==
  ASSUME Init
  PROVE  SummaryInv
<1>1. StreamTells
  <2>1. stream \in Seq(Lines) /\ DOMAIN stream = {}
    BY EmptySeq DEF Init
  <2>2. \A t \in Tests : tests[t] = "idle"
    BY DEF Init
  <2> QED BY <2>1, <2>2 DEF StreamTells, Terminal
<1>2. StreamTruth /\ Accounted
  BY DEF Init, StreamTruth, Accounted
<1>3. FailuresTell
  <2>1. truth.leaves = <<>>
    BY DEF Init, Unknown
  <2>2. DOMAIN truth.leaves = {}
    BY <2>1
  <2> QED BY <2>2 DEF FailuresTell
<1>4. Summed
  BY DEF Init, Summed, Whole, NoBundle
<1> QED BY <1>1, <1>2, <1>3, <1>4 DEF SummaryInv

(* A test that begins or ends writes its line.                              *)
LEMMA TestLine ==
  ASSUME StreamTells, TestTypes, stage = "testing", stage' = stage,
         NEW t \in Tests, NEW action \in {"run"} \cup Terminal, NEW d \in Nat,
         stream' = Append(stream, Line(t, action, d)),
         \/ /\ action = "run" /\ tests[t] = "idle"
            /\ tests' = [tests EXCEPT ![t] = "running"]
         \/ /\ action \in Terminal /\ tests[t] = "running"
            /\ tests' = [tests EXCEPT ![t] = action]
  PROVE  StreamTells'
<1> DEFINE line == Line(t, action, d) last == Len(stream) + 1
<1>1. line \in Lines /\ line.test = t /\ line.action = action
  BY DEF Line, Lines
<1>2. stream \in Seq(Lines)
  BY DEF StreamTells
<1> HIDE DEF line
<1>3. /\ stream' \in Seq(Lines) /\ DOMAIN stream' = DOMAIN stream \cup {last}
      /\ stream'[last] = line
      /\ \A i \in DOMAIN stream : stream'[i] = stream[i]
  BY <1>1, <1>2, AppendLine DEF line
<1> HIDE DEF last
<1>4. /\ \A u \in Tests : u # t => tests'[u] = tests[u]
      /\ tests'[t] = IF action = "run" THEN "running" ELSE action
  BY DEF TestTypes, Terminal
<1>5. tests'[t] # "idle" /\ (tests'[t] \in Terminal <=> action \in Terminal)
  BY <1>4 DEF Terminal
<1>6. \A i \in DOMAIN stream : /\ stream[i].test \in Tests
                               /\ stream[i].action \in Terminal =>
                                    tests[stream[i].test] = stream[i].action
  BY DEF StreamTells
<1>7. tests[t] \notin Terminal
  BY DEF Terminal
<1>8. \A i \in DOMAIN stream :
        stream[i].action \in Terminal => stream[i].test # t
  BY <1>6, <1>7
<1>9. \A i \in DOMAIN stream' : stream'[i].test \in Tests
  BY <1>1, <1>3, <1>6
<1>10. ASSUME NEW u \in Tests
       PROVE  tests'[u] # "idle" <=>
                \E i \in DOMAIN stream' : stream'[i].test = u
  <2>1. CASE u = t
    BY <1>1, <1>3, <1>5, <2>1
  <2>2. CASE u # t
    <3>1. (\E i \in DOMAIN stream' : stream'[i].test = u) <=>
            \E i \in DOMAIN stream : stream[i].test = u
      BY <1>1, <1>3, <2>2
    <3>2. tests[u] # "idle" <=> \E i \in DOMAIN stream : stream[i].test = u
      BY DEF StreamTells
    <3> QED BY <1>4, <2>2, <3>1, <3>2
  <2> QED BY <2>1, <2>2
<1>11. \A i \in DOMAIN stream' : stream'[i].action \in Terminal =>
                                   tests'[stream'[i].test] = stream'[i].action
  <2> SUFFICES ASSUME NEW i \in DOMAIN stream', stream'[i].action \in Terminal
               PROVE  tests'[stream'[i].test] = stream'[i].action
    OBVIOUS
  <2>1. CASE i \in DOMAIN stream
    BY <1>3, <1>4, <1>6, <1>8, <2>1
  <2>2. CASE i = last
    BY <1>1, <1>3, <1>4, <2>2 DEF Terminal
  <2> QED BY <1>3, <2>1, <2>2
<1>12. ASSUME NEW u \in Tests, tests'[u] \in Terminal
       PROVE  Ended(stream', u, tests'[u])
  <2>1. CASE u = t
    <3>1. last \in DOMAIN stream' /\ stream'[last].test = u
          /\ stream'[last].action = tests'[u]
      BY <1>1, <1>3, <1>4, <1>5, <1>12, <2>1 DEF Terminal
    <3> QED BY <1>12, <3>1 DEF Ended
  <2>2. CASE u # t
    <3>1. Ended(stream, u, tests[u]) /\ tests'[u] = tests[u]
      BY <1>4, <1>12, <2>2 DEF StreamTells
    <3> QED BY <1>3, <3>1 DEF Ended
  <2> QED BY <2>1, <2>2
<1> QED BY <1>3, <1>9, <1>10, <1>11, <1>12, Zenon DEF StreamTells

(* Any stream with the lines of the tests, lines of the package, and failed *)
(* lines of tests still running agrees with what became of the tests.       *)
LEMMA EndMatches ==
  ASSUME StreamTells, TestTypes, stage = "testing", NEW failed \in BOOLEAN,
         NEW new \in Seq(Lines),
         \A i \in DOMAIN new :
           \/ new[i].test = <<>>
           \/ \E j \in DOMAIN stream : new[i] = stream[j]
           \/ new[i].test \in Running /\ new[i].action = "fail",
         \A j \in DOMAIN stream : \E i \in DOMAIN new : new[i] = stream[j]
  PROVE  Matches(new, Outcome(failed).leaves)
<1> DEFINE leaves == {t \in Begun : Below(t, Begun) = {}}
           ended == [t \in leaves |-> IF tests[t] = "running" THEN "fail"
                                      ELSE tests[t]]
<1>1. Outcome(failed).leaves = ended
  BY DEF Outcome, Unknown
<1>2. /\ \A j \in DOMAIN stream : stream[j].test \in Begun
      /\ \A t \in Begun : \E j \in DOMAIN stream : stream[j].test = t
  BY DEF StreamTells, Begun
<1>3. Running \subseteq Begun /\ Begun \subseteq Tests
  BY DEF Running, Begun
<1>4. Named(new) = Begun
  <2>1. \A t \in Begun : t \in Named(new)
    <3> TAKE t \in Begun
    <3>1. PICK j \in DOMAIN stream : stream[j].test = t
      BY <1>2
    <3>2. PICK i \in DOMAIN new : new[i] = stream[j]
      BY <3>1
    <3> QED BY <1>3, <3>1, <3>2, NoTestIsPackage DEF Named
  <2>2. \A t \in Named(new) : t \in Begun
    <3> TAKE t \in Named(new)
    <3>1. PICK i \in DOMAIN new : new[i].test = t /\ t # <<>>
      BY DEF Named
    <3> QED BY <1>2, <1>3, <3>1
  <2> QED BY <2>1, <2>2
<1>5. leaves = Reported(Named(new))
  BY <1>4, Zenon DEF Reported
<1>6. ASSUME NEW t \in leaves
      PROVE  /\ ended[t] \in Terminal
             /\ \A i \in DOMAIN new :
                  new[i].test = t /\ new[i].action \in Terminal =>
                    new[i].action = ended[t]
             /\ \/ ended[t] = "fail"
                \/ \E i \in DOMAIN new :
                     new[i].test = t /\ new[i].action \in Terminal
  <2>1. t \in Begun /\ t \in Tests /\ t # <<>>
    BY <1>3, NoTestIsPackage
  <2>2. tests[t] \in {"running"} \cup Terminal
    BY <2>1 DEF TestTypes, Begun
  <2>3. CASE tests[t] = "running"
    <3>1. ended[t] = "fail"
      BY <2>3
    <3>2. \A j \in DOMAIN stream :
            stream[j].test = t => stream[j].action \notin Terminal
      BY <2>3 DEF StreamTells, Terminal
    <3>3. \A i \in DOMAIN new :
            new[i].test = t /\ new[i].action \in Terminal =>
              new[i].action = "fail"
      BY <2>1, <3>2
    <3> QED BY <3>1, <3>3 DEF Terminal
  <2>4. CASE tests[t] \in Terminal
    <3>1. ended[t] = tests[t]
      BY <2>4 DEF Terminal
    <3>2. t \notin Running
      BY <2>4 DEF Running, Terminal
    <3>3. \A j \in DOMAIN stream :
            stream[j].test = t /\ stream[j].action \in Terminal =>
              stream[j].action = tests[t]
      BY DEF StreamTells
    <3>4. \A i \in DOMAIN new :
            new[i].test = t /\ new[i].action \in Terminal =>
              new[i].action = tests[t]
      BY <2>1, <3>2, <3>3
    <3>5. PICK j \in DOMAIN stream : stream[j].test = t
                                     /\ stream[j].action \in Terminal
      BY <2>1, <2>4 DEF StreamTells, Ended
    <3>6. \E i \in DOMAIN new : new[i].test = t /\ new[i].action \in Terminal
      BY <3>5
    <3> QED BY <2>4, <3>1, <3>4, <3>6
  <2> QED BY <2>2, <2>3, <2>4
<1>7. ended = [t \in Reported(Named(new)) |-> ended[t]]
  BY <1>5, Zenon
<1>8. DOMAIN ended = leaves
  BY Zenon
<1> HIDE DEF ended, leaves
<1>9. Matches(new, ended)
  BY <1>6, <1>7, <1>8, Zenon DEF Matches
<1> QED BY <1>1, <1>9

LEMMA EndSummary ==
  ASSUME EvidenceInv, SummaryInv, EndTests
  PROVE  SummaryInv'
<1>1. /\ stage = "testing" /\ stage' = "reporting"
      /\ UNCHANGED <<summary, file, bundle>>
  BY DEF EndTests, reporting
<1>2. /\ StreamTells /\ TestTypes /\ file = "none" /\ bundle.json = "absent"
      /\ bundle.junit = <<>>
  BY <1>1 DEF EvidenceInv, SummaryInv, Files
<1>3. PICK failed \in BOOLEAN :
        /\ Running # {} => failed
        /\ (\E t \in Begun : tests[t] = "fail") => failed
        /\ truth' = Outcome(failed)
        /\ \/ stream' = Append(stream, Line(<<>>, IF failed THEN "fail"
                                                  ELSE "pass", 0))
           \/ \E t \in Running :
                stream' = stream \o <<Line(t, "fail", 0),
                                      Line(<<>>, "fail", 0)>>
           \/ stream' = stream
           \/ stream' = Append(stream, Torn)
  BY Zenon DEF EndTests
<1>4. stream \in Seq(Lines)
  BY <1>1, <1>2 DEF StreamTells
<1>5. StreamTells' /\ Accounted' /\ Summed'
  BY <1>1, <1>2 DEF StreamTells, Accounted, Summed, Whole
<1>6. FailuresTell'
  <2>1. /\ truth'.failed = failed
        /\ \A t \in DOMAIN truth'.leaves :
             /\ t \in Begun
             /\ truth'.leaves[t] = IF tests[t] = "running" THEN "fail"
                                   ELSE tests[t]
    BY <1>3 DEF Outcome, Unknown
  <2> SUFFICES ASSUME NEW t \in DOMAIN truth'.leaves, truth'.leaves[t] = "fail"
               PROVE  truth'.failed
    BY DEF FailuresTell
  <2>2. t \in Begun /\ (tests[t] = "running" \/ tests[t] = "fail")
    BY <2>1
  <2>3. tests[t] = "running" => Running # {}
    BY <2>2 DEF Running, Begun
  <2> QED BY <1>3, <2>1, <2>2, <2>3
<1>7. \A action \in {"fail", "pass"}, t \in Tests \cup {<<>>} :
        /\ Line(t, action, 0) \in Lines
        /\ Line(t, action, 0).test = t /\ Line(t, action, 0).action = action
  BY DEF Line, Lines, Terminal
<1>8. StreamTruth'
  <2> SUFFICES ASSUME Torn \notin Range(stream')
               PROVE  /\ stream' \in Seq(Lines)
                      /\ Matches(stream', truth'.leaves)
    BY DEF StreamTruth
  <2> DEFINE Extends(new) ==
        /\ new \in Seq(Lines)
        /\ \A i \in DOMAIN new :
             \/ new[i].test = <<>>
             \/ \E j \in DOMAIN stream : new[i] = stream[j]
             \/ new[i].test \in Running /\ new[i].action = "fail"
        /\ \A j \in DOMAIN stream : \E i \in DOMAIN new : new[i] = stream[j]
  <2>2. ASSUME NEW action \in {"fail", "pass"}, NEW old, Extends(old)
        PROVE  Extends(Append(old, Line(<<>>, action, 0)))
    <3> DEFINE line == Line(<<>>, action, 0)
    <3>1. line \in Lines /\ line.test = <<>> /\ old \in Seq(Lines)
      BY <1>7, <2>2
    <3> HIDE DEF line
    <3>2. /\ Append(old, line) \in Seq(Lines)
          /\ DOMAIN Append(old, line) = DOMAIN old \cup {Len(old) + 1}
          /\ Append(old, line)[Len(old) + 1] = line
          /\ \A i \in DOMAIN old : Append(old, line)[i] = old[i]
      BY <3>1, AppendLine
    <3>3. Extends(Append(old, line))
      BY <2>2, <3>1, <3>2
    <3> QED BY <3>3 DEF line
  <2>3. ASSUME NEW t \in Running
        PROVE  Extends(Append(stream, Line(t, "fail", 0)))
    <3> DEFINE line == Line(t, "fail", 0)
    <3>1. line \in Lines /\ line.test = t /\ line.action = "fail"
      BY <1>7 DEF Running
    <3> HIDE DEF line
    <3>2. /\ Append(stream, line) \in Seq(Lines)
          /\ DOMAIN Append(stream, line) = DOMAIN stream \cup {Len(stream) + 1}
          /\ Append(stream, line)[Len(stream) + 1] = line
          /\ \A i \in DOMAIN stream : Append(stream, line)[i] = stream[i]
      BY <1>4, <3>1, AppendLine
    <3>3. Extends(Append(stream, line))
      BY <3>1, <3>2
    <3> QED BY <3>3 DEF line
  <2>4. Extends(stream)
    BY <1>4
  <2>5. \A t \in Running :
          stream \o <<Line(t, "fail", 0), Line(<<>>, "fail", 0)>> =
            Append(Append(stream, Line(t, "fail", 0)), Line(<<>>, "fail", 0))
    BY <1>4, <1>7 DEF Running
  <2>6. stream' # Append(stream, Torn)
    <3> SUFFICES ASSUME stream' = Append(stream, Torn) PROVE FALSE
      OBVIOUS
    <3>1. Len(stream) + 1 \in DOMAIN stream' /\ stream'[Len(stream) + 1] = Torn
      BY <1>4
    <3> QED BY <3>1 DEF Range
  <2> HIDE DEF Extends
  <2>7. Extends(stream')
    BY <1>3, <2>2, <2>3, <2>4, <2>5, <2>6
  <2> QED BY <1>1, <1>2, <1>3, <2>7, EndMatches DEF Extends
<1> QED BY <1>5, <1>6, <1>8 DEF SummaryInv

(* The checkpoints are not counted.                                         *)
LEMMA TellsByFields ==
  ASSUME NEW s, NEW u, NEW leaves, Tells(s, leaves), u.Tests = s.Tests,
         u.Passed = s.Passed, u.Failed = s.Failed, u.Skipped = s.Skipped
  PROVE  Tells(u, leaves)
  BY Zenon DEF Tells, Counts, With

LEMMA SummariseSummary ==
  ASSUME EvidenceInv, SummaryInv, Summarise
  PROVE  SummaryInv'
<1>1. /\ stage = "reporting" /\ file = "none" /\ UNCHANGED bundle
  BY DEF Summarise
<1>2. /\ HistoryTypes /\ bundle.json = "absent" /\ bundle.junit = <<>>
      /\ StreamTruth /\ FailuresTell
  BY <1>1 DEF EvidenceInv, ReportTypes, SummaryInv, Files
<1>3. \/ /\ Torn \notin Range(stream)
         /\ \E events :
              summary' = [Parse(stream) EXCEPT !.Checkpoints = events]
         /\ \E opened \in BOOLEAN : truth' = [truth EXCEPT !.unopened = ~opened]
         /\ file' = "json" /\ stage' = stage
      \/ /\ truth' = [truth EXCEPT !.unreadable = TRUE]
         /\ stage' = "aggregating" /\ UNCHANGED <<summary, file>>
  BY Zenon DEF Summarise
<1>4. /\ truth'.leaves = truth.leaves /\ truth'.failed = truth.failed
      /\ stage' = "aggregating" => truth'.unreadable
  BY <1>1, <1>2, <1>3 DEF HistoryTypes
<1>5. FailuresTell'
  BY <1>2, <1>4 DEF FailuresTell
<1>6. StreamTells' /\ StreamTruth' /\ Accounted'
  BY <1>1, <1>3, <1>4 DEF StreamTells, StreamTruth, Accounted
<1>7. stage' = "reporting" => Tells(summary', truth'.leaves)
  <2> SUFFICES ASSUME stage' = "reporting"
               PROVE  Tells(summary', truth'.leaves)
    OBVIOUS
  <2>1. PICK events : summary' = [Parse(stream) EXCEPT !.Checkpoints = events]
    BY <1>3
  <2>2. Torn \notin Range(stream)
    BY <1>3
  <2>3. Tells(Parse(stream), truth.leaves)
    BY <1>1, <1>2, <2>2, ParseTells DEF StreamTruth
  <2>4. /\ summary'.Tests = Parse(stream).Tests
        /\ summary'.Passed = Parse(stream).Passed
        /\ summary'.Failed = Parse(stream).Failed
        /\ summary'.Skipped = Parse(stream).Skipped
    <3> DEFINE p == Parse(stream)
    <3>1. p = [Tests |-> p.Tests, Passed |-> p.Passed, Failed |-> p.Failed,
               Skipped |-> p.Skipped, Checkpoints |-> p.Checkpoints]
      <4>1. \E a, b, c, d : p = [NoSummary EXCEPT
              !.Tests = a, !.Passed = b, !.Skipped = c, !.Failed = d]
        BY Zenon DEF Parse
      <4> HIDE DEF p
      <4> QED BY <4>1 DEF NoSummary
    <3> HIDE DEF p
    <3>2. summary' = [p EXCEPT !.Checkpoints = events]
      BY <2>1 DEF p
    <3> QED BY <3>1, <3>2 DEF p
  <2> QED BY <1>4, <2>3, <2>4, TellsByFields
<1>8. Summed'
  BY <1>1, <1>2, <1>3, <1>7 DEF Summed, Whole
<1> QED BY <1>5, <1>6, <1>8 DEF SummaryInv

LEMMA WriteSummary ==
  ASSUME EvidenceInv, SummaryInv, WriteBundle
  PROVE  SummaryInv'
<1>1. stage = "reporting" /\ file # "none" /\ UNCHANGED summary
  BY DEF WriteBundle
<1>2. /\ ControlTypes /\ HistoryTypes /\ BundleTypes /\ Files
      /\ FailuresTell /\ Summed
  BY DEF EvidenceInv, ReportTypes, SummaryInv
<1>3. file = "json" \/ file = "md" \/ file = "junit"
  BY <1>1, <1>2 DEF ControlTypes
<1>4. Tells(summary, truth.leaves)
  BY <1>1, <1>2 DEF Summed
<1>5. ASSUME file' = "none", stage' = "aggregating",
             truth' = [truth EXCEPT !.unwritten = TRUE],
             NEW left \in {"absent", "torn"},
             bundle' = IF file = "json" THEN [bundle EXCEPT !.json = left]
                       ELSE bundle
      PROVE  SummaryInv'
  <2>1. /\ truth'.leaves = truth.leaves /\ truth'.failed = truth.failed
        /\ truth'.unwritten
    BY <1>2, <1>5 DEF HistoryTypes
  <2>2. FailuresTell' /\ StreamTells' /\ StreamTruth' /\ Accounted'
    BY <1>2, <1>5, <2>1
       DEF FailuresTell, StreamTells, StreamTruth, Accounted
  <2>3. CASE file = "json"
    <3>1. bundle'.json = left /\ bundle'.junit = bundle.junit
      BY <1>2, <1>5, <2>3 DEF BundleTypes
    <3>2. bundle.junit = <<>>
      BY <1>1, <1>2, <2>3 DEF Files
    <3>3. Summed'
      BY <1>5, <3>1, <3>2 DEF Summed, Whole
    <3> QED BY <2>2, <3>3 DEF SummaryInv
  <2>4. CASE file # "json"
    <3>1. Summed'
      BY <1>2, <1>5, <2>1, <2>4 DEF Summed, Whole
    <3> QED BY <2>2, <3>1 DEF SummaryInv
  <2> QED BY <2>3, <2>4
<1>6. ASSUME file = "json", truth' = truth, stage' = stage, file' = "md",
             bundle' = [bundle EXCEPT !.json = "whole", !.summary = summary]
      PROVE  SummaryInv'
  <2>1. /\ bundle'.json = "whole" /\ bundle'.summary = summary
        /\ bundle'.junit = <<>>
    BY <1>1, <1>2, <1>6 DEF BundleTypes, Files
  <2>2. Summed'
    BY <1>1, <1>4, <1>6, <2>1 DEF Summed, Whole
  <2> QED BY <1>1, <1>2, <1>6, <2>2
          DEF SummaryInv, FailuresTell, StreamTells, StreamTruth, Accounted
<1>7. ASSUME file = "md", truth' = truth, stage' = stage, file' = "junit",
             bundle' = [bundle EXCEPT !.md = TRUE]
      PROVE  SummaryInv'
  <2>1. /\ bundle'.json = bundle.json /\ bundle'.summary = bundle.summary
        /\ bundle'.junit = bundle.junit
    BY <1>2, <1>7 DEF BundleTypes
  <2>2. Summed'
    BY <1>1, <1>2, <1>4, <1>7, <2>1 DEF Summed, Whole
  <2> QED BY <1>1, <1>2, <1>7, <2>2
          DEF SummaryInv, FailuresTell, StreamTells, StreamTruth, Accounted
<1>8. ASSUME file = "junit", truth' = truth, stage' = "aggregating",
             file' = "none",
             bundle' = [bundle EXCEPT !.junit = toJUnit(summary)]
      PROVE  SummaryInv'
  <2>1. /\ bundle'.json = bundle.json /\ bundle'.summary = bundle.summary
        /\ bundle'.junit = toJUnit(summary)
    BY <1>2, <1>8 DEF BundleTypes
  <2>2. Whole /\ bundle.summary = summary
    BY <1>1, <1>2, <1>8 DEF Files, Summed
  <2>3. Summed' /\ Accounted'
    BY <1>1, <1>2, <1>4, <1>8, <2>1, <2>2 DEF Summed, Whole, Accounted
  <2> QED BY <1>1, <1>2, <1>8, <2>3
          DEF SummaryInv, FailuresTell, StreamTells, StreamTruth
<1>9. CASE /\ \E left \in {"absent", "torn"} :
                bundle' = IF file = "json"
                          THEN [bundle EXCEPT !.json = left] ELSE bundle
           /\ AfterFailure(file)
           /\ truth' = [truth EXCEPT !.unwritten = TRUE]
  BY <1>5, <1>9 DEF AfterFailure
<1>10. CASE /\ bundle' =
                 CASE file = "json" -> [bundle EXCEPT !.json = "whole",
                                                      !.summary = summary]
                   [] file = "md" -> [bundle EXCEPT !.md = TRUE]
                   [] file = "junit" -> [bundle EXCEPT
                                           !.junit = toJUnit(summary)]
            /\ file' = Following(file)
            /\ stage' = IF file = "junit" THEN "aggregating" ELSE stage
            /\ UNCHANGED truth
  <2>1. CASE file = "json"
    BY <1>6, <1>10, <2>1 DEF Following
  <2>2. CASE file = "md"
    BY <1>7, <1>10, <2>2 DEF Following
  <2>3. CASE file = "junit"
    BY <1>8, <1>10, <2>3 DEF Following
  <2> QED BY <1>3, <2>1, <2>2, <2>3
<1> QED BY <1>9, <1>10, Zenon DEF WriteBundle

(* The other steps touch neither the results of the tests nor the bundle.   *)
LEMMA OtherSummary ==
  ASSUME EvidenceInv, SummaryInv,
         UNCHANGED <<truth, summary, file, bundle>>,
         \/ stage' = stage /\ UNCHANGED <<tests, stream>>
         \/ stage = "aggregating" /\ stage' = "done"
  PROVE  SummaryInv'
<1>1. StreamTells' /\ StreamTruth'
  BY DEF SummaryInv, StreamTells, StreamTruth
<1>2. FailuresTell' /\ Accounted'
  BY DEF SummaryInv, FailuresTell, Accounted, Whole
<1>3. Summed'
  BY DEF SummaryInv, Summed, Whole
<1> QED BY <1>1, <1>2, <1>3 DEF SummaryInv

LEMMA TestSummary ==
  ASSUME EvidenceInv, SummaryInv, NEW t \in Tests,
         \/ StartTest(t)
         \/ \E s \in Terminal, d \in Durations : FinishTest(t, s, d)
  PROVE  SummaryInv'
<1>1. /\ stage = "testing" /\ UNCHANGED <<stage, summary, file, bundle, truth>>
      /\ \E action \in {"run"} \cup Terminal, d \in Nat :
           /\ stream' = Append(stream, Line(t, action, d))
           /\ \/ /\ action = "run" /\ tests[t] = "idle"
                 /\ tests' = [tests EXCEPT ![t] = "running"]
              \/ /\ action \in Terminal /\ tests[t] = "running"
                 /\ tests' = [tests EXCEPT ![t] = action]
  BY EvidenceAssumption DEF StartTest, FinishTest, reporting
<1>2. StreamTells'
  BY <1>1, TestLine DEF EvidenceInv, SummaryInv
<1>3. StreamTruth' /\ FailuresTell' /\ Summed' /\ Accounted'
  BY <1>1 DEF SummaryInv, StreamTruth, FailuresTell, Summed, Accounted, Whole
<1> QED BY <1>2, <1>3 DEF SummaryInv

LEMMA NextSummary ==
  ASSUME EvidenceInv, SummaryInv, [Next]_vars
  PROVE  SummaryInv'
<1>1. CASE UNCHANGED vars
  BY <1>1, OtherSummary DEF vars
<1>2. ASSUME NEW o \in Observers, Stamp(o) \/ Record(o)
      PROVE  SummaryInv'
  <2>1. UNCHANGED <<stage, tests, stream, truth, summary, file, bundle>>
    BY <1>2 DEF Stamp, Record, reporting
  <2> QED BY <2>1, OtherSummary
<1>3. CASE Aggregate
  <2>1. /\ stage = "aggregating" /\ stage' = "done"
        /\ UNCHANGED <<truth, summary, file, bundle>>
    BY <1>3 DEF Aggregate
  <2> QED BY <2>1, OtherSummary
<1> QED BY <1>1, <1>2, <1>3, TestSummary, EndSummary, SummariseSummary,
           WriteSummary DEF Next

LEMMA SummaryInvariant == Spec => [](EvidenceInv /\ SummaryInv)
<1>1. Init => SummaryInv
  BY InitSummary
<1>2. EvidenceInv /\ SummaryInv /\ [Next]_vars => SummaryInv'
  BY NextSummary
<1> QED BY <1>1, <1>2, EvidenceInvariant, PTL DEF Spec

(* Whatever the interleaving of any tests, and whatever cut the run short,  *)
(* a whole summary.json names the leaf tests that were begun and no others, *)
(* each with the status it ended with or, if the run ended under it, as     *)
(* failed (Parse, WriteBundle).                                             *)
THEOREM SummaryIsTrue == Spec => []SummaryTellsTheTruth
<1>1. SummaryInv => SummaryTellsTheTruth
  BY DEF SummaryInv, Summed, Tells, SummaryTellsTheTruth
<1> QED BY <1>1, SummaryInvariant, PTL

(* For any number of tests, junit.xml marks as many cases failed as it      *)
(* counts, and its cases are the tests that summary.json counts as passed,  *)
(* failed or skipped (Parse, toJUnit).                                      *)
THEOREM JUnitIsConsistent == Spec => []JUnitAgrees
<1>1. EvidenceInv /\ SummaryInv => JUnitAgrees
  <2> SUFFICES ASSUME EvidenceInv, SummaryInv, bundle.junit # <<>>
               PROVE  /\ Cardinality(bundle.junit.failed) =
                           bundle.junit.failures
                      /\ bundle.junit.tests =
                           bundle.summary.Passed + bundle.summary.Failed
                             + bundle.summary.Skipped
    BY DEF JUnitAgrees
  <2> DEFINE s == bundle.summary
  <2>1. Whole
    BY DEF EvidenceInv, Files
  <2>2. Counts(s) /\ bundle.junit = toJUnit(s)
    BY <2>1 DEF SummaryInv, Summed, Tells
  <2> HIDE DEF s
  <2>3. /\ bundle.junit.tests = Cardinality(DOMAIN s.Tests)
        /\ bundle.junit.failures = s.Failed
        /\ bundle.junit.failed = With(s, "fail")
    BY <2>2 DEF toJUnit, With
  <2>4. /\ Cardinality(DOMAIN s.Tests) =
             Cardinality(With(s, "pass")) + Cardinality(With(s, "skip"))
               + Cardinality(With(s, "fail"))
        /\ Cardinality(With(s, "pass")) \in Nat
        /\ Cardinality(With(s, "skip")) \in Nat
        /\ Cardinality(With(s, "fail")) \in Nat
    BY <2>2, ThreeOutcomes DEF Counts, Terminal
  <2>5. bundle.junit.tests = s.Passed + s.Failed + s.Skipped
    BY <2>2, <2>3, <2>4 DEF Counts
  <2>6. Cardinality(bundle.junit.failed) = bundle.junit.failures
    BY <2>2, <2>3 DEF Counts
  <2> QED BY <2>5, <2>6 DEF s
<1> QED BY <1>1, SummaryInvariant, PTL

-----------------------------------------------------------------------------
(* What aggregate makes of the summaries *)

Zero == [Executions |-> 0, Passed |-> 0, Failed |-> 0, durations |-> <<>>]
Known(by, n) == IF n \in DOMAIN by THEN by[n] ELSE Zero
Added(known, test) ==
  counted([known EXCEPT !.Executions = @ + 1,
             !.durations = Append(@, test.elapsed)], test.status)

(* The scenarios after those tests of a run whose names are in s.           *)
TestsAdded(by, before, run, s) ==
  /\ DOMAIN by = DOMAIN before \cup s
  /\ \A n \in s : by[n] = Added(Known(before, n), run[n])
  /\ \A n \in DOMAIN before : n \notin s => by[n] = before[n]

LEMMA AddOneTest ==
  ASSUME NEW before, NEW run, NEW s, NEW x \in s, NEW by,
         TestsAdded(by, before, run, s \ {x})
  PROVE  TestsAdded(AddTest(by, x, run[x]), before, run, s)
<1> DEFINE new == AddTest(by, x, run[x])
           added == Added(Known(by, x), run[x])
<1>1. new = [n \in DOMAIN by \cup {x} |-> IF n = x THEN added ELSE by[n]]
  BY Zenon DEF AddTest, Added, Known, Zero
<1>2. DOMAIN by = DOMAIN before \cup (s \ {x})
  BY DEF TestsAdded
<1> HIDE DEF new, added
<1>3. /\ DOMAIN new = DOMAIN before \cup s /\ new[x] = added
      /\ \A n \in DOMAIN by : n # x => new[n] = by[n]
  BY <1>1, <1>2
<1>4. Known(by, x) = Known(before, x)
  <2>1. x \in DOMAIN by <=> x \in DOMAIN before
    BY <1>2
  <2>2. x \in DOMAIN before => by[x] = before[x]
    BY DEF TestsAdded
  <2> QED BY <2>1, <2>2, Zenon DEF Known
<1>5. \A n \in s : new[n] = Added(Known(before, n), run[n])
  <2> TAKE n \in s
  <2>1. CASE n = x
    BY <1>3, <1>4, <2>1, Zenon DEF added
  <2>2. CASE n # x
    <3>1. n \in s \ {x} /\ n \in DOMAIN by
      BY <1>2, <2>2
    <3> QED BY <1>3, <2>2, <3>1, Zenon DEF TestsAdded
  <2> QED BY <2>1, <2>2
<1>6. \A n \in DOMAIN before : n \notin s => new[n] = before[n]
  <2> SUFFICES ASSUME NEW n \in DOMAIN before, n \notin s
               PROVE  new[n] = before[n]
    OBVIOUS
  <2>1. n \in DOMAIN by /\ n # x /\ n \notin s \ {x}
    BY <1>2
  <2> QED BY <1>3, <2>1, Zenon DEF TestsAdded
<1>7. TestsAdded(new, before, run, s)
  BY <1>3, <1>5, <1>6, Zenon DEF TestsAdded
<1> QED BY <1>7 DEF new

(* The tests of a run are added in some order, each once.                   *)
LEMMA AddTests ==
  ASSUME NEW run, IsFiniteSet(DOMAIN run), NEW before
  PROVE  TestsAdded(FoldSet(LAMBDA t, acc : AddTest(acc, t, run[t]), before,
                            DOMAIN run),
                    before, run, DOMAIN run)
<1> DEFINE S == DOMAIN run
           pick(s) == CHOOSE x \in s : TRUE
           ch == [s \in SUBSET S |-> pick(s)]
           IsIter(iter) ==
             iter = [s \in SUBSET S |->
                       IF s = {} THEN before
                       ELSE AddTest(iter[s \ {CHOOSE x \in s : TRUE}],
                                    CHOOSE x \in s : TRUE,
                                    run[CHOOSE x \in s : TRUE])]
           it == CHOOSE iter : IsIter(iter)
<1>1. FoldSet(LAMBDA t, acc : AddTest(acc, t, run[t]), before, S) = it[S]
  BY Zenon DEF FoldSet, MapThenFoldSet
<1>2. \A s \in SUBSET S : /\ ch[s] = CHOOSE x \in s : TRUE
                          /\ s # {} => ch[s] \in s
  BY Zenon
<1> HIDE DEF ch
<1>3. \E iter : IsIter(iter)
  <2>1. \A s \in SUBSET S : s # {} => ch[s] \in s
    BY <1>2, Zenon
  <2>2. PICK iter : Iterates(iter, S, ch, "tests", run, before)
    BY <2>1, FoldExists, Zenon
  <2>3. \A acc, x : Step("tests", run, acc, x) = AddTest(acc, x, run[x])
    BY DEF Step
  <2>4. \A s \in SUBSET S :
          iter[s] = IF s = {} THEN before
                    ELSE AddTest(iter[s \ {CHOOSE x \in s : TRUE}],
                                 CHOOSE x \in s : TRUE,
                                 run[CHOOSE x \in s : TRUE])
    <3> TAKE s \in SUBSET S
    <3>1. iter[s] = IF s = {} THEN before
                    ELSE AddTest(iter[s \ {ch[s]}], ch[s], run[ch[s]])
      BY <2>2, <2>3, Zenon DEF Iterates
    <3>2. ch[s] = CHOOSE x \in s : TRUE
      BY <1>2
    <3> QED BY <3>1, <3>2, Zenon
  <2>5. IsIter(iter)
    <3>1. iter = [s \in SUBSET S |-> iter[s]]
      BY <2>2, Zenon DEF Iterates
    <3> QED BY <2>4, <3>1, Zenon
  <2> QED BY <2>5, Zenon
<1>4. \A s \in SUBSET S :
        it[s] = IF s = {} THEN before
                ELSE AddTest(it[s \ {ch[s]}], ch[s], run[ch[s]])
  BY <1>2, <1>3, Zenon
<1> HIDE DEF it
<1> DEFINE P == {s \in SUBSET S : TestsAdded(it[s], before, run, s)}
<1>5. {} \in P
  <2>1. {} \in SUBSET S
    OBVIOUS
  <2>2. it[{}] = before
    BY <1>4, <2>1, Zenon
  <2>3. TestsAdded(before, before, run, {})
    BY DEF TestsAdded
  <2> QED BY <2>1, <2>2, <2>3, Zenon
<1>6. ASSUME NEW s \in SUBSET S, s # {}
      PROVE  ch[s] \in s /\ (s \ {ch[s]} \in P => s \in P)
  <2>1. ch[s] \in s
    BY <1>2, <1>6, Zenon
  <2>2. it[s] = AddTest(it[s \ {ch[s]}], ch[s], run[ch[s]])
    BY <1>4, <1>6, Zenon
  <2>3. TestsAdded(it[s \ {ch[s]}], before, run, s \ {ch[s]}) =>
          TestsAdded(it[s], before, run, s)
    BY <2>1, <2>2, AddOneTest, Zenon
  <2> QED BY <2>1, <2>3, Zenon
<1> HIDE DEF P
<1>7. S \in P
  BY <1>5, <1>6, SubsetInduction, Zenon
<1> QED BY <1>1, <1>7, Zenon DEF P

Scenarios ==
  [Executions : Nat, Passed : Nat, Failed : Nat, durations : Seq(Nat)]
TestsOf(entries, i) == entries[i].summary.Tests

(* The first k runs with a status in S for a scenario, the executions of    *)
(* the first k runs, and those of the first k runs that failed.             *)
Where(entries, k, n, S) ==
  {i \in 1 .. k : /\ n \in DOMAIN TestsOf(entries, i)
                  /\ TestsOf(entries, i)[n].status \in S}
Executed(entries, k) ==
  UNION {{i} \X DOMAIN TestsOf(entries, i) : i \in 1 .. k}
FailedIn(entries, k) == {i \in 1 .. k : ~passing(entries[i].summary)}

ScenarioAfter(sc, entries, k, n) ==
  /\ sc \in Scenarios
  /\ sc.Passed = Cardinality(Where(entries, k, n, {"pass"}))
  /\ sc.Failed = Cardinality(Where(entries, k, n, {"fail"}))
  /\ sc.Executions = Cardinality(Where(entries, k, n, Terminal))
  /\ Len(sc.durations) = sc.Executions

(* The totals after the first k runs.                                       *)
RunsAfter(total, entries, k) ==
  /\ total.Runs = k
  /\ total.PassingRuns \in Nat /\ total.FailingRuns \in Nat
  /\ total.PassingRuns + total.FailingRuns = k
  /\ total.FailedRunIDs = {entries[i].id : i \in FailedIn(entries, k)}
  /\ IsFiniteSet(total.FailedRunIDs)
  /\ total.FailingRuns = Cardinality(total.FailedRunIDs)
  /\ DOMAIN total.byScenario =
       UNION {DOMAIN TestsOf(entries, i) : i \in 1 .. k}
  /\ \A n \in DOMAIN total.byScenario :
       ScenarioAfter(total.byScenario[n], entries, k, n)
  /\ IsFiniteSet(Executed(entries, k))
  /\ total.ScenarioExecutions = Cardinality(Executed(entries, k))

(* The summaries of a campaign: each counts its tests, no two have the same *)
(* name.                                                                    *)
Campaign(entries, n) ==
  /\ DOMAIN entries = 1 .. n
  /\ \A i \in 1 .. n : Counts(entries[i].summary)
  /\ \A i, j \in 1 .. n : entries[i].id = entries[j].id => i = j

LEMMA WhereNext ==
  ASSUME NEW entries, NEW k \in Nat, k # 0, NEW n, NEW S
  PROVE  /\ Cardinality(Where(entries, k - 1, n, S)) \in Nat
         /\ Cardinality(Where(entries, k, n, S)) =
              IF /\ n \in DOMAIN TestsOf(entries, k)
                 /\ TestsOf(entries, k)[n].status \in S
              THEN Cardinality(Where(entries, k - 1, n, S)) + 1
              ELSE Cardinality(Where(entries, k - 1, n, S))
<1> DEFINE W == Where(entries, k - 1, n, S)
           yes == /\ n \in DOMAIN TestsOf(entries, k)
                  /\ TestsOf(entries, k)[n].status \in S
<1>1. 1 .. k = (1 .. (k - 1)) \cup {k} /\ k \notin 1 .. (k - 1)
  OBVIOUS
<1>2. Where(entries, k, n, S) = (IF yes THEN W \cup {k} ELSE W) /\ k \notin W
  <2>1. CASE yes
    BY <1>1, <2>1 DEF Where
  <2>2. CASE ~yes
    BY <1>1, <2>2 DEF Where
  <2> QED BY <2>1, <2>2
<1>3. IsFiniteSet(W) /\ Cardinality(W) \in Nat
  <2>1. W \in SUBSET (1 .. (k - 1))
    BY DEF Where
  <2>2. IsFiniteSet(1 .. (k - 1))
    BY FS_Interval
  <2> QED BY <2>1, <2>2, FS_Subset, FS_CardinalityType
<1> HIDE DEF W, yes
<1>4. Cardinality(Where(entries, k, n, S)) =
        IF yes THEN Cardinality(W) + 1 ELSE Cardinality(W)
  BY <1>2, <1>3, FS_AddElement
<1> QED BY <1>3, <1>4, Zenon DEF W, yes

(* A test counts once for its run and once for its scenario.                *)
LEMMA AddedCounts ==
  ASSUME NEW known \in Scenarios, Len(known.durations) = known.Executions,
         NEW test \in [status : Terminal, elapsed : Nat],
         NEW sc, sc = Added(known, test)
  PROVE  /\ sc \in Scenarios /\ sc.Executions = known.Executions + 1
         /\ sc.Passed = known.Passed + (IF test.status = "pass" THEN 1 ELSE 0)
         /\ sc.Failed = known.Failed + (IF test.status = "fail" THEN 1 ELSE 0)
         /\ Len(sc.durations) = sc.Executions
<1> DEFINE longer == Append(known.durations, test.elapsed)
           more == [known EXCEPT !.Executions = @ + 1,
                      !.durations = Append(@, test.elapsed)]
<1>1. longer \in Seq(Nat) /\ Len(longer) = Len(known.durations) + 1
  BY AppendProperties DEF Scenarios
<1>2. known = [Executions |-> known.Executions, Passed |-> known.Passed,
               Failed |-> known.Failed, durations |-> known.durations]
      /\ known.Executions \in Nat /\ known.Passed \in Nat
      /\ known.Failed \in Nat
  BY DEF Scenarios
<1>3. more = [Executions |-> known.Executions + 1, Passed |-> known.Passed,
              Failed |-> known.Failed, durations |-> longer]
  <2>1. PICK e, p, f, d : known = [Executions |-> e, Passed |-> p,
                                   Failed |-> f, durations |-> d]
    BY <1>2
  <2>2. known.Executions = e /\ known.Passed = p /\ known.Failed = f
        /\ known.durations = d
    BY <2>1
  <2>3. more = [Executions |-> e + 1, Passed |-> p, Failed |-> f,
                durations |-> Append(d, test.elapsed)]
    <3>2. PICK g, l : g = e + 1 /\ l = Append(d, test.elapsed)
      OBVIOUS
    <3>3. more = [known EXCEPT !.Executions = known.Executions + 1,
                    !.durations = Append(known.durations, test.elapsed)]
      OBVIOUS
    <3>4. more = [known EXCEPT !.Executions = g, !.durations = l]
      BY <2>2, <3>2, <3>3, Zenon
    <3> HIDE DEF more
    <3>5. more = [Executions |-> g, Passed |-> p, Failed |-> f,
                  durations |-> l]
      BY <2>1, <3>4
    <3> QED BY <3>2, <3>5, Zenon
  <2> QED BY <2>2, <2>3, Zenon
<1>4. sc = counted(more, test.status)
  BY DEF Added
<1>5. test.status \in {"pass", "fail", "skip"}
  BY DEF Terminal
<1> HIDE DEF more, longer
<1>6. sc = [Executions |-> known.Executions + 1,
            Passed |-> known.Passed + (IF test.status = "pass" THEN 1 ELSE 0),
            Failed |-> known.Failed + (IF test.status = "fail" THEN 1 ELSE 0),
            durations |-> longer]
  <2>1. CASE test.status = "pass"
    <3>1. sc = [more EXCEPT !.Passed = @ + 1]
      BY <1>4, <2>1 DEF counted
    <3> QED BY <1>2, <1>3, <2>1, <3>1
  <2>2. CASE test.status = "fail"
    <3>1. sc = [more EXCEPT !.Failed = @ + 1]
      BY <1>4, <2>2 DEF counted
    <3> QED BY <1>2, <1>3, <2>2, <3>1
  <2>3. CASE test.status = "skip"
    <3>1. sc = more
      BY <1>4, <2>3 DEF counted
    <3> QED BY <1>2, <1>3, <2>3, <3>1
  <2> QED BY <1>5, <2>1, <2>2, <2>3
<1> QED BY <1>1, <1>2, <1>6 DEF Scenarios

LEMMA ScenarioNext ==
  ASSUME NEW entries, NEW k \in Nat, k # 0, NEW n, NEW known,
         ScenarioAfter(known, entries, k - 1, n)
  PROVE  /\ n \notin DOMAIN TestsOf(entries, k) =>
              ScenarioAfter(known, entries, k, n)
         /\ /\ n \in DOMAIN TestsOf(entries, k)
            /\ TestsOf(entries, k)[n] \in [status : Terminal, elapsed : Nat]
            => ScenarioAfter(Added(known, TestsOf(entries, k)[n]), entries, k, n)
<1>1. CASE n \notin DOMAIN TestsOf(entries, k)
  BY <1>1, WhereNext DEF ScenarioAfter
<1>2. ASSUME n \in DOMAIN TestsOf(entries, k),
             TestsOf(entries, k)[n] \in [status : Terminal, elapsed : Nat]
      PROVE  ScenarioAfter(Added(known, TestsOf(entries, k)[n]), entries, k, n)
  <2> DEFINE test == TestsOf(entries, k)[n]
  <2>1. PICK sc : sc = Added(known, test)
    OBVIOUS
  <2>2. test.status \in Terminal
    BY <1>2
  <2>3. /\ Cardinality(Where(entries, k, n, {"pass"})) =
             Cardinality(Where(entries, k - 1, n, {"pass"}))
               + (IF test.status = "pass" THEN 1 ELSE 0)
        /\ Cardinality(Where(entries, k, n, {"fail"})) =
             Cardinality(Where(entries, k - 1, n, {"fail"}))
               + (IF test.status = "fail" THEN 1 ELSE 0)
        /\ Cardinality(Where(entries, k, n, Terminal)) =
             Cardinality(Where(entries, k - 1, n, Terminal)) + 1
    <3>1. \A S : Cardinality(Where(entries, k - 1, n, S)) \in Nat
                 /\ Cardinality(Where(entries, k, n, S)) =
                      IF test.status \in S
                      THEN Cardinality(Where(entries, k - 1, n, S)) + 1
                      ELSE Cardinality(Where(entries, k - 1, n, S))
      BY <1>2, WhereNext
    <3> HIDE DEF test
    <3> QED BY <2>2, <3>1
  <2> HIDE DEF test
  <2>4. test \in [status : Terminal, elapsed : Nat]
    BY <1>2 DEF test
  <2>5. /\ sc \in Scenarios /\ sc.Executions = known.Executions + 1
        /\ sc.Passed = known.Passed + (IF test.status = "pass" THEN 1 ELSE 0)
        /\ sc.Failed = known.Failed + (IF test.status = "fail" THEN 1 ELSE 0)
        /\ Len(sc.durations) = sc.Executions
    BY <2>1, <2>4, AddedCounts DEF ScenarioAfter
  <2>6. ScenarioAfter(sc, entries, k, n)
    BY <2>3, <2>5 DEF ScenarioAfter
  <2> QED BY <2>1, <2>6 DEF test
<1> QED BY <1>1, <1>2

LEMMA ScenariosNext ==
  ASSUME NEW entries, NEW k \in Nat, k # 0, NEW before, NEW by,
         Counts(entries[k].summary),
         DOMAIN before = UNION {DOMAIN TestsOf(entries, i) : i \in 1 .. (k - 1)},
         \A n \in DOMAIN before : ScenarioAfter(before[n], entries, k - 1, n),
         TestsAdded(by, before, TestsOf(entries, k), DOMAIN TestsOf(entries, k))
  PROVE  /\ DOMAIN by = UNION {DOMAIN TestsOf(entries, i) : i \in 1 .. k}
         /\ \A n \in DOMAIN by : ScenarioAfter(by[n], entries, k, n)
<1> DEFINE run == TestsOf(entries, k)
<1>1. 1 .. k = (1 .. (k - 1)) \cup {k}
  OBVIOUS
<1>2. DOMAIN by = DOMAIN before \cup DOMAIN run
  BY Zenon DEF TestsAdded
<1>3. DOMAIN by = UNION {DOMAIN TestsOf(entries, i) : i \in 1 .. k}
  BY <1>1, <1>2, Zenon
<1>4. \A n \in DOMAIN run : run[n] \in [status : Terminal, elapsed : Nat]
  BY DEF Counts, TestsOf
<1>5. ASSUME NEW n, n \notin DOMAIN before
      PROVE  ScenarioAfter(Zero, entries, k - 1, n)
  <2>1. \A i \in 1 .. (k - 1) : n \notin DOMAIN TestsOf(entries, i)
    BY <1>5, Zenon
  <2>2. \A S : Where(entries, k - 1, n, S) = {}
    BY <2>1, Zenon DEF Where
  <2>3. \A S : Cardinality(Where(entries, k - 1, n, S)) = 0
    BY <2>2, FS_EmptySet, Zenon
  <2>4. /\ Zero \in Scenarios /\ Zero.Passed = 0 /\ Zero.Failed = 0
        /\ Zero.Executions = 0 /\ Len(Zero.durations) = 0
    BY EmptySeq DEF Zero, Scenarios
  <2> QED BY <2>3, <2>4, Zenon DEF ScenarioAfter
<1>6. ASSUME NEW n \in DOMAIN run
      PROVE  ScenarioAfter(by[n], entries, k, n)
  <2>1. by[n] = Added(Known(before, n), run[n])
    BY Zenon DEF TestsAdded
  <2>2. ScenarioAfter(Known(before, n), entries, k - 1, n)
    BY <1>5, Zenon DEF Known
  <2> QED BY <1>4, <2>1, <2>2, ScenarioNext
<1>7. ASSUME NEW n \in DOMAIN before, n \notin DOMAIN run
      PROVE  ScenarioAfter(by[n], entries, k, n)
  <2>1. by[n] = before[n] /\ ScenarioAfter(before[n], entries, k - 1, n)
    BY <1>7, Zenon DEF TestsAdded
  <2> QED BY <1>7, <2>1, ScenarioNext
<1> QED BY <1>2, <1>3, <1>6, <1>7, Zenon

LEMMA ExecutedNext ==
  ASSUME NEW entries, NEW k \in Nat, k # 0,
         IsFiniteSet(DOMAIN TestsOf(entries, k)),
         IsFiniteSet(Executed(entries, k - 1))
  PROVE  /\ IsFiniteSet(Executed(entries, k))
         /\ Cardinality(Executed(entries, k)) =
              Cardinality(Executed(entries, k - 1))
                + Cardinality(DOMAIN TestsOf(entries, k))
<1> DEFINE D == DOMAIN TestsOf(entries, k)
           A == Executed(entries, k - 1)
           B == {k} \X D
<1>1. 1 .. k = (1 .. (k - 1)) \cup {k} /\ k \notin 1 .. (k - 1)
  OBVIOUS
<1>2. Executed(entries, k) = A \cup B
  BY <1>1, Zenon DEF Executed
<1>3. A \cap B = {}
  <2>1. \A p \in A : \E i \in 1 .. (k - 1) : p[1] = i
    BY DEF Executed
  <2>2. \A p \in B : p[1] = k
    OBVIOUS
  <2> QED BY <1>1, <2>1, <2>2
<1>4. IsFiniteSet(B) /\ Cardinality(B) = Cardinality(D)
  <2>1. IsFiniteSet({k}) /\ Cardinality({k}) = 1
    BY FS_Singleton
  <2>2. IsFiniteSet(B) /\ Cardinality(B) = 1 * Cardinality(D)
    BY <2>1, FS_Product
  <2>3. Cardinality(D) \in Nat
    BY FS_CardinalityType
  <2> HIDE DEF B, D
  <2> QED BY <2>2, <2>3
<1> HIDE DEF A, B, D
<1>5. IsFiniteSet(A \cup B) /\ Cardinality(A) \in Nat /\ Cardinality(B) \in Nat
      /\ Cardinality(A \cup B) = Cardinality(A) + Cardinality(B) - 0
  BY <1>3, <1>4, FS_Union, FS_EmptySet, FS_CardinalityType DEF A
<1>6. Cardinality(A \cup B) = Cardinality(A) + Cardinality(D)
  BY <1>4, <1>5
<1> QED BY <1>2, <1>5, <1>6 DEF A, D

LEMMA RunNext ==
  ASSUME NEW n \in Nat, NEW entries, Campaign(entries, n), NEW k \in 1 .. n,
         NEW before, RunsAfter(before, entries, k - 1),
         NEW total, total = AddRun(before, entries[k])
  PROVE  RunsAfter(total, entries, k)
<1> DEFINE s == entries[k].summary
<1>1. /\ k \in Nat /\ k # 0 /\ k - 1 \in Nat
      /\ 1 .. k = (1 .. (k - 1)) \cup {k} /\ k \notin 1 .. (k - 1)
      /\ \A i \in 1 .. k : i \in 1 .. n
  OBVIOUS
<1>2. Counts(s) /\ IsFiniteSet(DOMAIN s.Tests)
  BY DEF Campaign, Counts
<1>3. /\ total.Runs = before.Runs + 1
      /\ total.PassingRuns =
           before.PassingRuns + (IF passing(s) THEN 1 ELSE 0)
      /\ total.FailingRuns =
           before.FailingRuns + (IF passing(s) THEN 0 ELSE 1)
      /\ total.ScenarioExecutions =
           before.ScenarioExecutions + Cardinality(DOMAIN s.Tests)
      /\ total.FailedRunIDs = before.FailedRunIDs \cup
           (IF passing(s) THEN {} ELSE {entries[k].id})
  BY Zenon DEF AddRun
<1>4. TestsAdded(total.byScenario, before.byScenario, s.Tests, DOMAIN s.Tests)
  <2>1. total.byScenario =
          FoldSet(LAMBDA t, acc : AddTest(acc, t, s.Tests[t]),
                  before.byScenario, DOMAIN s.Tests)
    BY Zenon DEF AddRun
  <2> QED BY <1>2, <2>1, AddTests, Zenon
<1>5. /\ DOMAIN total.byScenario =
           UNION {DOMAIN TestsOf(entries, i) : i \in 1 .. k}
      /\ \A m \in DOMAIN total.byScenario :
           ScenarioAfter(total.byScenario[m], entries, k, m)
  <2>1. TestsOf(entries, k) = s.Tests
    BY DEF TestsOf
  <2>2. /\ DOMAIN before.byScenario =
             UNION {DOMAIN TestsOf(entries, i) : i \in 1 .. (k - 1)}
        /\ \A m \in DOMAIN before.byScenario :
             ScenarioAfter(before.byScenario[m], entries, k - 1, m)
    BY Zenon DEF RunsAfter
  <2>3. TestsAdded(total.byScenario, before.byScenario, TestsOf(entries, k),
                   DOMAIN TestsOf(entries, k))
    BY <1>4, <2>1
  <2> QED BY <1>1, <1>2, <2>2, <2>3, ScenariosNext
<1>6. /\ IsFiniteSet(Executed(entries, k))
      /\ total.ScenarioExecutions = Cardinality(Executed(entries, k))
  <2>1. TestsOf(entries, k) = s.Tests
    BY DEF TestsOf
  <2>2. /\ IsFiniteSet(Executed(entries, k - 1))
        /\ before.ScenarioExecutions = Cardinality(Executed(entries, k - 1))
    BY Zenon DEF RunsAfter
  <2>3. IsFiniteSet(DOMAIN TestsOf(entries, k))
    BY <1>2, <2>1
  <2>4. /\ IsFiniteSet(Executed(entries, k))
        /\ Cardinality(Executed(entries, k)) =
             Cardinality(Executed(entries, k - 1))
               + Cardinality(DOMAIN TestsOf(entries, k))
    BY <1>1, <2>2, <2>3, ExecutedNext
  <2> QED BY <1>3, <2>1, <2>2, <2>4, Zenon
<1>7. /\ total.Runs = k /\ total.PassingRuns \in Nat
      /\ total.FailingRuns \in Nat
      /\ total.PassingRuns + total.FailingRuns = k
  <2>1. /\ before.Runs = k - 1 /\ before.PassingRuns \in Nat
        /\ before.FailingRuns \in Nat
        /\ before.PassingRuns + before.FailingRuns = k - 1
    BY Zenon DEF RunsAfter
  <2> HIDE DEF s
  <2> QED BY <1>1, <1>3, <2>1
<1>8. FailedIn(entries, k) =
        FailedIn(entries, k - 1) \cup (IF passing(s) THEN {} ELSE {k})
  <2>1. CASE passing(s)
    BY <1>1, <2>1 DEF FailedIn
  <2>2. CASE ~passing(s)
    BY <1>1, <2>2 DEF FailedIn
  <2> QED BY <2>1, <2>2
<1>9. total.FailedRunIDs = {entries[i].id : i \in FailedIn(entries, k)}
  <2>1. before.FailedRunIDs =
          {entries[i].id : i \in FailedIn(entries, k - 1)}
    BY Zenon DEF RunsAfter
  <2>2. CASE passing(s)
    BY <1>3, <1>8, <2>1, <2>2
  <2>3. CASE ~passing(s)
    BY <1>3, <1>8, <2>1, <2>3, Zenon
  <2> QED BY <2>2, <2>3
<1>10. entries[k].id \notin before.FailedRunIDs
  <2>1. before.FailedRunIDs =
          {entries[i].id : i \in FailedIn(entries, k - 1)}
    BY Zenon DEF RunsAfter
  <2>2. \A i \in FailedIn(entries, k - 1) : i \in 1 .. (k - 1)
    BY DEF FailedIn
  <2>3. \A i \in 1 .. (k - 1) : entries[i].id # entries[k].id
    BY <1>1 DEF Campaign
  <2> QED BY <2>1, <2>2, <2>3, Zenon
<1>11. /\ IsFiniteSet(total.FailedRunIDs)
       /\ total.FailingRuns = Cardinality(total.FailedRunIDs)
  <2>1. /\ IsFiniteSet(before.FailedRunIDs)
        /\ before.FailingRuns = Cardinality(before.FailedRunIDs)
        /\ before.FailingRuns \in Nat
    BY Zenon DEF RunsAfter
  <2>2. CASE passing(s)
    <3>1. total.FailedRunIDs = before.FailedRunIDs
      BY <1>3, <2>2
    <3>2. total.FailingRuns = before.FailingRuns
      BY <1>3, <2>1, <2>2
    <3> QED BY <2>1, <3>1, <3>2
  <2>3. CASE ~passing(s)
    <3>1. total.FailedRunIDs = before.FailedRunIDs \cup {entries[k].id}
      BY <1>3, <2>3
    <3>2. total.FailingRuns = before.FailingRuns + 1
      BY <1>3, <2>1, <2>3
    <3> QED BY <1>10, <2>1, <3>1, <3>2, FS_AddElement
  <2> QED BY <2>2, <2>3
<1> QED BY <1>5, <1>6, <1>7, <1>9, <1>11, Zenon DEF RunsAfter

NoRuns == [Runs |-> 0, PassingRuns |-> 0, FailingRuns |-> 0,
           ScenarioExecutions |-> 0, byScenario |-> <<>>, FailedRunIDs |-> {}]

LEMMA RunsResult ==
  ASSUME NEW n \in Nat, NEW entries, Campaign(entries, n), NEW total,
         total = FoldLeft(AddRun, NoRuns, entries)
  PROVE  RunsAfter(total, entries, n)
<1>1. PICK r : /\ r[0] = NoRuns
               /\ \A i \in 1 .. n : r[i] = AddRun(r[i - 1], entries[i])
               /\ r[n] = FoldLeft(AddRun, NoRuns, entries)
  <2>1. DOMAIN entries = 1 .. n
    BY DEF Campaign
  <2> QED BY <2>1, AggregateRuns, Zenon
<1> DEFINE S == {k \in Nat : k <= n => RunsAfter(r[k], entries, k)}
<1>2. 0 \in S
  <2>1. 1 .. 0 = {}
    OBVIOUS
  <2>2. /\ NoRuns.Runs = 0 /\ NoRuns.PassingRuns = 0 /\ NoRuns.FailingRuns = 0
        /\ NoRuns.ScenarioExecutions = 0 /\ NoRuns.FailedRunIDs = {}
        /\ NoRuns.byScenario = <<>> /\ DOMAIN NoRuns.byScenario = {}
    BY DEF NoRuns
  <2>3. FailedIn(entries, 0) = {} /\ Executed(entries, 0) = {}
        /\ UNION {DOMAIN TestsOf(entries, i) : i \in 1 .. 0} = {}
    BY <2>1, Zenon DEF FailedIn, Executed
  <2>4. RunsAfter(NoRuns, entries, 0)
    BY <2>2, <2>3, FS_EmptySet DEF RunsAfter
  <2> QED BY <1>1, <2>4
<1>3. ASSUME NEW k \in Nat, k \in S
      PROVE  k + 1 \in S
  <2> SUFFICES ASSUME k + 1 <= n PROVE RunsAfter(r[k + 1], entries, k + 1)
    OBVIOUS
  <2>1. k + 1 \in 1 .. n /\ (k + 1) - 1 = k /\ k <= n
    OBVIOUS
  <2>2. r[k + 1] = AddRun(r[k], entries[k + 1]) /\ RunsAfter(r[k], entries, k)
    BY <1>1, <1>3, <2>1
  <2> QED BY <2>1, <2>2, RunNext
<1> HIDE DEF S
<1>4. n \in S
  BY <1>2, <1>3, SetInduction
<1>5. RunsAfter(r[n], entries, n)
  BY <1>4 DEF S
<1> QED BY <1>1, <1>5

(* The executions of the scenarios in s.                                    *)
ExecutedOf(entries, n, s) == {p \in Executed(entries, n) : p[2] \in s}

LEMMA ExecutedPlus ==
  ASSUME NEW n \in Nat, NEW entries, Campaign(entries, n),
         IsFiniteSet(Executed(entries, n)), NEW s, NEW x \in s
  PROVE  Cardinality(ExecutedOf(entries, n, s)) =
           Cardinality(ExecutedOf(entries, n, s \ {x}))
             + Cardinality(Where(entries, n, x, Terminal))
<1> DEFINE A == ExecutedOf(entries, n, s \ {x})
           W == Where(entries, n, x, Terminal)
           B == W \X {x}
<1>1. W = {i \in 1 .. n : x \in DOMAIN TestsOf(entries, i)}
  BY DEF Where, Campaign, Counts, TestsOf
<1>2. \A p : p \in Executed(entries, n) <=>
               \E i \in 1 .. n : \E m \in DOMAIN TestsOf(entries, i) :
                 p = <<i, m>>
  BY DEF Executed
<1>3. \A p : p \in B <=> \E i \in W : p = <<i, x>>
  OBVIOUS
<1>4. ExecutedOf(entries, n, s) = A \cup B
  <2>1. ASSUME NEW p \in ExecutedOf(entries, n, s), p \notin A
        PROVE  p \in B
    <3>1. p \in Executed(entries, n) /\ p[2] \in s /\ p[2] \notin s \ {x}
      BY <2>1 DEF ExecutedOf
    <3>2. PICK i \in 1 .. n : \E m \in DOMAIN TestsOf(entries, i) :
                                p = <<i, m>>
      BY <1>2, <3>1, Zenon
    <3>4. PICK m \in DOMAIN TestsOf(entries, i) : p = <<i, m>>
      BY <3>2
    <3>3. m = x
      BY <3>1, <3>4
    <3> QED BY <1>1, <1>3, <3>3, <3>4
  <2>2. ASSUME NEW p \in B
        PROVE  p \in ExecutedOf(entries, n, s)
    <3>1. PICK i \in W : p = <<i, x>>
      BY <1>3, Zenon
    <3>2. i \in 1 .. n /\ x \in DOMAIN TestsOf(entries, i)
      BY <1>1
    <3>3. p \in Executed(entries, n)
      BY <1>2, <3>1, <3>2, Zenon
    <3> QED BY <3>1, <3>3 DEF ExecutedOf
  <2>3. A \subseteq ExecutedOf(entries, n, s)
    BY DEF ExecutedOf
  <2> HIDE DEF A, B
  <2> QED BY <2>1, <2>2, <2>3
<1>5. A \cap B = {}
  BY DEF ExecutedOf
<1>6. IsFiniteSet(ExecutedOf(entries, n, s))
  <2>1. ExecutedOf(entries, n, s) \in SUBSET Executed(entries, n)
    BY DEF ExecutedOf
  <2> QED BY <2>1, FS_Subset
<1>7. Cardinality(B) = Cardinality(W)
  <2>1. IsFiniteSet({x}) /\ Cardinality({x}) = 1
    BY FS_Singleton
  <2>2. IsFiniteSet(W)
    <3>1. IsFiniteSet(1 .. n) /\ W \in SUBSET (1 .. n)
      BY <1>1, FS_Interval
    <3> QED BY <3>1, FS_Subset
  <2>3. Cardinality(B) = Cardinality(W) * 1
    BY <2>1, <2>2, FS_Product
  <2>4. Cardinality(W) \in Nat
    BY <2>2, FS_CardinalityType
  <2> HIDE DEF B, W
  <2> QED BY <2>3, <2>4
<1> HIDE DEF A, B, W
<1>8. Cardinality(ExecutedOf(entries, n, s)) = Cardinality(A) + Cardinality(B)
  BY <1>4, <1>5, <1>6, CardinalityOfBoth
<1> QED BY <1>7, <1>8 DEF A, W

(* The executions of all scenarios add up to those of all runs.             *)
LEMMA SumOfScenarios ==
  ASSUME NEW n \in Nat, NEW entries, Campaign(entries, n),
         IsFiniteSet(Executed(entries, n)), NEW by,
         DOMAIN by = UNION {DOMAIN TestsOf(entries, i) : i \in 1 .. n},
         \A m \in DOMAIN by :
           by[m].Executions = Cardinality(Where(entries, n, m, Terminal))
  PROVE  FoldSet(LAMBDA m, sum : sum + by[m].Executions, 0, DOMAIN by) =
           Cardinality(Executed(entries, n))
<1> DEFINE S == DOMAIN by
           ch == [s \in SUBSET S |-> CHOOSE x \in s : TRUE]
           IsIter(iter) ==
             iter = [s \in SUBSET S |->
                       IF s = {} THEN 0
                       ELSE iter[s \ {CHOOSE x \in s : TRUE}]
                              + by[CHOOSE x \in s : TRUE].Executions]
           it == CHOOSE iter : IsIter(iter)
<1>1. FoldSet(LAMBDA m, sum : sum + by[m].Executions, 0, S) = it[S]
  BY Zenon DEF FoldSet, MapThenFoldSet
<1>2. \A s \in SUBSET S : /\ ch[s] = CHOOSE x \in s : TRUE
                          /\ s # {} => ch[s] \in s
  BY Zenon
<1> HIDE DEF ch
<1>3. IsFiniteSet(S) /\ ExecutedOf(entries, n, S) = Executed(entries, n)
  <2>1. \A p \in Executed(entries, n) : p[2] \in S
    BY DEF Executed
  <2>2. \A m \in S : \E p \in Executed(entries, n) : p[2] = m
    <3> TAKE m \in S
    <3>1. PICK i \in 1 .. n : m \in DOMAIN TestsOf(entries, i)
      OBVIOUS
    <3>2. <<i, m>> \in Executed(entries, n)
      BY <3>1 DEF Executed
    <3> QED BY <3>2
  <2> DEFINE f == [p \in Executed(entries, n) |-> p[2]]
  <2>3. f \in Surjection(Executed(entries, n), S)
    BY <2>1, <2>2, Zenon DEF Surjection
  <2>4. IsFiniteSet(S)
    BY <2>3, FS_Surjection
  <2> QED BY <2>1, <2>4 DEF ExecutedOf
<1>4. \E iter : IsIter(iter)
  <2>1. \A s \in SUBSET S : s # {} => ch[s] \in s
    BY <1>2, Zenon
  <2>2. PICK iter : Iterates(iter, S, ch, "sum", by, 0)
    BY <1>3, <2>1, FoldExists, Zenon
  <2>3. \A acc, x : Step("sum", by, acc, x) = acc + by[x].Executions
    BY DEF Step
  <2>4. \A s \in SUBSET S :
          iter[s] = IF s = {} THEN 0
                    ELSE iter[s \ {CHOOSE x \in s : TRUE}]
                           + by[CHOOSE x \in s : TRUE].Executions
    <3> TAKE s \in SUBSET S
    <3>1. iter[s] = IF s = {} THEN 0
                    ELSE iter[s \ {ch[s]}] + by[ch[s]].Executions
      BY <2>2, <2>3, Zenon DEF Iterates
    <3>2. ch[s] = CHOOSE x \in s : TRUE
      BY <1>2
    <3> QED BY <3>1, <3>2, Zenon
  <2>5. IsIter(iter)
    <3>1. iter = [s \in SUBSET S |-> iter[s]]
      BY <2>2, Zenon DEF Iterates
    <3> QED BY <2>4, <3>1, Zenon
  <2> QED BY <2>5, Zenon
<1>5. \A s \in SUBSET S :
        it[s] = IF s = {} THEN 0
                ELSE it[s \ {ch[s]}] + by[ch[s]].Executions
  BY <1>2, <1>4, Zenon
<1> HIDE DEF it
<1> DEFINE P == {s \in SUBSET S :
                   it[s] = Cardinality(ExecutedOf(entries, n, s))}
<1>6. {} \in P
  <2>1. {} \in SUBSET S
    OBVIOUS
  <2>2. it[{}] = 0
    BY <1>5, <2>1, Zenon
  <2>3. ExecutedOf(entries, n, {}) = {}
    BY DEF ExecutedOf
  <2> QED BY <2>1, <2>2, <2>3, FS_EmptySet, Zenon
<1>7. ASSUME NEW s \in SUBSET S, s # {}
      PROVE  ch[s] \in s /\ (s \ {ch[s]} \in P => s \in P)
  <2>1. ch[s] \in s
    BY <1>2, <1>7, Zenon
  <2>2. it[s] = it[s \ {ch[s]}] + by[ch[s]].Executions
    BY <1>5, <1>7, Zenon
  <2>3. by[ch[s]].Executions = Cardinality(Where(entries, n, ch[s], Terminal))
    BY <2>1
  <2>4. Cardinality(ExecutedOf(entries, n, s)) =
          Cardinality(ExecutedOf(entries, n, s \ {ch[s]}))
            + Cardinality(Where(entries, n, ch[s], Terminal))
    BY <2>1, ExecutedPlus
  <2>5. it[s \ {ch[s]}] = Cardinality(ExecutedOf(entries, n, s \ {ch[s]})) =>
          it[s] = Cardinality(ExecutedOf(entries, n, s))
    BY <2>2, <2>3, <2>4, Zenon
  <2> QED BY <2>1, <2>5, Zenon
<1> HIDE DEF P
<1>8. S \in P
  BY <1>3, <1>6, <1>7, SubsetInduction, Zenon
<1> QED BY <1>1, <1>3, <1>8, Zenon DEF P

-----------------------------------------------------------------------------
(* Sorted durations and their percentile *)

LEMMA GreatestValue ==
  ASSUME NEW n \in Nat, NEW s \in [1 .. n -> Nat],
         NEW B \in SUBSET (1 .. n), B # {}
  PROVE  \E j \in B : \A i \in B : s[i] <= s[j]
<1> DEFINE Has(k) == \E j \in B \cap (1 .. k) :
                       \A i \in B \cap (1 .. k) : s[i] <= s[j]
           S == {k \in Nat : B \cap (1 .. k) # {} => Has(k)}
<1>1. 0 \in S
  OBVIOUS
<1>2. ASSUME NEW k \in Nat, k \in S
      PROVE  k + 1 \in S
  <2> SUFFICES ASSUME B \cap (1 .. k + 1) # {} PROVE Has(k + 1)
    OBVIOUS
  <2>1. 1 .. k + 1 = (1 .. k) \cup {k + 1}
    OBVIOUS
  <2>2. \A i \in B : s[i] \in Nat
    OBVIOUS
  <2>3. CASE k + 1 \notin B
    <3>1. B \cap (1 .. k + 1) = B \cap (1 .. k)
      BY <2>1, <2>3
    <3> QED BY <1>2, <3>1
  <2>4. CASE k + 1 \in B /\ B \cap (1 .. k) = {}
    <3>1. B \cap (1 .. k + 1) = {k + 1}
      BY <2>1, <2>4
    <3> QED BY <2>2, <2>4, <3>1
  <2>5. CASE k + 1 \in B /\ B \cap (1 .. k) # {}
    <3>1. PICK j \in B \cap (1 .. k) : \A i \in B \cap (1 .. k) : s[i] <= s[j]
      BY <1>2, <2>5
    <3>2. B \cap (1 .. k + 1) = (B \cap (1 .. k)) \cup {k + 1}
      BY <2>1, <2>5
    <3>3. CASE s[j] <= s[k + 1]
      <4>1. \A i \in B \cap (1 .. k) : s[i] <= s[k + 1]
        BY <2>2, <2>5, <3>1, <3>3
      <4>2. k + 1 \in B \cap (1 .. k + 1) /\ s[k + 1] <= s[k + 1]
        BY <2>2, <2>5, <3>2
      <4>3. \A i \in B \cap (1 .. k + 1) : s[i] <= s[k + 1]
        BY <3>2, <4>1, <4>2
      <4> QED BY <4>2, <4>3, Zenon
    <3>4. CASE ~(s[j] <= s[k + 1])
      <4>1. s[k + 1] <= s[j]
        BY <2>2, <2>5, <3>1, <3>4
      <4> QED BY <3>1, <3>2, <4>1
    <3> QED BY <3>3, <3>4
  <2> QED BY <2>3, <2>4, <2>5
<1> HIDE DEF S
<1>3. n \in S
  BY <1>1, <1>2, SetInduction
<1>4. B \cap (1 .. n) = B
  OBVIOUS
<1> QED BY <1>3, <1>4 DEF S

(* Every place of a sorted list has its value.                              *)
LEMMA PlaceHasValue ==
  ASSUME NEW n \in Nat, NEW s \in [1 .. n -> Nat], NEW i \in 1 .. n
  PROVE  \E d \in Range(s) :
           /\ Cardinality({j \in DOMAIN s : s[j] < d}) < i
           /\ i <= Cardinality({j \in DOMAIN s : s[j] <= d})
<1> DEFINE upTo(d) == {j \in DOMAIN s : s[j] <= d}
           T == {d \in Range(s) : i <= Cardinality(upTo(d))}
<1>1. /\ IsFiniteSet(1 .. n) /\ Cardinality(1 .. n) = n /\ 1 .. n # {}
      /\ \A A \in SUBSET (1 .. n) : /\ IsFiniteSet(A) /\ Cardinality(A) \in Nat
                                    /\ Cardinality(A) <= n
  <2>1. IsFiniteSet(1 .. n) /\ Cardinality(1 .. n) = n
    BY FS_Interval
  <2>2. ASSUME NEW A \in SUBSET (1 .. n)
        PROVE  /\ IsFiniteSet(A) /\ Cardinality(A) \in Nat
               /\ Cardinality(A) <= n
    <3>1. IsFiniteSet(A) /\ Cardinality(A) <= Cardinality(1 .. n)
      BY <2>1, FS_Subset
    <3> QED BY <2>1, <3>1, FS_CardinalityType
  <2>3. 1 .. n # {}
    OBVIOUS
  <2> QED BY <2>1, <2>2, <2>3
<1>2. Range(s) \subseteq Nat /\ (\A j \in 1 .. n : s[j] \in Range(s))
      /\ DOMAIN s = 1 .. n
  BY DEF Range
<1>3. T # {}
  <2>1. PICK j \in 1 .. n : \A k \in 1 .. n : s[k] <= s[j]
    <3>1. 1 .. n \in SUBSET (1 .. n)
      OBVIOUS
    <3> QED BY <1>1, <3>1, GreatestValue
  <2>2. upTo(s[j]) = 1 .. n
    BY <1>2, <2>1
  <2>3. i <= Cardinality(upTo(s[j]))
    <3>1. Cardinality(upTo(s[j])) = n
      BY <1>1, <2>2, Zenon
    <3> HIDE DEF upTo
    <3> QED BY <3>1
  <2> QED BY <1>2, <2>3
<1>4. T \in SUBSET Nat
  BY <1>2
<1>5. PICK d \in T : \A e \in T : d <= e
  BY <1>3, <1>4, LeastNat
<1> DEFINE B == {j \in DOMAIN s : s[j] < d}
<1>6. Cardinality(B) < i
  <2> SUFFICES ASSUME ~(Cardinality(B) < i) PROVE FALSE
    OBVIOUS
  <2>1. B \in SUBSET (1 .. n)
    BY <1>2
  <2>2. Cardinality(B) \in Nat /\ i <= Cardinality(B)
    BY <1>1, <2>1
  <2>3. B # {}
    <3>1. Cardinality(B) # 0
      <4> HIDE DEF B
      <4> QED BY <2>2
    <3> QED BY <3>1, FS_EmptySet, Zenon
  <2>4. PICK j \in B : \A k \in B : s[k] <= s[j]
    BY <2>1, <2>3, GreatestValue
  <2>5. s[j] \in Range(s) /\ s[j] < d /\ s[j] \in Nat /\ d \in Nat
    BY <1>2, <1>4, <2>4
  <2>6. B \in SUBSET upTo(s[j]) /\ upTo(s[j]) \in SUBSET (1 .. n)
    BY <1>2, <2>4
  <2>7. Cardinality(B) <= Cardinality(upTo(s[j]))
        /\ Cardinality(upTo(s[j])) \in Nat
    BY <1>1, <2>6, FS_Subset
  <2>8. i <= Cardinality(upTo(s[j]))
    BY <2>2, <2>7
  <2>9. s[j] \in T
    BY <2>5, <2>8
  <2>10. d <= s[j]
    BY <1>5, <2>9
  <2> QED BY <2>5, <2>10
<1>7. d \in Range(s) /\ i <= Cardinality(upTo(d))
  OBVIOUS
<1> QED BY <1>6, <1>7

(* Sorted sorts.                                                            *)
LEMMA SortedSorts ==
  ASSUME NEW s \in Seq(Nat), NEW t, t = Sorted(s)
  PROVE  /\ t \in Seq(Nat) /\ Len(t) = Len(s)
         /\ \A i, j \in 1 .. Len(s) : i <= j => t[i] <= t[j]
<1> DEFINE n == Len(s)
           below(d) == {j \in DOMAIN s : s[j] < d}
           upTo(d) == {j \in DOMAIN s : s[j] <= d}
<1>1. n \in Nat /\ s \in [1 .. n -> Nat] /\ DOMAIN s = 1 .. n
  OBVIOUS
<1>2. t = [i \in DOMAIN s |-> CHOOSE d \in Range(s) :
             Cardinality(below(d)) < i /\ i <= Cardinality(upTo(d))]
  BY Zenon DEF Sorted
<1> HIDE DEF n
<1>3. ASSUME NEW i \in 1 .. n
      PROVE  /\ t[i] \in Range(s)
             /\ Cardinality(below(t[i])) < i /\ i <= Cardinality(upTo(t[i]))
  <2>1. \E d \in Range(s) :
          Cardinality(below(d)) < i /\ i <= Cardinality(upTo(d))
    BY <1>1, PlaceHasValue
  <2>2. t[i] = CHOOSE d \in Range(s) :
                 Cardinality(below(d)) < i /\ i <= Cardinality(upTo(d))
    BY <1>1, <1>2, Zenon
  <2> QED BY <2>1, <2>2, Zenon
<1>4. \A i \in 1 .. n : t[i] \in Nat
  <2>1. Range(s) \subseteq Nat
    BY <1>1 DEF Range
  <2> QED BY <1>3, <2>1
<1>5. DOMAIN t = 1 .. n /\ t = [i \in 1 .. n |-> t[i]]
  BY <1>1, <1>2, Zenon
<1>6. t \in Seq(Nat) /\ Len(t) = n
  <2>1. t \in [1 .. n -> Nat]
    BY <1>4, <1>5, Zenon
  <2> QED BY <1>1, <2>1
<1>7. ASSUME NEW i \in 1 .. n, NEW j \in 1 .. n, i <= j
      PROVE  t[i] <= t[j]
  <2> SUFFICES ASSUME ~(t[i] <= t[j]) PROVE FALSE
    OBVIOUS
  <2>1. t[i] \in Nat /\ t[j] \in Nat /\ t[j] < t[i]
    BY <1>4
  <2>2. upTo(t[j]) \in SUBSET below(t[i]) /\ below(t[i]) \in SUBSET (1 .. n)
    BY <1>1, <2>1
  <2>3. IsFiniteSet(1 .. n)
    BY <1>1, FS_Interval
  <2>4. IsFiniteSet(below(t[i])) /\ Cardinality(below(t[i])) \in Nat
    BY <2>2, <2>3, FS_Subset, FS_CardinalityType
  <2>5. IsFiniteSet(upTo(t[j])) /\ Cardinality(upTo(t[j])) \in Nat
        /\ Cardinality(upTo(t[j])) <= Cardinality(below(t[i]))
    BY <2>2, <2>4, FS_Subset, FS_CardinalityType
  <2>6. Cardinality(below(t[i])) < i /\ j <= Cardinality(upTo(t[j]))
    BY <1>3
  <2> HIDE DEF below, upTo
  <2>7. i \in Nat /\ j \in Nat
    OBVIOUS
  <2> QED BY <1>7, <2>4, <2>5, <2>6, <2>7
<1> QED BY <1>6, <1>7 DEF n

(* p is the nearest rank of 95 in 100 among the n values of t, and the last *)
(* of them the greatest.                                                    *)
Ranks(t, n, p) ==
  /\ 100 * Cardinality({i \in 1 .. n : t[i] <= p}) >= 95 * n
  /\ \A j \in 1 .. n :
       100 * Cardinality({i \in 1 .. n : t[i] <= t[j]}) >= 95 * n => p <= t[j]
  /\ \A j \in 1 .. n : t[j] <= t[n]

(* In sorted durations, the one at p95Index is the nearest rank.            *)
LEMMA NearestRank ==
  ASSUME NEW n \in Nat \ {0}, NEW t \in [1 .. n -> Nat],
         \A i, j \in 1 .. n : i <= j => t[i] <= t[j], NEW p, p = t[p95Index(n)]
  PROVE  Ranks(t, n, p)
<1> DEFINE k == p95Index(n)
           upTo(d) == {i \in 1 .. n : t[i] <= d}
<1>1. /\ k \in 1 .. n /\ 100 * k >= 95 * n
      /\ \A m \in Nat : 100 * m >= 95 * n => k <= m
  BY PercentileIndex
<1> HIDE DEF k
<1>2. p = t[k] /\ k \in Nat /\ p \in Nat
  BY <1>1 DEF k
<1>3. \A d : /\ upTo(d) \in SUBSET (1 .. n) /\ IsFiniteSet(upTo(d))
             /\ Cardinality(upTo(d)) \in Nat
  <2>1. IsFiniteSet(1 .. n)
    BY FS_Interval
  <2>2. \A d : upTo(d) \in SUBSET (1 .. n)
    OBVIOUS
  <2> HIDE DEF upTo
  <2> QED BY <2>1, <2>2, FS_Subset, FS_CardinalityType
<1>4. 100 * Cardinality(upTo(p)) >= 95 * n
  <2>1. 1 .. k \in SUBSET upTo(p)
    BY <1>1, <1>2
  <2>2. Cardinality(1 .. k) = k
    BY <1>1, <1>2, FS_Interval
  <2>3. k <= Cardinality(upTo(p))
    <3>1. IsFiniteSet(upTo(p))
      BY <1>3, Zenon
    <3>2. Cardinality(1 .. k) <= Cardinality(upTo(p))
      <4> HIDE DEF upTo
      <4> QED BY <2>1, <3>1, FS_Subset
    <3> QED BY <2>2, <3>2, Zenon
  <2> HIDE DEF upTo
  <2> QED BY <1>1, <1>2, <1>3, <2>3
<1>5. ASSUME NEW j \in 1 .. n, 100 * Cardinality(upTo(t[j])) >= 95 * n
      PROVE  p <= t[j]
  <2> SUFFICES ASSUME ~(p <= t[j]) PROVE FALSE
    OBVIOUS
  <2>1. t[j] \in Nat /\ t[j] < t[k]
    BY <1>2
  <2>2. \A i \in upTo(t[j]) : i \in 1 .. (k - 1)
    <3> TAKE i \in upTo(t[j])
    <3>1. i \in 1 .. n /\ t[i] \in Nat /\ t[i] <= t[j]
      OBVIOUS
    <3>2. ~(k <= i)
      BY <1>1, <1>2, <2>1, <3>1
    <3> QED BY <1>2, <3>1, <3>2
  <2>3. upTo(t[j]) \in SUBSET (1 .. (k - 1))
    BY <2>2
  <2>4. IsFiniteSet(1 .. (k - 1)) /\ Cardinality(1 .. (k - 1)) = k - 1
    <3>1. k - 1 \in Int /\ 1 \in Int /\ k >= 1
      BY <1>1
    <3>2. PICK b \in Int : b = k - 1
      BY <3>1
    <3>3. /\ IsFiniteSet(1 .. b)
          /\ Cardinality(1 .. b) = IF 1 > b THEN 0 ELSE b - 1 + 1
      BY <3>1, FS_Interval, Zenon
    <3>4. Cardinality(1 .. b) = b
      BY <1>2, <3>1, <3>2, <3>3
    <3> QED BY <3>2, <3>3, <3>4
  <2>5. Cardinality(upTo(t[j])) <= k - 1
    BY <2>3, <2>4, FS_Subset
  <2>6. k <= Cardinality(upTo(t[j]))
    BY <1>1, <1>3, <1>5
  <2> HIDE DEF upTo
  <2> QED BY <1>2, <1>3, <2>5, <2>6
<1>6. \A j \in 1 .. n : t[j] <= t[n]
  OBVIOUS
<1> QED BY <1>4, <1>5, <1>6 DEF Ranks

-----------------------------------------------------------------------------
(* The report *)

Timed(s) ==
  [Executions |-> s.Executions, Passed |-> s.Passed, Failed |-> s.Failed,
   durations |-> Sorted(s.durations),
   P95 |-> Sorted(s.durations)[p95Index(Len(Sorted(s.durations)))],
   Max |-> Sorted(s.durations)[Len(Sorted(s.durations))]]

TimedTotal(result, total) ==
  /\ result.Runs = total.Runs /\ result.PassingRuns = total.PassingRuns
  /\ result.FailingRuns = total.FailingRuns
  /\ result.ScenarioExecutions = total.ScenarioExecutions
  /\ result.FailedRunIDs = total.FailedRunIDs
  /\ DOMAIN result.byScenario = DOMAIN total.byScenario
  /\ \A m \in DOMAIN total.byScenario :
       result.byScenario[m] = Timed(total.byScenario[m])

LEMMA AggregateTotals ==
  ASSUME NEW n \in Nat, NEW entries, Campaign(entries, n), NEW result,
         result = aggregate(entries)
  PROVE  \E total : RunsAfter(total, entries, n) /\ TimedTotal(result, total)
<1>1. PICK total : total = FoldLeft(AddRun, NoRuns, entries)
  OBVIOUS
<1>2. RunsAfter(total, entries, n)
  BY <1>1, RunsResult, Zenon
<1> DEFINE by == [m \in DOMAIN total.byScenario |-> Timed(total.byScenario[m])]
<1>3. result = [total EXCEPT !.byScenario = by]
  BY <1>1, Zenon DEF aggregate, NoRuns, Timed
<1>4. /\ DOMAIN by = DOMAIN total.byScenario
      /\ \A m \in DOMAIN total.byScenario : by[m] = Timed(total.byScenario[m])
  BY Zenon
<1> HIDE DEF by
<1>5. \E a, b, c, d, e, f :
        total = [Runs |-> a, PassingRuns |-> b, FailingRuns |-> c,
                 ScenarioExecutions |-> d, byScenario |-> e, FailedRunIDs |-> f]
  <2>1. DOMAIN entries = 1 .. n
    BY DEF Campaign
  <2>2. PICK r : /\ r[0] = NoRuns
                 /\ \A i \in 1 .. n : r[i] = AddRun(r[i - 1], entries[i])
                 /\ r[n] = FoldLeft(AddRun, NoRuns, entries)
    BY <2>1, AggregateRuns, Zenon
  <2>3. n = 0 \/ n \in 1 .. n
    OBVIOUS
  <2>4. total = NoRuns \/ total = AddRun(r[n - 1], entries[n])
    BY <1>1, <2>2, <2>3, Zenon
  <2>5. CASE total = NoRuns
    BY <2>5, Zenon DEF NoRuns
  <2>6. CASE total = AddRun(r[n - 1], entries[n])
    BY <2>6, Zenon DEF AddRun
  <2> QED BY <2>4, <2>5, <2>6
<1>6. /\ result.Runs = total.Runs /\ result.PassingRuns = total.PassingRuns
      /\ result.FailingRuns = total.FailingRuns
      /\ result.ScenarioExecutions = total.ScenarioExecutions
      /\ result.FailedRunIDs = total.FailedRunIDs /\ result.byScenario = by
  BY <1>3, <1>5
<1>7. TimedTotal(result, total)
  BY <1>4, <1>6, Zenon DEF TimedTotal
<1> QED BY <1>2, <1>7, Zenon

(* A run of one scenario counts it.                                         *)
LEMMA RunOfCounts ==
  ASSUME NEW id, NEW json, NEW status \in {"pass", "fail"}, NEW elapsed \in Nat
  PROVE  /\ Counts(RunOf(id, json, status, elapsed).summary)
         /\ RunOf(id, json, status, elapsed).id = id
         /\ RunOf(id, json, status, elapsed).json = json
<1> DEFINE run == RunOf(id, json, status, elapsed)
           s == run.summary
<1>1. run.id = id /\ run.json = json
  BY DEF RunOf
<1>2. PICK x : s = [NoSummary EXCEPT
          !.Passed = IF status = "pass" THEN 1 ELSE 0,
          !.Failed = IF status = "pass" THEN 0 ELSE 1,
          !.Tests = [t \in {x} |-> [status |-> status, elapsed |-> elapsed]]]
  BY Zenon DEF RunOf
<1> HIDE DEF run, s
<1>3. /\ s.Tests = [t \in {x} |-> [status |-> status, elapsed |-> elapsed]]
      /\ s.Passed = (IF status = "pass" THEN 1 ELSE 0)
      /\ s.Failed = (IF status = "pass" THEN 0 ELSE 1)
      /\ s.Skipped = 0
  BY <1>2 DEF NoSummary
<1>4. /\ DOMAIN s.Tests = {x} /\ s.Tests[x].status = status
      /\ s.Tests \in [{x} -> [status : Terminal, elapsed : Nat]]
  BY <1>3 DEF Terminal
<1>5. /\ With(s, status) = {x}
      /\ \A other : other # status => With(s, other) = {}
  BY <1>4 DEF With
<1>6. IsFiniteSet({x}) /\ Cardinality({x}) = 1 /\ Cardinality({}) = 0
  BY FS_Singleton, FS_EmptySet
<1>7. /\ s.Passed = Cardinality(With(s, "pass"))
      /\ s.Failed = Cardinality(With(s, "fail"))
      /\ s.Skipped = Cardinality(With(s, "skip"))
  <2>1. CASE status = "pass"
    BY <1>3, <1>5, <1>6, <2>1
  <2>2. CASE status = "fail"
    BY <1>3, <1>5, <1>6, <2>2
  <2> QED BY <2>1, <2>2
<1>8. Counts(s)
  BY <1>4, <1>6, <1>7, Zenon DEF Counts
<1> QED BY <1>1, <1>8 DEF s, run

LEMMA PassingCounts ==
  ASSUME NEW id, NEW elapsed \in Nat
  PROVE  /\ Counts(RunOf(id, "whole", "pass", elapsed).summary)
         /\ RunOf(id, "whole", "pass", elapsed).id = id
<1>1. "pass" \in {"pass", "fail"}
  OBVIOUS
<1> QED BY <1>1, RunOfCounts

(* This run is in the campaign as the one with id 0, or has no summary.     *)
HasRun(entries, n, this) ==
  /\ \A i \in 1 .. n : entries[i].id = 0 => entries[i] = this
  /\ (\E i \in 1 .. n : entries[i].id = 0) <=> this.json # "absent"

(* The summaries that are aggregated, if all of them decode.                *)
LEMMA EntriesAreCampaign ==
  ASSUME NEW k \in Nat, NEW kind \in {"failing", "absent", "torn"}, NEW this,
         this.id = 0, this.json = "whole" => Counts(this.summary), NEW entries,
         entries = Archive(k) \o Entry(Another(k, kind)) \o Entry(this),
         \A i \in DOMAIN entries : entries[i].json = "whole"
  PROVE  \E n \in Nat : Campaign(entries, n) /\ HasRun(entries, n, this)
<1> DEFINE past == Archive(k)
           other == Another(k, kind)
           G == {past[i] : i \in 1 .. k} \cup {other, this}
<1>1. /\ past = [i \in 1 .. k |-> past[i]]
      /\ \A i \in 1 .. k : /\ past[i].id = i
                           /\ Counts(past[i].summary)
  <2>1. past = [i \in 1 .. k |-> RunOf(i, "whole", "pass", k - i)]
    BY DEF Archive
  <2>2. ASSUME NEW i \in 1 .. k
        PROVE  past[i].id = i /\ Counts(past[i].summary)
    <3>1. past[i] = RunOf(i, "whole", "pass", k - i) /\ k - i \in Nat
      BY <2>1
    <3>2. PICK d \in Nat : d = k - i
      BY <3>1, Zenon
    <3>3. /\ Counts(RunOf(i, "whole", "pass", d).summary)
          /\ RunOf(i, "whole", "pass", d).id = i
      BY PassingCounts, Zenon
    <3> QED BY <3>1, <3>2, <3>3, Zenon
  <2>3. past = [i \in 1 .. k |-> past[i]]
    BY <2>1, Zenon
  <2> QED BY <2>2, <2>3
<1>2. other.id = k + 1 /\ Counts(other.summary)
  <2>1. /\ 1 \in Nat /\ "fail" \in {"pass", "fail"}
    OBVIOUS
  <2> QED BY <2>1, RunOfCounts DEF Another
<1>3. /\ Entry(other) = IF other.json = "absent" THEN <<>> ELSE <<other>>
      /\ Entry(this) = IF this.json = "absent" THEN <<>> ELSE <<this>>
  BY DEF Entry
<1> HIDE DEF past, other, G
<1>4. past \in Seq(G) /\ Len(past) = k /\ other \in G /\ this \in G
  <2>1. other \in G /\ this \in G /\ \A i \in 1 .. k : past[i] \in G
    BY Zenon DEF G
  <2>2. past \in [1 .. k -> G]
    BY <1>1, <2>1, Zenon
  <2> QED BY <2>1, <2>2
<1>5. entries = past \o Entry(other) \o Entry(this)
  BY Zenon DEF past, other
<1>6. CASE other.json = "absent" /\ this.json = "absent"
  <2>1. entries = past
    BY <1>3, <1>4, <1>5, <1>6
  <2>2. DOMAIN entries = 1 .. k
    BY <1>4, <2>1
  <2>3. Campaign(entries, k)
    BY <1>1, <2>1, <2>2 DEF Campaign
  <2> QED BY <1>1, <1>6, <2>1, <2>3 DEF HasRun
<1>7. CASE other.json = "absent" /\ this.json # "absent"
  <2>1. entries = Append(past, this)
    BY <1>3, <1>4, <1>5, <1>7
  <2>2. /\ DOMAIN entries = 1 .. (k + 1) /\ entries[k + 1] = this
        /\ \A i \in 1 .. k : entries[i] = past[i]
    BY <1>4, <2>1
  <2>3. Counts(this.summary)
    BY <2>2
  <2>4. Campaign(entries, k + 1)
    <3>1. \A i \in 1 .. (k + 1) : i \in 1 .. k \/ i = k + 1
      OBVIOUS
    <3>2. \A i \in 1 .. (k + 1) : Counts(entries[i].summary)
      BY <1>1, <2>2, <2>3, <3>1
    <3>3. \A i \in 1 .. (k + 1) : entries[i].id = IF i = k + 1 THEN 0 ELSE i
      BY <1>1, <2>2, <3>1
    <3>4. ASSUME NEW i \in 1 .. (k + 1), NEW j \in 1 .. (k + 1),
                 entries[i].id = entries[j].id
          PROVE  i = j
      <4>1. /\ entries[i].id = IF i = k + 1 THEN 0 ELSE i
            /\ entries[j].id = IF j = k + 1 THEN 0 ELSE j
        BY <3>3, Zenon
      <4>2. i # 0 /\ j # 0
        OBVIOUS
      <4> QED BY <3>4, <4>1, <4>2, Zenon
    <3> QED BY <2>2, <3>2, <3>4 DEF Campaign
  <2>5. \A i \in 1 .. (k + 1) : entries[i].id = 0 => entries[i] = this
    <3>1. ASSUME NEW i \in 1 .. (k + 1), entries[i].id = 0
          PROVE  i \notin 1 .. k
      <4>1. ASSUME i \in 1 .. k
            PROVE  FALSE
        <5>1. entries[i].id = i
          BY <1>1, <2>2, <4>1, Zenon
        <5>2. i # 0
          OBVIOUS
        <5> QED BY <3>1, <5>1, <5>2, Zenon
      <4> QED BY <4>1, Zenon
    <3>2. \A i \in 1 .. (k + 1) : i \in 1 .. k \/ i = k + 1
      OBVIOUS
    <3> QED BY <2>2, <3>1, <3>2, Zenon
  <2>6. k + 1 \in Nat /\ k + 1 \in 1 .. (k + 1)
    OBVIOUS
  <2> QED BY <1>7, <2>2, <2>4, <2>5, <2>6 DEF HasRun
<1>8. CASE other.json # "absent" /\ this.json = "absent"
  <2>1. entries = Append(past, other)
    BY <1>3, <1>4, <1>5, <1>8
  <2>2. /\ DOMAIN entries = 1 .. (k + 1) /\ entries[k + 1] = other
        /\ \A i \in 1 .. k : entries[i] = past[i]
    BY <1>4, <2>1
  <2>3. \A i \in 1 .. (k + 1) : i \in 1 .. k \/ i = k + 1
    OBVIOUS
  <2>4. /\ \A i \in 1 .. (k + 1) : Counts(entries[i].summary)
        /\ \A i \in 1 .. (k + 1) : entries[i].id = i
    BY <1>1, <1>2, <2>2, <2>3, Zenon
  <2>5. Campaign(entries, k + 1)
    <3>1. ASSUME NEW i \in 1 .. (k + 1), NEW j \in 1 .. (k + 1),
                 entries[i].id = entries[j].id
          PROVE  i = j
      <4>1. entries[i].id = i /\ entries[j].id = j
        BY <2>4, Zenon
      <4> QED BY <3>1, <4>1, Zenon
    <3>2. \A i \in 1 .. (k + 1) : Counts(entries[i].summary)
      BY <2>4, Zenon
    <3> QED BY <2>2, <3>1, <3>2 DEF Campaign
  <2>6. k + 1 \in Nat /\ \A i \in 1 .. (k + 1) : entries[i].id # 0
    <3>1. k + 1 \in Nat /\ \A i \in 1 .. (k + 1) : i # 0
      OBVIOUS
    <3> QED BY <2>4, <3>1, Zenon
  <2> QED BY <1>8, <2>5, <2>6 DEF HasRun
<1>9. CASE other.json # "absent" /\ this.json # "absent"
  <2>1. entries = Append(Append(past, other), this)
    BY <1>3, <1>4, <1>5, <1>9
  <2>2. /\ DOMAIN entries = 1 .. (k + 2) /\ entries[k + 1] = other
        /\ entries[k + 2] = this /\ \A i \in 1 .. k : entries[i] = past[i]
    BY <1>4, <2>1
  <2>3. Counts(this.summary)
    BY <2>2
  <2>4. ASSUME NEW i \in 1 .. (k + 2)
        PROVE  i \in 1 .. k \/ i = k + 1 \/ i = k + 2
    <3>1. i \in Nat /\ 1 <= i /\ (i <= k \/ i = k + 1 \/ i = k + 2)
      OBVIOUS
    <3> QED BY <3>1
  <2>5. \A i \in 1 .. (k + 2) : Counts(entries[i].summary)
    BY <1>1, <1>2, <2>2, <2>3, <2>4
  <2>6. \A i \in 1 .. (k + 2) : entries[i].id = IF i = k + 2 THEN 0 ELSE i
    BY <1>1, <1>2, <2>2, <2>4
  <2>7. Campaign(entries, k + 2)
    <3>1. ASSUME NEW i \in 1 .. (k + 2), NEW j \in 1 .. (k + 2),
                 entries[i].id = entries[j].id
          PROVE  i = j
      <4>1. /\ entries[i].id = IF i = k + 2 THEN 0 ELSE i
            /\ entries[j].id = IF j = k + 2 THEN 0 ELSE j
        BY <2>6, Zenon
      <4>2. i # 0 /\ j # 0
        OBVIOUS
      <4> QED BY <3>1, <4>1, <4>2, Zenon
    <3> QED BY <2>2, <2>5, <3>1 DEF Campaign
  <2>8. \A i \in 1 .. (k + 2) : entries[i].id = 0 => entries[i] = this
    BY <2>2, <2>6
  <2>9. k + 2 \in Nat /\ k + 2 \in 1 .. (k + 2)
    OBVIOUS
  <2> QED BY <1>9, <2>2, <2>7, <2>8, <2>9 DEF HasRun
<1> QED BY <1>6, <1>7, <1>8, <1>9

(* The third inductive invariant: a written report is the aggregate of a    *)
(* campaign, and lists this run if it has a summary that counts failures.   *)
Reports(entries, result) ==
  \E n \in Nat : Campaign(entries, n) /\ result = aggregate(entries)

ReportInv ==
  report.state = "written" =>
    /\ stage = "done"
    /\ Reports(report.of, report.result)
    /\ 0 \in report.result.FailedRunIDs <=>
         Whole /\ ~passing(bundle.summary)

LEMMA ListedRun ==
  ASSUME NEW n \in Nat, NEW entries, Campaign(entries, n), NEW result,
         result = aggregate(entries), NEW this,
         HasRun(entries, n, this)
  PROVE  0 \in result.FailedRunIDs <=>
           this.json # "absent" /\ ~passing(this.summary)
<1>1. PICK total : RunsAfter(total, entries, n) /\ TimedTotal(result, total)
  BY AggregateTotals, Zenon
<1>2. result.FailedRunIDs = {entries[i].id : i \in FailedIn(entries, n)}
  BY <1>1, Zenon DEF RunsAfter, TimedTotal
<1>3. 0 \in result.FailedRunIDs <=>
        \E i \in 1 .. n : entries[i].id = 0 /\ ~passing(entries[i].summary)
  BY <1>2, Zenon DEF FailedIn
<1> QED BY <1>3, Zenon DEF HasRun

LEMMA AggregateReport ==
  ASSUME EvidenceInv, SummaryInv, Aggregate
  PROVE  ReportInv'
<1> SUFFICES ASSUME report'.state = "written"
             PROVE  ReportInv'
  BY DEF ReportInv
<1>1. /\ stage' = "done" /\ UNCHANGED bundle
      /\ \E k \in Earlier, kind \in {"failing", "absent", "torn"} :
           LET entries == Archive(k) \o Entry(Another(k, kind)) \o
                 Entry([id |-> 0, json |-> bundle.json,
                        summary |-> bundle.summary])
           IN /\ \A i \in DOMAIN entries : entries[i].json = "whole"
              /\ report' = [state |-> "written", of |-> entries,
                            result |-> aggregate(entries)]
  <2>1. [state |-> "error"].state # "written"
    OBVIOUS
  <2> QED BY <2>1, Zenon DEF Aggregate
<1>2. PICK this :
        this = [id |-> 0, json |-> bundle.json, summary |-> bundle.summary]
  OBVIOUS
<1>3. PICK k \in Earlier, kind \in {"failing", "absent", "torn"} : \E entries :
        /\ entries = Archive(k) \o Entry(Another(k, kind)) \o Entry(this)
        /\ \A i \in DOMAIN entries : entries[i].json = "whole"
        /\ report' = [state |-> "written", of |-> entries,
                      result |-> aggregate(entries)]
  BY <1>1, <1>2, Zenon
<1>4. PICK entries :
        /\ entries = Archive(k) \o Entry(Another(k, kind)) \o Entry(this)
        /\ \A i \in DOMAIN entries : entries[i].json = "whole"
        /\ report' = [state |-> "written", of |-> entries,
                      result |-> aggregate(entries)]
  BY <1>3, Zenon
<1>5. /\ this.id = 0 /\ this.json = bundle.json
      /\ this.summary = bundle.summary
  BY <1>2
<1>6. this.json = "whole" => Counts(this.summary)
  BY <1>5, Zenon DEF SummaryInv, Summed, Whole, Tells
<1>7. PICK n \in Nat : Campaign(entries, n) /\ HasRun(entries, n, this)
  <2>1. k \in Nat
    BY EvidenceAssumption
  <2> QED BY <1>4, <1>5, <1>6, <2>1, EntriesAreCampaign, Zenon
<1>8. PICK result : result = aggregate(entries)
  OBVIOUS
<1>9. report'.of = entries /\ report'.result = result
  BY <1>4, <1>8
<1>10. 0 \in result.FailedRunIDs <=>
        this.json # "absent" /\ ~passing(this.summary)
  BY <1>7, <1>8, ListedRun, Zenon
<1>11. this.json # "absent" <=> Whole
  <2>1. ASSUME this.json # "absent"
        PROVE  this.json = "whole"
    <3>1. PICK i \in 1 .. n : entries[i].id = 0
      BY <1>7, <2>1, Zenon DEF HasRun
    <3>2. entries[i] = this /\ i \in DOMAIN entries
      BY <1>7, <3>1, Zenon DEF Campaign, HasRun
    <3> QED BY <1>4, <3>2, Zenon
  <2>2. "whole" # "absent"
    OBVIOUS
  <2> QED BY <1>5, <2>1, <2>2, Zenon DEF Whole
<1>12. Reports(entries, result)
  BY <1>7, <1>8, Zenon DEF Reports
<1>13. Whole' <=> Whole
  BY <1>1 DEF Whole
<1>14. 0 \in report'.result.FailedRunIDs <=> Whole' /\ ~passing(bundle'.summary)
  BY <1>1, <1>5, <1>9, <1>10, <1>11, <1>13, Zenon
<1> QED BY <1>1, <1>9, <1>12, <1>14, Zenon DEF ReportInv

LEMMA NextReport ==
  ASSUME EvidenceInv, SummaryInv, ReportInv, [Next]_vars
  PROVE  ReportInv'
<1>1. CASE UNCHANGED vars
  <2>1. UNCHANGED <<stage, report, bundle>>
    BY <1>1 DEF vars
  <2> QED BY <2>1, Zenon DEF ReportInv, Whole
<1>2. CASE Aggregate
  BY <1>2, AggregateReport
<1>3. ASSUME stage # "done", UNCHANGED report
      PROVE  ReportInv'
  <2>1. report'.state # "written"
    BY <1>3 DEF ReportInv
  <2> QED BY <2>1 DEF ReportInv
<1>4. CASE EndTests \/ Summarise \/ WriteBundle
  <2>1. stage # "done" /\ UNCHANGED report
    BY <1>4 DEF EndTests, Summarise, WriteBundle, reporting
  <2> QED BY <1>3, <2>1
<1>5. ASSUME NEW t \in Tests, NEW s \in Terminal, NEW d \in Durations,
             StartTest(t) \/ FinishTest(t, s, d)
      PROVE  ReportInv'
  <2>1. stage # "done" /\ UNCHANGED report
    BY <1>5 DEF StartTest, FinishTest, reporting
  <2> QED BY <1>3, <2>1
<1>6. ASSUME NEW t \in Tests, StartTest(t)
      PROVE  ReportInv'
  <2>1. stage # "done" /\ UNCHANGED report
    BY <1>6 DEF StartTest, reporting
  <2> QED BY <1>3, <2>1
<1>7. ASSUME NEW o \in Observers, Stamp(o) \/ Record(o)
      PROVE  ReportInv'
  <2>1. stage # "done" /\ UNCHANGED report
    BY <1>7 DEF Stamp, Record, reporting
  <2> QED BY <1>3, <2>1
<1> QED BY <1>1, <1>2, <1>4, <1>5, <1>6, <1>7 DEF Next

LEMMA ReportInvariant == Spec => [](EvidenceInv /\ SummaryInv /\ ReportInv)
<1>1. Init => ReportInv
  <2>1. ASSUME Init
        PROVE  report.state # "written"
    BY <2>1 DEF Init, NoReport
  <2> QED BY <2>1 DEF ReportInv
<1>2. EvidenceInv /\ SummaryInv /\ ReportInv /\ [Next]_vars => ReportInv'
  BY NextReport
<1> QED BY <1>1, <1>2, SummaryInvariant, PTL DEF Spec

(* For any tests and durations and any number of runs before, the report    *)
(* lists this run if a leaf test of it failed and its files could be read   *)
(* and written, and does not list it if it passed (Parse, WriteBundle,      *)
(* aggregate).                                                              *)
THEOREM FailedRunsAreListed == Spec => []FailedRunIsListed
<1>1. ASSUME SummaryInv, ReportInv, report.state = "written"
      PROVE  IF 0 \in report.result.FailedRunIDs THEN truth.failed
             ELSE \/ ~truth.failed
                  \/ \A t \in DOMAIN truth.leaves : truth.leaves[t] # "fail"
                  \/ truth.unreadable \/ truth.unwritten
  <2> DEFINE s == bundle.summary
             leaves == truth.leaves
  <2>1. /\ Whole \/ truth.unreadable \/ truth.unwritten
        /\ 0 \in report.result.FailedRunIDs <=> Whole /\ ~passing(s)
        /\ Whole => Tells(s, leaves)
        /\ (\E t \in DOMAIN leaves : leaves[t] = "fail") => truth.failed
    BY <1>1 DEF SummaryInv, ReportInv, Accounted, Summed, FailuresTell
  <2> HIDE DEF s, leaves
  <2>2. ASSUME Tells(s, leaves)
        PROVE  ~passing(s) <=> \E t \in DOMAIN leaves : leaves[t] = "fail"
    <3>1. /\ DOMAIN leaves = DOMAIN s.Tests
          /\ \A t \in DOMAIN s.Tests : leaves[t] = s.Tests[t].status
      <4>1. leaves = [t \in DOMAIN s.Tests |-> s.Tests[t].status]
        BY <2>2 DEF Tells
      <4> QED BY <4>1
    <3>2. With(s, "fail") = {} <=> ~\E t \in DOMAIN leaves : leaves[t] = "fail"
      BY <3>1, Zenon DEF With
    <3>3. /\ IsFiniteSet(DOMAIN s.Tests)
          /\ s.Failed = Cardinality(With(s, "fail"))
      BY <2>2 DEF Tells, Counts
    <3>4. IsFiniteSet(With(s, "fail"))
      <4>1. With(s, "fail") \subseteq DOMAIN s.Tests
        BY DEF With
      <4> QED BY <3>3, <4>1, FS_Subset
    <3>5. Cardinality(With(s, "fail")) = 0 <=> With(s, "fail") = {}
      BY <3>4, FS_EmptySet
    <3> QED BY <3>2, <3>3, <3>5, Zenon DEF passing
  <2> QED BY <2>1, <2>2, Zenon DEF leaves
<1>2. SummaryInv /\ ReportInv => FailedRunIsListed
  BY <1>1, Zenon DEF FailedRunIsListed
<1> QED BY <1>2, ReportInvariant, PTL

(* What a written report has counted.                                       *)
LEMMA ReportCounts ==
  ASSUME NEW entries, NEW result, Reports(entries, result)
  PROVE  \E n \in Nat : /\ Campaign(entries, n)
                        /\ \E total : /\ RunsAfter(total, entries, n)
                                      /\ TimedTotal(result, total)
<1>1. PICK n \in Nat : Campaign(entries, n) /\ result = aggregate(entries)
  BY Zenon DEF Reports
<1>2. \E total : RunsAfter(total, entries, n) /\ TimedTotal(result, total)
  BY <1>1, AggregateTotals, Zenon
<1> QED BY <1>1, <1>2, Zenon

(* CampaignAddsUp but for its sum, of any result and summaries.             *)
AddsUp(result, summaries) ==
  LET with(n, S) == Cardinality({i \in DOMAIN summaries :
                      /\ n \in DOMAIN summaries[i].Tests
                      /\ summaries[i].Tests[n].status \in S})
      names == DOMAIN result.byScenario
  IN /\ result.Runs = Len(summaries)
     /\ result.PassingRuns + result.FailingRuns = result.Runs
     /\ result.FailingRuns = Cardinality(result.FailedRunIDs)
     /\ names = UNION {DOMAIN summaries[i].Tests : i \in DOMAIN summaries}
     /\ \A n \in names :
          /\ result.byScenario[n].Passed = with(n, {"pass"})
          /\ result.byScenario[n].Failed = with(n, {"fail"})
          /\ result.byScenario[n].Executions = with(n, Terminal)

(* The aggregate of any finite sequence of summaries that count their own   *)
(* tests, whatever these are, counts the runs, the failed runs, and the     *)
(* executions of each scenario by outcome, and the executions of all        *)
(* scenarios add up to those of all runs (aggregate).                       *)
THEOREM CampaignCounts ==
  ASSUME NEW entries, NEW result, Reports(entries, result), NEW summaries,
         summaries = [i \in DOMAIN entries |-> entries[i].summary]
  PROVE  /\ AddsUp(result, summaries)
         /\ result.ScenarioExecutions =
              FoldSet(LAMBDA m, sum : sum + result.byScenario[m].Executions, 0,
                      DOMAIN result.byScenario)
<1> DEFINE names == DOMAIN result.byScenario
           with(m, S) == {i \in DOMAIN summaries :
                            /\ m \in DOMAIN summaries[i].Tests
                            /\ summaries[i].Tests[m].status \in S}
<1>1. PICK n \in Nat :
        /\ Campaign(entries, n)
        /\ \E total : RunsAfter(total, entries, n) /\ TimedTotal(result, total)
  BY ReportCounts, Zenon
<1>2. PICK total : RunsAfter(total, entries, n) /\ TimedTotal(result, total)
  BY <1>1, Zenon
<1>3. /\ DOMAIN summaries = 1 .. n
      /\ \A i \in 1 .. n : summaries[i].Tests = TestsOf(entries, i)
  <2>1. DOMAIN entries = 1 .. n
    BY <1>1 DEF Campaign
  <2> QED BY <2>1, Zenon DEF TestsOf
<1>4. Len(summaries) = n
  <2>1. summaries \in Seq({summaries[i] : i \in 1 .. n})
    <3> DEFINE R == {summaries[i] : i \in 1 .. n}
    <3>1. summaries = [i \in 1 .. n |-> summaries[i]]
      BY <1>3, Zenon
    <3>2. \A i \in 1 .. n : summaries[i] \in R
      BY Zenon
    <3> HIDE DEF R
    <3>3. summaries \in [1 .. n -> R]
      BY <3>1, <3>2, Zenon
    <3>4. summaries \in Seq(R)
      BY <3>3
    <3> QED BY <3>4 DEF R
  <2> QED BY <1>3, <2>1
<1>5. /\ result.Runs = n /\ total.PassingRuns + total.FailingRuns = n
      /\ result.PassingRuns = total.PassingRuns
      /\ result.FailingRuns = total.FailingRuns
      /\ result.FailingRuns = Cardinality(result.FailedRunIDs)
      /\ names = DOMAIN total.byScenario
      /\ DOMAIN total.byScenario =
           UNION {DOMAIN TestsOf(entries, i) : i \in 1 .. n}
      /\ IsFiniteSet(Executed(entries, n))
      /\ result.ScenarioExecutions = Cardinality(Executed(entries, n))
  BY <1>2, Zenon DEF RunsAfter, TimedTotal
<1>6. names = UNION {DOMAIN summaries[i].Tests : i \in DOMAIN summaries}
  <2>1. \A x : (\E i \in 1 .. n : x \in DOMAIN TestsOf(entries, i)) <=>
               (\E i \in DOMAIN summaries : x \in DOMAIN summaries[i].Tests)
    BY <1>3, Zenon
  <2>2. \A x : x \in names <=>
               \E i \in 1 .. n : x \in DOMAIN TestsOf(entries, i)
    BY <1>5
  <2>3. \A x : x \in UNION {DOMAIN summaries[i].Tests : i \in DOMAIN summaries}
          <=> \E i \in DOMAIN summaries : x \in DOMAIN summaries[i].Tests
    OBVIOUS
  <2> QED BY <2>1, <2>2, <2>3
<1>7. ASSUME NEW m, NEW S
      PROVE  Where(entries, n, m, S) = with(m, S)
  BY <1>3, Zenon DEF Where
<1>8. ASSUME NEW m \in names
      PROVE  /\ result.byScenario[m].Passed =
                  Cardinality(Where(entries, n, m, {"pass"}))
             /\ result.byScenario[m].Failed =
                  Cardinality(Where(entries, n, m, {"fail"}))
             /\ result.byScenario[m].Executions =
                  Cardinality(Where(entries, n, m, Terminal))
  <2>1. PICK old : old = total.byScenario[m]
    OBVIOUS
  <2>2. ScenarioAfter(old, entries, n, m) /\ result.byScenario[m] = Timed(old)
    BY <1>2, <1>5, <2>1, Zenon DEF RunsAfter, TimedTotal
  <2>3. /\ Timed(old).Passed = old.Passed /\ Timed(old).Failed = old.Failed
        /\ Timed(old).Executions = old.Executions
    BY DEF Timed
  <2> QED BY <2>2, <2>3, Zenon DEF ScenarioAfter
<1>9. result.ScenarioExecutions =
        FoldSet(LAMBDA m, sum : sum + result.byScenario[m].Executions, 0, names)
  <2> DEFINE by == result.byScenario
  <2>1. /\ DOMAIN by = UNION {DOMAIN TestsOf(entries, i) : i \in 1 .. n}
        /\ \A m \in DOMAIN by :
             by[m].Executions = Cardinality(Where(entries, n, m, Terminal))
    BY <1>5, <1>8, Zenon
  <2>2. FoldSet(LAMBDA m, sum : sum + by[m].Executions, 0, DOMAIN by) =
          Cardinality(Executed(entries, n))
    BY <1>1, <1>5, <2>1, SumOfScenarios, Zenon
  <2> QED BY <1>5, <2>2, Zenon
<1>10. ASSUME NEW m \in names
       PROVE  /\ result.byScenario[m].Passed = Cardinality(with(m, {"pass"}))
              /\ result.byScenario[m].Failed = Cardinality(with(m, {"fail"}))
              /\ result.byScenario[m].Executions =
                   Cardinality(with(m, Terminal))
  <2> HIDE DEF with
  <2>1. /\ Where(entries, n, m, {"pass"}) = with(m, {"pass"})
        /\ Where(entries, n, m, {"fail"}) = with(m, {"fail"})
        /\ Where(entries, n, m, Terminal) = with(m, Terminal)
    BY <1>7, Zenon
  <2> QED BY <1>8, <2>1, Zenon
<1>11. /\ result.Runs = Len(summaries)
       /\ result.PassingRuns + result.FailingRuns = result.Runs
       /\ result.FailingRuns = Cardinality(result.FailedRunIDs)
  BY <1>4, <1>5, Zenon
<1>12. AddsUp(result, summaries)
  BY <1>6, <1>10, <1>11, Zenon DEF AddsUp
<1> QED BY <1>9, <1>12, Zenon

(* Whatever the tests of this run did, however it ended, and however many   *)
(* runs came before it, the counts of a written repeatability report are    *)
(* those of the summaries it was made of, per run and per scenario          *)
(* (aggregate).                                                             *)
THEOREM CampaignIsCounted == Spec => []CampaignAddsUp
<1>1. ASSUME ReportInv, report.state = "written"
      PROVE  Reports(report.of, report.result)
  BY <1>1 DEF ReportInv
<1>2. ASSUME ReportInv, report.state = "written"
      PROVE  /\ AddsUp(report.result,
                       [i \in DOMAIN report.of |-> report.of[i].summary])
             /\ report.result.ScenarioExecutions =
                  FoldSet(LAMBDA n, sum :
                            sum + report.result.byScenario[n].Executions, 0,
                          DOMAIN report.result.byScenario)
  BY <1>1, <1>2, CampaignCounts, Zenon
<1>3. ReportInv => CampaignAddsUp
  BY <1>2, Zenon DEF CampaignAddsUp, AddsUp
<1> QED BY <1>3, ReportInvariant, PTL

(* A scenario is in the report because some run executed it.                *)
LEMMA ScenarioWasExecuted ==
  ASSUME NEW n \in Nat, NEW entries, Campaign(entries, n), NEW i \in 1 .. n,
         NEW m \in DOMAIN TestsOf(entries, i)
  PROVE  Cardinality(Where(entries, n, m, Terminal)) # 0
<1>1. TestsOf(entries, i)[m].status \in Terminal
  <2>1. Counts(entries[i].summary)
    BY DEF Campaign
  <2>2. TestsOf(entries, i) \in
          [DOMAIN TestsOf(entries, i) -> [status : Terminal, elapsed : Nat]]
    BY <2>1, Zenon DEF Counts, TestsOf
  <2>3. TestsOf(entries, i)[m] \in [status : Terminal, elapsed : Nat]
    BY <2>2, Zenon
  <2> QED BY <2>3
<1>2. i \in Where(entries, n, m, Terminal)
  BY <1>1, Zenon DEF Where
<1>3. IsFiniteSet(Where(entries, n, m, Terminal))
  <2>1. Where(entries, n, m, Terminal) \subseteq 1 .. n
    BY DEF Where
  <2> QED BY <2>1, FS_Interval, FS_Subset
<1> QED BY <1>2, <1>3, FS_EmptySet

(* A timed scenario has its nearest rank and its maximum.                   *)
LEMMA TimedRanks ==
  ASSUME NEW old \in Scenarios, Len(old.durations) = old.Executions,
         old.Executions # 0, NEW s, s = Timed(old)
  PROVE  /\ 100 * Cardinality({i \in DOMAIN s.durations :
                                 s.durations[i] <= s.P95}) >= 95 * s.Executions
         /\ \A d \in Range(s.durations) :
              100 * Cardinality({i \in DOMAIN s.durations :
                                   s.durations[i] <= d}) >= 95 * s.Executions
                => s.P95 <= d
         /\ \A d \in Range(s.durations) : d <= s.Max
<1>1. PICK t : t = Sorted(old.durations)
  OBVIOUS
<1>2. old.durations \in Seq(Nat) /\ old.Executions \in Nat
  BY DEF Scenarios
<1>3. /\ t \in Seq(Nat) /\ Len(t) = Len(old.durations)
      /\ \A i, j \in 1 .. Len(old.durations) : i <= j => t[i] <= t[j]
  BY <1>1, <1>2, SortedSorts, Zenon
<1>4. PICK n \in Nat \ {0} : n = old.Executions
  BY <1>2
<1>5. /\ t \in [1 .. n -> Nat] /\ DOMAIN t = 1 .. n /\ Len(t) = n
      /\ \A i, j \in 1 .. n : i <= j => t[i] <= t[j]
  BY <1>3, <1>4
<1>6. /\ s.durations = t /\ s.Executions = n
      /\ s.P95 = t[p95Index(n)] /\ s.Max = t[n]
  BY <1>1, <1>4, <1>5 DEF Timed
<1>7. PICK p : p = t[p95Index(n)]
  OBVIOUS
<1>8. Ranks(t, n, p)
  <2>1. t \in [1 .. n -> Nat] /\ \A i, j \in 1 .. n : i <= j => t[i] <= t[j]
    BY <1>5, Zenon
  <2> QED BY <1>7, <2>1, NearestRank, Zenon
<1>9. \A d \in Range(t) : \E j \in 1 .. n : d = t[j]
  BY <1>5, Zenon DEF Range
<1>10. /\ 100 * Cardinality({i \in DOMAIN t : t[i] <= p}) >= 95 * n
       /\ \A d \in Range(t) :
            100 * Cardinality({i \in DOMAIN t : t[i] <= d}) >= 95 * n => p <= d
       /\ \A d \in Range(t) : d <= t[n]
  BY <1>5, <1>8, <1>9 DEF Ranks
<1> QED BY <1>6, <1>7, <1>10, Zenon

(* For any number of executions and any durations, the p95 of a scenario in *)
(* a written report is the least of its durations that at least 95 in 100   *)
(* of them do not exceed, and its maximum is their greatest (aggregate).    *)
THEOREM PercentileIsRight == Spec => []PercentileIsNearestRank
<1>1. ASSUME NEW entries, NEW result, Reports(entries, result),
             NEW m \in DOMAIN result.byScenario
      PROVE  \E old \in Scenarios : /\ Len(old.durations) = old.Executions
                                    /\ old.Executions # 0
                                    /\ result.byScenario[m] = Timed(old)
  <2>1. PICK n \in Nat :
          /\ Campaign(entries, n)
          /\ \E total : RunsAfter(total, entries, n) /\ TimedTotal(result, total)
    BY <1>1, ReportCounts, Zenon
  <2>2. PICK total : RunsAfter(total, entries, n) /\ TimedTotal(result, total)
    BY <2>1, Zenon
  <2>3. PICK old : old = total.byScenario[m]
    OBVIOUS
  <2>4. /\ m \in DOMAIN total.byScenario /\ ScenarioAfter(old, entries, n, m)
        /\ result.byScenario[m] = Timed(old)
    BY <2>2, <2>3, Zenon DEF RunsAfter, TimedTotal
  <2>5. DOMAIN total.byScenario =
          UNION {DOMAIN TestsOf(entries, i) : i \in 1 .. n}
    BY <2>2, Zenon DEF RunsAfter
  <2>6. PICK i \in 1 .. n : m \in DOMAIN TestsOf(entries, i)
    BY <2>4, <2>5
  <2>7. Cardinality(Where(entries, n, m, Terminal)) # 0
    BY <2>1, <2>6, ScenarioWasExecuted, Zenon
  <2> QED BY <2>4, <2>7, Zenon DEF ScenarioAfter
<1>2. ASSUME ReportInv, report.state = "written",
             NEW m \in DOMAIN report.result.byScenario
      PROVE  \E old \in Scenarios : /\ Len(old.durations) = old.Executions
                                    /\ old.Executions # 0
                                    /\ report.result.byScenario[m] = Timed(old)
  <2>1. Reports(report.of, report.result)
    BY <1>2 DEF ReportInv
  <2>2. m \in DOMAIN report.result.byScenario
    BY <1>2
  <2> QED BY <1>1, <2>1, <2>2
<1>3. ReportInv => PercentileIsNearestRank
  BY <1>2, TimedRanks, Zenon DEF PercentileIsNearestRank
<1> QED BY <1>3, ReportInvariant, PTL
====
