----------------------------- MODULE CommunityProof -----------------------------
(***************************************************************************)
(* Proofs about what MCCommunity checks, for any values of the constants:  *)
(* the reports and their moderators (Reports), the page of a thread        *)
(* (ThreadPages), the scores and levels of trust (Trust), preferences      *)
(* (Preferences) and lists (Listings).                                     *)
(***************************************************************************)
EXTENDS MCCommunity, Integers, Sequences, FiniteSetTheorems, TLAPS

-----------------------------------------------------------------------------
(* Reports.                                                                *)

LEMMA ReportFacts ==
    /\ PostThread \in [Post -> Thread]
    /\ Scope \in [Moderator -> SUBSET Category \cup {Everywhere}]
    /\ Nobody \notin Reports!Rows /\ Nobody \notin Post /\ Nobody \notin Thread
    /\ IsFiniteSet(Report)
  BY CommunityConstants DEF Reports!ReportConstants, Reports!IsFiniteSet, IsFiniteSet

Decision == Reports!Status \ {"pending"}
Briefing == [report : Report, row : Reports!Rows, by : Moderator, decision : Decision]
Deciding(w) == desk[w] \in {"authorize", "write", "uncache", "append"}

(* A report is of something, and what a moderator has read of one still    *)
(* says what it is of.                                                     *)
About(row) == row.thread # Nobody \/ row.post # Nobody

Reported ==
    /\ report_world \in ReportWorlds
    /\ home \in [Thread -> Category]
    /\ reports \in [Report -> Reports!Rows \cup {Nobody}]
    /\ audit \in [Report -> SUBSET [decision : Decision, by : Moderator]]
    /\ desk \in [Worker -> {"idle", "authorize", "write", "append", "uncache", "fill"}]
    /\ DOMAIN brief = Worker /\ brief = [w \in Worker |-> brief[w]]
    /\ \A r \in Report : reports[r] # Nobody => About(reports[r])
    /\ \A w \in Worker :
        /\ desk[w] = "idle" => brief[w] = Nobody
        /\ Deciding(w) => /\ brief[w] \in Briefing
                          /\ reports[brief[w].report] # Nobody
                          /\ brief[w].row.thread = reports[brief[w].report].thread
                          /\ brief[w].row.post = reports[brief[w].report].post
        /\ desk[w] = "write" => brief[w].row.status = "pending"

(* The reports a dashboard counts, whatever the category.                  *)
Open == {r \in Report : reports[r] # Nobody /\ reports[r].status = "pending"}

LEMMA Subsets ==
    ASSUME NEW S \in SUBSET Report
    PROVE  /\ IsFiniteSet(S) /\ Cardinality(S) \in 0 .. Cardinality(Report)
           /\ Cardinality(Report) \in Nat
           /\ \A T \in SUBSET S : Cardinality(T) <= Cardinality(S)
<1>1. IsFiniteSet(S) /\ Cardinality(S) <= Cardinality(Report)
  BY ReportFacts, FS_Subset
<1>2. Cardinality(S) \in Nat /\ Cardinality(Report) \in Nat
  BY <1>1, ReportFacts, FS_CardinalityType
<1>3. \A T \in SUBSET S : Cardinality(T) <= Cardinality(S)
  BY <1>1, FS_Subset
<1> QED
  BY <1>1, <1>2, <1>3

LEMMA Counted ==
    ASSUME Reported
    PROVE  /\ Reports!dashboard_counts = Cardinality(Open)
           /\ IsFiniteSet(Open) /\ Cardinality(Open) \in 0 .. Cardinality(Report)
           /\ Reports!Cardinality(Report) = Cardinality(Report)
<1>1. \A S : Reports!Cardinality(S) = Cardinality(S)
  BY DEF Reports!Cardinality, Cardinality
<1>2. \A r \in Report : reports[r] # Nobody =>
        /\ reports[r].thread # Nobody => home[reports[r].thread] \in Category
        /\ reports[r].post # Nobody => home[PostThread[reports[r].post]] \in Category
  BY ReportFacts DEF Reported, Reports!Rows
<1>3. Reports!scope_to_categories(Category) = Reports!Filed
  BY <1>2 DEF Reports!scope_to_categories, Reports!Filed, Reported, About
<1>4. {r \in Reports!scope_to_categories(Category) : reports[r].status = "pending"} = Open
  BY <1>3 DEF Reports!Filed, Open
<1>5. Reports!dashboard_counts = Cardinality(Open)
  BY <1>1, <1>4 DEF Reports!dashboard_counts, Reports!count_by_status, Reports!Status
<1>6. IsFiniteSet(Open) /\ Cardinality(Open) <= Cardinality(Report)
  BY ReportFacts, FS_Subset DEF Open
<1>7. Cardinality(Open) \in Nat /\ Cardinality(Report) \in Nat
  BY <1>6, ReportFacts, FS_CardinalityType
<1> QED
  BY <1>1, <1>5, <1>6, <1>7

Dashboard ==
    /\ dashboard # Nobody =>
         \E p \in 0 .. Cardinality(Report) : \E l : dashboard = [pending |-> p, left |-> l]
    /\ \A w \in Worker : desk[w] = "fill" => brief[w].pending \in 0 .. Cardinality(Report)

(* While requests come one after the other: what the one at work has read  *)
(* is still so; what it has written it will enter in the log, which has    *)
(* the entries of all the others; and the dashboard counts none decided,   *)
(* except between a decision and the removal of the entry.                 *)
Entry(r) == [decision |-> reports[r].status, by |-> reports[r].by]
Entries(r) == IF reports[r].status = "pending" THEN {} ELSE {Entry(r)}
Unlogged(w, r) == desk[w] \in {"uncache", "append"} /\ brief[w].report = r

OneDesk == \A v, w \in Worker : desk[v] # "idle" /\ desk[w] # "idle" => v = w

AsRead ==
    \A w \in Worker :
      /\ desk[w] \in {"authorize", "write"} => brief[w].row = reports[brief[w].report]
      /\ desk[w] = "fill" => brief[w].pending <= Cardinality(Open)

CountsOpen ==
    (\A w \in Worker : desk[w] # "uncache") =>
      (dashboard # Nobody => dashboard.pending <= Cardinality(Open))

Logged(r) ==
    IF reports[r] = Nobody THEN audit[r] = {}
    ELSE "audit_error" \notin report_world =>
           /\ (\A w \in Worker : ~Unlogged(w, r)) => audit[r] = Entries(r)
           /\ \A w \in Worker : Unlogged(w, r) =>
                /\ audit[r] = {} /\ reports[r].status = brief[w].decision
                /\ reports[r].by = brief[w].by

InSequence ==
    "overlap" \notin report_world =>
      OneDesk /\ AsRead /\ CountsOpen /\ \A r \in Report : Logged(r)

ReportsInv == Reported /\ Dashboard /\ InSequence

LEMMA ReportsInitially ==
    ASSUME Reports!Init
    PROVE  ReportsInv
  BY DEF Reports!Init, ReportsInv, Reported, Deciding, Dashboard, InSequence, OneDesk, AsRead,
         CountsOpen, Logged, Unlogged

(* A step of w: the others stay where they are.                            *)
LEMMA Shifted ==
    ASSUME Reported, NEW w \in Worker, NEW label, NEW fields, Reports!Goto(w, label, fields)
    PROVE  /\ DOMAIN brief' = Worker /\ brief' = [v \in Worker |-> brief'[v]]
           /\ desk'[w] = label /\ brief'[w] = fields
           /\ \A v \in Worker \ {w} : desk'[v] = desk[v] /\ brief'[v] = brief[v]
           /\ label \in {"idle", "authorize", "write", "append", "uncache", "fill"} =>
                desk' \in [Worker -> {"idle", "authorize", "write", "append", "uncache", "fill"}]
  BY DEF Reported, Reports!Goto

LEMMA NewReport ==
    ASSUME ReportsInv, NEW r \in Report, NEW p \in Post \cup {Nobody},
           NEW t \in Thread \cup {Nobody}, Reports!create_report(r, p, t)
    PROVE  ReportsInv'
<1> DEFINE row == [post |-> p, thread |-> t, status |-> "pending", by |-> Nobody]
<1>0. Reported /\ Dashboard /\ InSequence
  BY DEF ReportsInv
<1>1. /\ row \in Reports!Rows /\ row # Nobody /\ About(row) /\ row.status = "pending"
  BY ReportFacts DEF Reports!create_report, Reports!Rows, Reports!Status, About
<1>2. /\ reports[r] = Nobody /\ reports' = [reports EXCEPT ![r] = row]
      /\ UNCHANGED <<report_world, home, audit, dashboard, desk, brief>>
  BY DEF Reports!create_report
<1> HIDE DEF row
<1>3. /\ reports' \in [Report -> Reports!Rows \cup {Nobody}] /\ reports'[r] = row
      /\ \A x \in Report \ {r} : reports'[x] = reports[x]
  BY <1>0, <1>1, <1>2 DEF Reported
<1>4. Reported'
  BY <1>0, <1>1, <1>2, <1>3 DEF Reported, Deciding
<1>5. Dashboard'
  BY <1>0, <1>2 DEF Dashboard
<1>6. /\ Cardinality(Open) <= Cardinality(Open')
      /\ Cardinality(Open) \in Int /\ Cardinality(Open') \in Int
  <2>1. Open \subseteq Open' /\ Open' \in SUBSET Report /\ Open \in SUBSET Report
    BY <1>2, <1>3 DEF Open
  <2> QED
    BY <2>1, Subsets
<1>7. ASSUME "overlap" \notin report_world
      PROVE  (OneDesk /\ AsRead /\ CountsOpen /\ \A x \in Report : Logged(x))'
  <2>1. OneDesk' /\ AsRead' /\ CountsOpen'
    BY <1>0, <1>2, <1>3, <1>6, <1>7
    DEF InSequence, OneDesk, AsRead, CountsOpen, Reported, Deciding, Dashboard, Briefing
  <2>2. ASSUME NEW x \in Report  PROVE Logged(x)'
    <3>1. CASE x = r
      <4>1. audit'[x] = {} /\ Entries(x)' = {}
        BY <1>0, <1>1, <1>2, <1>3, <1>7, <3>1 DEF InSequence, Logged, Entries
      <4>2. \A v \in Worker : ~Unlogged(v, x)'
        BY <1>0, <1>2, <3>1 DEF Unlogged, Reported, Deciding
      <4> QED
        BY <4>1, <4>2 DEF Logged
    <3>2. CASE x # r
      BY <1>0, <1>2, <1>3, <1>7, <2>2, <3>2 DEF InSequence, Logged, Unlogged, Entries, Entry
    <3> QED
      BY <3>1, <3>2
  <2> QED
    BY <2>1, <2>2
<1> QED
  BY <1>2, <1>4, <1>5, <1>7 DEF ReportsInv, InSequence

(* A step of w that only reads: FindReport, Authorize, ReadDashboard.      *)
LEMMA Reading ==
    ASSUME ReportsInv, NEW w \in Worker, NEW label, NEW fields, Reports!Goto(w, label, fields),
           UNCHANGED <<report_world, home, reports, audit, dashboard>>,
           label \in {"idle", "authorize", "write", "fill"},
           desk[w] \notin {"uncache", "append"},
           "overlap" \in report_world \/ desk[w] # "idle" \/ \A v \in Worker : desk[v] = "idle",
           label = "idle" => fields = Nobody,
           label \in {"authorize", "write"} =>
             /\ fields \in Briefing /\ reports[fields.report] # Nobody
             /\ fields.row.thread = reports[fields.report].thread
             /\ fields.row.post = reports[fields.report].post
             /\ "overlap" \in report_world \/ fields.row = reports[fields.report],
           label = "write" => fields.row.status = "pending",
           label = "fill" => fields.pending = Cardinality(Open)
    PROVE  ReportsInv'
<1>0. Reported /\ Dashboard /\ InSequence
  BY DEF ReportsInv
<1>1. /\ DOMAIN brief' = Worker /\ brief' = [v \in Worker |-> brief'[v]]
      /\ desk'[w] = label /\ brief'[w] = fields
      /\ \A v \in Worker \ {w} : desk'[v] = desk[v] /\ brief'[v] = brief[v]
      /\ desk' \in [Worker -> {"idle", "authorize", "write", "append", "uncache", "fill"}]
  BY <1>0, Shifted
<1>2. Reported'
  BY <1>0, <1>1 DEF Reported, Deciding
<1>3. Open' = Open /\ Cardinality(Open) \in 0 .. Cardinality(Report)
      /\ Cardinality(Report) \in Nat
  <2>1. Open' = Open /\ Open \in SUBSET Report
    BY DEF Open
  <2> QED
    BY <2>1, Subsets
<1>4. Dashboard'
  BY <1>0, <1>1, <1>3 DEF Dashboard
<1>5. ASSUME "overlap" \notin report_world
      PROVE  (OneDesk /\ AsRead /\ CountsOpen /\ \A x \in Report : Logged(x))'
  <2>1. OneDesk'
    BY <1>0, <1>1, <1>5 DEF InSequence, OneDesk
  <2>2. AsRead' /\ CountsOpen'
    BY <1>0, <1>1, <1>3, <1>5 DEF InSequence, AsRead, CountsOpen
  <2>3. ASSUME NEW x \in Report  PROVE Logged(x)'
    <3>1. /\ \A v \in Worker : desk'[v] \in {"uncache", "append"} <=>
                               desk[v] \in {"uncache", "append"}
          /\ \A v \in Worker : desk[v] \in {"uncache", "append"} => brief'[v] = brief[v]
      BY <1>1
    <3>2. Logged(x)
      BY <1>0, <1>5, <2>3 DEF InSequence
    <3> QED
      BY <3>1, <3>2 DEF Logged, Entries, Entry, Unlogged
  <2> QED
    BY <2>1, <2>2, <2>3
<1> QED
  BY <1>2, <1>4, <1>5 DEF ReportsInv, InSequence

LEMMA FoundReport ==
    ASSUME ReportsInv, NEW w \in Worker, NEW by \in Moderator, NEW r \in Report,
           NEW d \in Decision, Reports!FindReport(w, by, r, d)
    PROVE  ReportsInv'
<1> DEFINE f == [report |-> r, row |-> reports[r], by |-> by, decision |-> d]
<1>1. /\ Reports!Goto(w, "authorize", f) /\ desk[w] = "idle" /\ reports[r] # Nobody
      /\ "overlap" \in report_world \/ \A v \in Worker : desk[v] = "idle"
      /\ UNCHANGED <<report_world, home, reports, audit, dashboard>>
  BY DEF Reports!FindReport, Reports!Free, Reports!Filed
<1>2. f \in Briefing /\ f.report = r /\ f.row = reports[r]
  BY <1>1 DEF ReportsInv, Reported, Briefing
<1> HIDE DEF f
<1> QED
  BY <1>1, <1>2, Reading

LEMMA Authorized ==
    ASSUME ReportsInv, NEW w \in Worker, Reports!Authorize(w)
    PROVE  ReportsInv'
<1>1. /\ desk[w] = "authorize"
      /\ UNCHANGED <<report_world, home, reports, audit, dashboard>>
      /\ \/ Reports!Goto(w, "write", brief[w]) /\ brief[w].row.status = "pending"
         \/ Reports!Goto(w, "idle", Nobody)
  BY DEF Reports!Authorize, Reports!Leave
<1>2. /\ brief[w] \in Briefing /\ reports[brief[w].report] # Nobody
      /\ brief[w].row.thread = reports[brief[w].report].thread
      /\ brief[w].row.post = reports[brief[w].report].post
      /\ "overlap" \in report_world \/ brief[w].row = reports[brief[w].report]
  BY <1>1 DEF ReportsInv, Reported, Deciding, InSequence, AsRead
<1> QED
  BY <1>1, <1>2, Reading

LEMMA DashboardRead ==
    ASSUME ReportsInv, NEW w \in Worker, Reports!ReadDashboard(w)
    PROVE  ReportsInv'
<1>1. /\ Reports!Goto(w, "fill", [pending |-> Cardinality(Open)]) /\ desk[w] = "idle"
      /\ "overlap" \in report_world \/ \A v \in Worker : desk[v] = "idle"
      /\ UNCHANGED <<report_world, home, reports, audit, dashboard>>
  BY Counted DEF Reports!ReadDashboard, Reports!Free, ReportsInv
<1> QED
  BY <1>1, Reading

LEMMA StatusWritten ==
    ASSUME ReportsInv, NEW w \in Worker, Reports!update_status(w)
    PROVE  ReportsInv'
<1> DEFINE r == brief[w].report
           row == [reports[r] EXCEPT !.status = brief[w].decision, !.by = brief[w].by]
<1>0. Reported /\ Dashboard /\ InSequence
  BY DEF ReportsInv
<1>1. /\ desk[w] = "write" /\ Reports!Goto(w, "uncache", brief[w])
      /\ reports' = [reports EXCEPT ![brief[w].report].status = brief[w].decision,
                                    ![brief[w].report].by = brief[w].by]
      /\ UNCHANGED <<report_world, home, audit, dashboard>>
  BY DEF Reports!update_status
<1>2. /\ brief[w] \in Briefing /\ r \in Report /\ reports[r] # Nobody
      /\ reports[r] \in Reports!Rows /\ brief[w].row.status = "pending"
      /\ brief[w].by \in Moderator /\ brief[w].decision \in Decision
      /\ brief[w].row.thread = reports[r].thread
      /\ brief[w].row.post = reports[r].post
  BY <1>0, <1>1 DEF Reported, Deciding, Briefing
<1>3. /\ row \in Reports!Rows /\ row # Nobody /\ row.status = brief[w].decision
      /\ row.by = brief[w].by /\ row.thread = reports[r].thread /\ row.post = reports[r].post
      /\ row.status # "pending"
  <2>1. row \in Reports!Rows /\ row.status = brief[w].decision
      /\ row.by = brief[w].by /\ row.thread = reports[r].thread /\ row.post = reports[r].post
    BY <1>2 DEF Reports!Rows, Decision, Reports!Status
  <2> QED
    BY <2>1, <1>2, ReportFacts DEF Decision
<1>4. reports' = [reports EXCEPT ![r] = row]
  BY <1>0, <1>1, <1>2 DEF Reported, Reports!Rows
<1>5. r = brief[w].report
  OBVIOUS
<1> HIDE DEF row, r
<1>6. /\ reports' \in [Report -> Reports!Rows \cup {Nobody}] /\ reports'[r] = row
      /\ \A x \in Report \ {r} : reports'[x] = reports[x]
  BY <1>0, <1>2, <1>3, <1>4 DEF Reported
<1>7. /\ DOMAIN brief' = Worker /\ brief' = [v \in Worker |-> brief'[v]]
      /\ desk'[w] = "uncache" /\ brief'[w] = brief[w]
      /\ \A v \in Worker \ {w} : desk'[v] = desk[v] /\ brief'[v] = brief[v]
      /\ desk' \in [Worker -> {"idle", "authorize", "write", "append", "uncache", "fill"}]
  BY <1>0, <1>1, Shifted
<1>8. Reported'
  <2>1. \A x \in Report : reports'[x] # Nobody => About(reports'[x])
    BY <1>0, <1>2, <1>3, <1>6 DEF Reported, About
  <2>2. \A v \in Worker :
          /\ desk'[v] = "idle" => brief'[v] = Nobody
          /\ desk'[v] \in {"authorize", "write", "uncache", "append"} =>
               /\ brief'[v] \in Briefing
               /\ reports'[brief'[v].report] # Nobody
               /\ brief'[v].row.thread = reports'[brief'[v].report].thread
               /\ brief'[v].row.post = reports'[brief'[v].report].post
          /\ desk'[v] = "write" => brief'[v].row.status = "pending"
    <3> SUFFICES ASSUME NEW v \in Worker
                 PROVE  /\ desk'[v] = "idle" => brief'[v] = Nobody
                        /\ desk'[v] \in {"authorize", "write", "uncache", "append"} =>
                             /\ brief'[v] \in Briefing
                             /\ reports'[brief'[v].report] # Nobody
                             /\ brief'[v].row.thread = reports'[brief'[v].report].thread
                             /\ brief'[v].row.post = reports'[brief'[v].report].post
                        /\ desk'[v] = "write" => brief'[v].row.status = "pending"
      OBVIOUS
    <3>1. CASE v = w
      BY <1>2, <1>3, <1>5, <1>6, <1>7, <3>1
    <3>2. CASE v # w
      <4>1. desk'[v] = desk[v] /\ brief'[v] = brief[v]
        BY <1>7, <3>2
      <4>2. Deciding(v) => brief[v].report \in Report
        BY <1>0 DEF Reported, Briefing
      <4>3. \A x \in Report : /\ reports[x] # Nobody => reports'[x] # Nobody
                              /\ reports'[x].thread = reports[x].thread
                              /\ reports'[x].post = reports[x].post
        BY <1>3, <1>6
      <4> QED
        BY <1>0, <4>1, <4>2, <4>3 DEF Reported, Deciding
    <3> QED
      BY <3>1, <3>2
  <2> QED
    BY <1>0, <1>1, <1>6, <1>7, <2>1, <2>2 DEF Reported, Deciding
<1>9. Dashboard'
  BY <1>0, <1>1, <1>7 DEF Dashboard
<1>10. ASSUME "overlap" \notin report_world
       PROVE  (OneDesk /\ AsRead /\ CountsOpen /\ \A x \in Report : Logged(x))'
  <2>1. OneDesk'
    BY <1>0, <1>1, <1>7, <1>10 DEF InSequence, OneDesk
  <2>2. \A v \in Worker : v # w => desk'[v] = "idle"
    BY <1>0, <1>1, <1>7, <1>10 DEF InSequence, OneDesk
  <2>3. AsRead' /\ CountsOpen'
    BY <1>7, <2>2 DEF AsRead, CountsOpen
  <2>4. ASSUME NEW x \in Report  PROVE Logged(x)'
    <3>1. /\ Logged(x)
          /\ \A v \in Worker : desk[v] # "idle" => v = w
      BY <1>0, <1>1, <1>10, <2>4 DEF InSequence, OneDesk
    <3>2. \A v \in Worker : ~Unlogged(v, x)
      BY <1>1, <3>1 DEF Unlogged
    <3>3. CASE x = r
      <4>1. reports[r].status = "pending"
        BY <1>0, <1>1, <1>2, <1>5, <1>10 DEF InSequence, AsRead
      <4>2. "audit_error" \notin report_world => audit[r] = {}
        BY <1>2, <3>1, <3>2, <3>3, <4>1 DEF Logged, Entries
      <4>3. \A v \in Worker : Unlogged(v, x)' => v = w
        BY <2>2 DEF Unlogged
      <4>4. Unlogged(w, x)'
        BY <1>5, <1>7, <3>3 DEF Unlogged
      <4> QED
        BY <1>1, <1>3, <1>6, <1>7, <3>3, <4>2, <4>3, <4>4 DEF Logged
    <3>4. CASE x # r
      <4>1. reports'[x] = reports[x] /\ audit'[x] = audit[x]
        BY <1>1, <1>6, <2>4, <3>4
      <4>2. \A v \in Worker : ~Unlogged(v, x)'
        BY <1>5, <1>7, <2>2, <3>4 DEF Unlogged
      <4> QED
        BY <1>1, <3>1, <3>2, <4>1, <4>2 DEF Logged, Entries, Entry
    <3> QED
      BY <3>3, <3>4
  <2> QED
    BY <2>1, <2>3, <2>4
<1> QED
  BY <1>1, <1>8, <1>9, <1>10 DEF ReportsInv, InSequence

LEMMA EntryWritten ==
    ASSUME ReportsInv, NEW w \in Worker, Reports!Append(w)
    PROVE  ReportsInv'
<1> DEFINE r == brief[w].report
           e == [decision |-> brief[w].decision, by |-> brief[w].by]
<1>0. Reported /\ Dashboard /\ InSequence
  BY DEF ReportsInv
<1>1. /\ desk[w] = "append" /\ Reports!Goto(w, "idle", Nobody)
      /\ UNCHANGED <<report_world, home, reports, dashboard>>
      /\ \/ audit' = [audit EXCEPT ![r] = audit[r] \cup {e}]
         \/ "audit_error" \in report_world /\ audit' = audit
  BY DEF Reports!Append, Reports!Leave
<1>2. /\ r \in Report /\ reports[r] # Nobody /\ brief[w].decision \in Decision
      /\ e \in [decision : Decision, by : Moderator] /\ r = brief[w].report
      /\ e = [decision |-> brief[w].decision, by |-> brief[w].by]
  BY <1>0, <1>1 DEF Reported, Deciding, Briefing
<1> HIDE DEF e, r
<1>3. /\ DOMAIN brief' = Worker /\ brief' = [v \in Worker |-> brief'[v]]
      /\ desk'[w] = "idle" /\ brief'[w] = Nobody
      /\ \A v \in Worker \ {w} : desk'[v] = desk[v] /\ brief'[v] = brief[v]
      /\ desk' \in [Worker -> {"idle", "authorize", "write", "append", "uncache", "fill"}]
  BY <1>0, <1>1, Shifted
<1>4. /\ audit' \in [Report -> SUBSET [decision : Decision, by : Moderator]]
      /\ "audit_error" \notin report_world => audit'[r] = audit[r] \cup {e}
      /\ \A x \in Report \ {r} : audit'[x] = audit[x]
  BY <1>0, <1>1, <1>2 DEF Reported
<1>5. Reported'
  BY <1>0, <1>1, <1>3, <1>4 DEF Reported, Deciding
<1>6. Dashboard'
  BY <1>0, <1>1, <1>3 DEF Dashboard
<1>7. Open' = Open
  BY <1>1 DEF Open
<1>8. ASSUME "overlap" \notin report_world
      PROVE  (OneDesk /\ AsRead /\ CountsOpen /\ \A x \in Report : Logged(x))'
  <2>1. \A v \in Worker : desk'[v] = "idle"
    BY <1>0, <1>1, <1>3, <1>8 DEF InSequence, OneDesk
  <2>2. \A v \in Worker : desk[v] # "idle" => v = w
    BY <1>0, <1>1, <1>8 DEF InSequence, OneDesk
  <2>3. OneDesk' /\ AsRead'
    BY <2>1 DEF OneDesk, AsRead
  <2>4. CountsOpen'
    BY <1>0, <1>1, <1>7, <1>8, <2>2 DEF InSequence, CountsOpen
  <2>5. ASSUME NEW x \in Report  PROVE Logged(x)'
    <3>1. Logged(x) /\ reports'[x] = reports[x]
      BY <1>0, <1>1, <1>8, <2>5 DEF InSequence
    <3>2. \A v \in Worker : ~Unlogged(v, x)'
      BY <2>1 DEF Unlogged
    <3>3. CASE x = r
      <4>1. Unlogged(w, x)
        BY <1>1, <1>2, <3>3 DEF Unlogged
      <4>2. "audit_error" \notin report_world =>
              /\ audit[r] = {} /\ reports[r].status = brief[w].decision
              /\ reports[r].by = brief[w].by
        BY <1>2, <3>1, <3>3, <4>1 DEF Logged
      <4>3. brief[w].decision # "pending"
        BY <1>2 DEF Decision
      <4>4. "audit_error" \notin report_world => audit'[x] = Entries(x)'
        BY <1>2, <1>4, <3>1, <3>3, <4>2, <4>3 DEF Entries, Entry
      <4> QED
        BY <1>1, <1>2, <3>1, <3>2, <3>3, <4>4 DEF Logged
    <3>4. CASE x # r
      <4>1. \A v \in Worker : ~Unlogged(v, x)
        BY <1>1, <1>2, <2>2, <3>4 DEF Unlogged
      <4>2. audit'[x] = audit[x]
        BY <1>4, <2>5, <3>4
      <4> QED
        BY <1>1, <3>1, <3>2, <4>1, <4>2 DEF Logged, Entries, Entry
    <3> QED
      BY <3>3, <3>4
  <2> QED
    BY <2>3, <2>4, <2>5
<1> QED
  BY <1>1, <1>5, <1>6, <1>8 DEF ReportsInv, InSequence

LEMMA Uncached ==
    ASSUME ReportsInv, NEW w \in Worker, Reports!Uncache(w)
    PROVE  ReportsInv'
<1>0. Reported /\ Dashboard /\ InSequence
  BY DEF ReportsInv
<1>1. /\ desk[w] = "uncache" /\ Reports!Goto(w, "append", brief[w]) /\ dashboard' = Nobody
      /\ UNCHANGED <<report_world, home, reports, audit>>
  BY DEF Reports!Uncache
<1>2. /\ DOMAIN brief' = Worker /\ brief' = [v \in Worker |-> brief'[v]]
      /\ desk'[w] = "append" /\ brief'[w] = brief[w]
      /\ \A v \in Worker \ {w} : desk'[v] = desk[v] /\ brief'[v] = brief[v]
      /\ desk' \in [Worker -> {"idle", "authorize", "write", "append", "uncache", "fill"}]
  BY <1>0, <1>1, Shifted
<1>3. \A v \in Worker : brief'[v] = brief[v]
  BY <1>2
<1>4. Reported'
  BY <1>0, <1>1, <1>2 DEF Reported, Deciding
<1>5. Dashboard'
  BY <1>0, <1>1, <1>2 DEF Dashboard
<1>6. ASSUME "overlap" \notin report_world
      PROVE  (OneDesk /\ AsRead /\ CountsOpen /\ \A x \in Report : Logged(x))'
  <2>1. OneDesk'
    BY <1>0, <1>1, <1>2, <1>6 DEF InSequence, OneDesk
  <2>2. Open' = Open
    BY <1>1 DEF Open
  <2>3. AsRead' /\ CountsOpen'
    BY <1>0, <1>1, <1>2, <1>6, <2>2 DEF InSequence, AsRead, CountsOpen
  <2>4. ASSUME NEW x \in Report  PROVE Logged(x)'
    <3>1. \A v \in Worker : desk'[v] \in {"uncache", "append"} <=>
                            desk[v] \in {"uncache", "append"}
      BY <1>1, <1>2
    <3>2. Logged(x)
      BY <1>0, <1>6, <2>4 DEF InSequence
    <3> QED
      BY <1>1, <1>3, <3>1, <3>2 DEF Logged, Entries, Entry, Unlogged
  <2> QED
    BY <2>1, <2>3, <2>4
<1> QED
  BY <1>1, <1>4, <1>5, <1>6 DEF ReportsInv, InSequence

LEMMA DashboardFilled ==
    ASSUME ReportsInv, NEW w \in Worker, Reports!FillDashboard(w)
    PROVE  ReportsInv'
<1>0. Reported /\ Dashboard /\ InSequence
  BY DEF ReportsInv
<1>1. /\ desk[w] = "fill" /\ Reports!Goto(w, "idle", Nobody)
      /\ dashboard' = [pending |-> brief[w].pending, left |-> Ttl]
      /\ UNCHANGED <<report_world, home, reports, audit>>
  BY DEF Reports!FillDashboard, Reports!Leave
<1>2. /\ DOMAIN brief' = Worker /\ brief' = [v \in Worker |-> brief'[v]]
      /\ desk'[w] = "idle" /\ brief'[w] = Nobody
      /\ \A v \in Worker \ {w} : desk'[v] = desk[v] /\ brief'[v] = brief[v]
      /\ desk' \in [Worker -> {"idle", "authorize", "write", "append", "uncache", "fill"}]
  BY <1>0, <1>1, Shifted
<1>3. Reported'
  BY <1>0, <1>1, <1>2 DEF Reported, Deciding
<1>4. Dashboard'
  BY <1>0, <1>1, <1>2 DEF Dashboard
<1>5. ASSUME "overlap" \notin report_world
      PROVE  (OneDesk /\ AsRead /\ CountsOpen /\ \A x \in Report : Logged(x))'
  <2>1. \A v \in Worker : desk'[v] = "idle"
    BY <1>0, <1>1, <1>2, <1>5 DEF InSequence, OneDesk
  <2>2. Open' = Open
    BY <1>1 DEF Open
  <2>3. OneDesk' /\ AsRead'
    BY <2>1 DEF OneDesk, AsRead
  <2>4. CountsOpen'
    BY <1>0, <1>1, <1>5, <2>2 DEF InSequence, AsRead, CountsOpen
  <2>5. ASSUME NEW x \in Report  PROVE Logged(x)'
    <3>1. Logged(x) /\ \A v \in Worker : ~Unlogged(v, x)
      BY <1>0, <1>1, <1>5, <2>5 DEF InSequence, OneDesk, Unlogged
    <3>2. \A v \in Worker : ~Unlogged(v, x)'
      BY <2>1 DEF Unlogged
    <3> QED
      BY <1>1, <3>1, <3>2 DEF Logged, Entries, Entry
  <2> QED
    BY <2>3, <2>4, <2>5
<1> QED
  BY <1>1, <1>3, <1>4, <1>5 DEF ReportsInv, InSequence

LEMMA DashboardAges ==
    ASSUME ReportsInv, Reports!DropDashboard \/ Reports!Tick
    PROVE  ReportsInv'
<1>0. Reported /\ Dashboard /\ InSequence
  BY DEF ReportsInv
<1>1. /\ dashboard # Nobody
      /\ dashboard' = Nobody \/ dashboard' = [dashboard EXCEPT !.left = dashboard.left - 1]
      /\ UNCHANGED <<report_world, home, reports, audit, desk, brief>>
  BY DEF Reports!DropDashboard, Reports!Tick
<1>2. PICK p \in 0 .. Cardinality(Report) : \E l : dashboard = [pending |-> p, left |-> l]
  BY <1>0, <1>1 DEF Dashboard
<1>3. PICK l : dashboard = [pending |-> p, left |-> l]
  BY <1>2
<1>4. dashboard' = Nobody \/ dashboard' = [pending |-> p, left |-> l - 1]
  BY <1>1, <1>3
<1>5. Reported'
  BY <1>0, <1>1 DEF Reported, Deciding
<1>6. Dashboard'
  BY <1>0, <1>1, <1>4 DEF Dashboard
<1>7. Open' = Open /\ (dashboard' # Nobody => dashboard'.pending = dashboard.pending)
  BY <1>1, <1>3, <1>4 DEF Open
<1>8. ASSUME "overlap" \notin report_world
      PROVE  (OneDesk /\ AsRead /\ CountsOpen /\ \A x \in Report : Logged(x))'
  <2>1. OneDesk /\ AsRead /\ CountsOpen /\ \A x \in Report : Logged(x)
    BY <1>0, <1>8 DEF InSequence
  <2>2. OneDesk' /\ AsRead' /\ CountsOpen'
    BY <2>1, <1>1, <1>7 DEF OneDesk, AsRead, CountsOpen
  <2>3. \A x \in Report : Logged(x)'
    BY <2>1, <1>1 DEF Logged, Unlogged, Entries, Entry
  <2> QED
    BY <2>2, <2>3
<1> QED
  BY <1>1, <1>5, <1>6, <1>8 DEF ReportsInv, InSequence

LEMMA ReportsNext ==
    ASSUME ReportsInv, Reports!Next
    PROVE  ReportsInv'
<1>1. ASSUME NEW r \in Report, NEW p \in Post \cup {Nobody}, NEW t \in Thread \cup {Nobody},
             Reports!create_report(r, p, t)
      PROVE  ReportsInv'
  BY <1>1, NewReport
<1>2. ASSUME NEW w \in Worker, NEW by \in Moderator, NEW r \in Report,
             NEW d \in Reports!Status \ {"pending"}, Reports!FindReport(w, by, r, d)
      PROVE  ReportsInv'
  BY <1>2, FoundReport DEF Decision
<1>3. ASSUME NEW w \in Worker,
             \/ Reports!Authorize(w) \/ Reports!update_status(w) \/ Reports!Uncache(w)
             \/ Reports!Append(w) \/ Reports!ReadDashboard(w) \/ Reports!FillDashboard(w)
      PROVE  ReportsInv'
  BY <1>3, Authorized, StatusWritten, Uncached, EntryWritten, DashboardRead, DashboardFilled
<1>4. ASSUME NEW t \in Thread, NEW c \in Category, Reports!MoveThread(t, c)
      PROVE  ReportsInv'
  <2>1. /\ home' \in [Thread -> Category]
        /\ UNCHANGED <<report_world, reports, audit, dashboard, desk, brief>>
    BY <1>4 DEF Reports!MoveThread, ReportsInv, Reported
  <2>2. Reported' /\ Dashboard'
    BY <2>1 DEF ReportsInv, Reported, Deciding, Dashboard
  <2>3. OneDesk' <=> OneDesk
    BY <2>1 DEF OneDesk
  <2>4. (AsRead' <=> AsRead) /\ (CountsOpen' <=> CountsOpen)
    BY <2>1 DEF AsRead, CountsOpen, Open
  <2>5. \A x \in Report : Logged(x)' <=> Logged(x)
    BY <2>1 DEF Logged, Unlogged, Entries, Entry
  <2> QED
    BY <2>1, <2>2, <2>3, <2>4, <2>5 DEF ReportsInv, InSequence
<1> QED
  BY <1>1, <1>2, <1>3, <1>4, DashboardAges DEF Reports!Next

LEMMA ReportsStutter ==
    ASSUME ReportsInv, UNCHANGED reportVars
    PROVE  ReportsInv'
  BY DEF reportVars, ReportsInv, Reported, Deciding, Dashboard, InSequence, OneDesk, AsRead,
     CountsOpen, Logged, Unlogged, Entries, Entry, Open

ReportsSide == side = "reports" => ReportsInv

LEMMA ReportsSideHolds == CommunitySpec => []ReportsSide
<1>1. CommunityInit => ReportsSide
  BY ReportsInitially DEF CommunityInit, ReportsSide
<1>2. ReportsSide /\ [CommunityNext]_communityVars => ReportsSide'
  BY ReportsNext, ReportsStutter DEF CommunityNext, communityVars, reportVars, ReportsSide
<1> QED
  BY <1>1, <1>2, PTL DEF CommunitySpec

LEMMA ReportsAgree ==
    ASSUME ReportsInv
    PROVE  Reports!TypeOK /\ Reports!DecisionsAgree
<1>0. Reported /\ Dashboard /\ InSequence
  BY DEF ReportsInv
<1>1. /\ Reports!dashboard_counts = Cardinality(Open)
      /\ Reports!Cardinality(Report) = Cardinality(Report)
  BY <1>0, Counted
<1>2. Reports!TypeOK
  BY <1>0, <1>1 DEF Reports!TypeOK, Reported, Dashboard, Decision
<1>3. ASSUME Reports!Calm, "overlap" \notin report_world
      PROVE  /\ "audit_error" \notin report_world =>
                  \A r \in Reports!Filed :
                    audit[r] = IF reports[r].status = "pending" THEN {}
                      ELSE {[decision |-> reports[r].status, by |-> reports[r].by]}
             /\ dashboard # Nobody => dashboard.pending <= Reports!dashboard_counts
  <2>1. \A w \in Worker : desk[w] = "idle"
    BY <1>3 DEF Reports!Calm
  <2>2. \A r \in Report, w \in Worker : ~Unlogged(w, r)
    BY <2>1 DEF Unlogged
  <2>3. "audit_error" \notin report_world =>
          \A r \in Reports!Filed : audit[r] = Entries(r)
    BY <1>0, <1>3, <2>2 DEF InSequence, Logged, Reports!Filed
  <2> QED
    BY <1>0, <1>1, <1>3, <2>1, <2>3 DEF InSequence, CountsOpen, Entries, Entry
<1> QED
  BY <1>2, <1>3 DEF Reports!DecisionsAgree

(* Deciding a report is whole: with the requests one after the other, and  *)
(* however the threads are moved meanwhile, a report that is decided has   *)
(* exactly its entry in the audit log once the request has ended, and a    *)
(* cached dashboard counts no report that is decided.                      *)
THEOREM DecisionsAlwaysAgree == CommunitySpec => []DecisionsAgree
<1>1. ReportsSide => DecisionsAgree
  BY ReportsAgree DEF ReportsSide, DecisionsAgree
<1> QED
  BY <1>1, ReportsSideHolds, PTL

LEMMA ResolvedInQueue ==
    ASSUME Reported, NEW w \in Worker, desk[w] = "authorize",
           Reports!can_resolve_report(brief[w].by, brief[w].row)
    PROVE  brief[w].report \in
             Reports!list_all(Reports!Status, "any",
                              Reports!permitted_category_ids(brief[w].by))
<1> DEFINE r == brief[w].report
           row == brief[w].row
           by == brief[w].by
           cats == Reports!permitted_category_ids(by)
<1>1. /\ r \in Report /\ by \in Moderator /\ row \in Reports!Rows
      /\ reports[r] # Nobody /\ reports[r] \in Reports!Rows /\ About(reports[r])
      /\ row.thread = reports[r].thread /\ row.post = reports[r].post
  BY DEF Reported, Deciding, Briefing
<1>2. \A c \in Category : Reports!has_perm_in(by, c) => c \in cats
  BY <1>1 DEF Reports!has_perm_in, Reports!permitted_category_ids
<1>3. Reports!has_perm_in(by, Reports!report_category_id(row))
  BY DEF Reports!can_resolve_report
<1>4. CASE row.thread # Nobody
  <2>1. Reports!report_category_id(row) = home[row.thread] /\ row.thread \in Thread
    BY <1>1, <1>4 DEF Reports!report_category_id, Reports!Rows
  <2>2. home[reports[r].thread] \in cats
    BY <1>1, <1>2, <1>3, <2>1 DEF Reported
  <2> QED
    BY <1>1, <1>4, <2>2
    DEF Reports!list_all, Reports!scope_to_categories, Reports!Filed, Reports!Rows
<1>5. CASE row.thread = Nobody
  <2>1. /\ Reports!report_category_id(row) = home[PostThread[row.post]]
        /\ row.post \in Post /\ PostThread[row.post] \in Thread
    BY <1>1, <1>5, ReportFacts DEF Reports!report_category_id, Reports!Rows, About
  <2>2. home[PostThread[reports[r].post]] \in cats
    BY <1>1, <1>2, <1>3, <2>1 DEF Reported
  <2> QED
    BY <1>1, <1>5, <2>2
    DEF Reports!list_all, Reports!scope_to_categories, Reports!Filed, Reports!Rows, About
<1> QED
  BY <1>4, <1>5

(* Only who may writes a decision: w goes from authorize to write in no    *)
(* other way than by Authorize, after the look at the category.            *)
LEMMA WrittenByRight ==
    ASSUME Reported, Reports!Next, NEW w \in Worker, desk[w] = "authorize", desk'[w] = "write"
    PROVE  /\ Reports!can_resolve_report(brief[w].by, brief[w].row)
           /\ brief[w].row.status = "pending"
<1>1. \A v \in Worker : \A label, fields :
        Reports!Goto(v, label, fields) =>
          /\ desk'[v] = label
          /\ w # v => desk'[w] = desk[w]
  BY DEF Reported, Reports!Goto
<1>2. ASSUME NEW v \in Worker, NEW label, NEW fields, Reports!Goto(v, label, fields)
      PROVE  v = w /\ label = "write"
  BY <1>1, <1>2
<1>3. desk' # desk
  OBVIOUS
<1>4. PICK v \in Worker : Reports!Authorize(v)
  <2>1. \A r \in Report, p \in Post \cup {Nobody}, t \in Thread \cup {Nobody} :
          ~Reports!create_report(r, p, t)
    BY <1>3 DEF Reports!create_report
  <2>2. \A v \in Worker, by \in Moderator, r \in Report, d \in Reports!Status \ {"pending"} :
          ~Reports!FindReport(v, by, r, d)
    BY <1>2 DEF Reports!FindReport
  <2>3. \A v \in Worker : ~Reports!update_status(v) /\ ~Reports!Uncache(v)
    BY <1>2 DEF Reports!update_status, Reports!Uncache
  <2>4. \A v \in Worker : /\ ~Reports!Append(v) /\ ~Reports!ReadDashboard(v)
                          /\ ~Reports!FillDashboard(v)
    BY <1>2 DEF Reports!Append, Reports!ReadDashboard, Reports!FillDashboard, Reports!Leave
  <2>5. ~Reports!DropDashboard /\ ~Reports!Tick
    BY <1>3 DEF Reports!DropDashboard, Reports!Tick
  <2>6. \A t \in Thread, c \in Category : ~Reports!MoveThread(t, c)
    BY <1>3 DEF Reports!MoveThread
  <2> QED
    BY <2>1, <2>2, <2>3, <2>4, <2>5, <2>6 DEF Reports!Next
<1>5. CASE /\ Reports!can_resolve_report(brief[v].by, brief[v].row)
           /\ brief[v].row.status = "pending"
  <2>1. v = w
    BY <1>2, <1>4, <1>5 DEF Reports!Authorize
  <2> QED
    BY <1>5, <2>1
<1>6. CASE ~(/\ Reports!can_resolve_report(brief[v].by, brief[v].row)
             /\ brief[v].row.status = "pending")
  BY <1>2, <1>4, <1>6 DEF Reports!Authorize, Reports!Leave
<1> QED
  BY <1>5, <1>6

(* A moderator decides only reports that are in its own queue when its     *)
(* permission is checked, and that were pending when it read them, however *)
(* many moderators decide at once and threads are moved.                   *)
THEOREM AlwaysDecidesOwnQueue == CommunitySpec => DecidesOwnQueue
<1>1. ReportsSide /\ [CommunityNext]_communityVars =>
        [side = "reports" => Reports!DecidingStep]_reportVars
  <2> SUFFICES ASSUME ReportsInv, Reports!Next PROVE Reports!DecidingStep
    BY DEF ReportsSide, CommunityNext, communityVars, reportVars
  <2> SUFFICES ASSUME NEW w \in Worker, desk[w] = "authorize", desk'[w] = "write"
               PROVE  /\ brief[w].report \in
                           Reports!list_all(Reports!Status, "any",
                                            Reports!permitted_category_ids(brief[w].by))
                      /\ brief[w].row.status = "pending"
    BY DEF Reports!DecidingStep
  <2> QED
    BY WrittenByRight, ResolvedInQueue DEF ReportsInv
<1> QED
  BY <1>1, ReportsSideHolds, PTL DEF CommunitySpec, DecidesOwnQueue

-----------------------------------------------------------------------------
(* The page of a thread.                                                   *)

LEMMA PageFacts ==
    /\ Guest \notin User /\ PerPage \in Nat \ {0} /\ MaxPosts \in Nat
    /\ Limits \subseteq Nat \ {0}
  BY CommunityConstants DEF Pages!PageConstants

LEMMA PagesInitially == Pages!Init => Pages!TypeOK
<1> SUFFICES ASSUME Pages!Init PROVE Pages!TypeOK
  OBVIOUS
<1>1. posts = <<>> /\ posts \in Seq(Pages!Posts) /\ Len(posts) = 0
  BY DEF Pages!Init
<1>2. Len(posts) <= MaxPosts
  BY <1>1, PageFacts
<1> QED
  BY <1>1, <1>2 DEF Pages!Init, Pages!TypeOK

LEMMA PagesNext ==
    ASSUME Pages!TypeOK, Pages!Next
    PROVE  Pages!TypeOK'
<1> USE DEF Pages!TypeOK
<1>1. ASSUME NEW u \in User, NEW caught \in BOOLEAN, Pages!CreatePost(u, caught)
      PROVE  Pages!TypeOK'
  <2> DEFINE post == [author |-> u, status |-> Pages!ResolvePostStatus(u, caught),
                      is_deleted |-> FALSE, old |-> FALSE]
  <2>1. post \in Pages!Posts
    BY DEF Pages!Posts, Pages!ResolvePostStatus
  <2>2. /\ posts' = Append(posts, post) /\ Len(posts) < MaxPosts
        /\ UNCHANGED <<post_policy, starter, locked, max_posts>>
    BY <1>1 DEF Pages!CreatePost
  <2> HIDE DEF post
  <2>3. posts' \in Seq(Pages!Posts) /\ Len(posts') = Len(posts) + 1
    BY <2>1, <2>2
  <2> QED
    BY <2>2, <2>3, PageFacts
<1>2. ASSUME NEW i \in DOMAIN posts, NEW field, NEW value, Pages!Write(i, field, value),
             \/ field = "status" /\ value = "published"
             \/ field \in {"is_deleted", "old"} /\ value = TRUE
      PROVE  Pages!TypeOK'
  <2>1. /\ posts' = [posts EXCEPT ![i] = [posts[i] EXCEPT ![field] = value]]
        /\ UNCHANGED <<post_policy, starter, locked, max_posts>>
    BY <1>2 DEF Pages!Write
  <2>2. [posts[i] EXCEPT ![field] = value] \in Pages!Posts
    <3>1. posts[i] \in Pages!Posts
      OBVIOUS
    <3>2. CASE field = "status" /\ value = "published"
      BY <3>1, <3>2 DEF Pages!Posts
    <3>3. CASE field = "is_deleted" /\ value = TRUE
      BY <3>1, <3>3 DEF Pages!Posts
    <3>4. CASE field = "old" /\ value = TRUE
      BY <3>1, <3>4 DEF Pages!Posts
    <3> QED
      BY <1>2, <3>2, <3>3, <3>4
  <2>3. posts' \in Seq(Pages!Posts) /\ Len(posts') = Len(posts)
    BY <2>1, <2>2
  <2> QED
    BY <2>1, <2>3
<1>3. ASSUME NEW u \in User, NEW i \in DOMAIN posts,
             Pages!ApprovePost(u, i) \/ Pages!RejectPost(u, i) \/ Pages!DeletePost(u, i)
      PROVE  Pages!TypeOK'
  BY <1>2, <1>3 DEF Pages!ApprovePost, Pages!RejectPost, Pages!DeletePost
<1>4. ASSUME NEW u \in User, NEW lock \in BOOLEAN, Pages!Lock(u, lock)
      PROVE  Pages!TypeOK'
  BY <1>4 DEF Pages!Lock
<1>5. ASSUME NEW i \in DOMAIN posts, Pages!Age(i)
      PROVE  Pages!TypeOK'
  BY <1>2, <1>5 DEF Pages!Age
<1>6. ASSUME NEW n \in Limits, Pages!SetMaxPosts(n)
      PROVE  Pages!TypeOK'
  BY <1>6 DEF Pages!SetMaxPosts
<1> QED
  BY <1>1, <1>3, <1>4, <1>5, <1>6 DEF Pages!Next

(* A post's position, divided by the size of a page, is on that page.      *)
LEMMA OnItsPage ==
    ASSUME NEW n \in Nat, NEW size \in Nat \ {0}
    PROVE  /\ n \div size \in Nat
           /\ (((n \div size) + 1) - 1) * size <= n
           /\ n < (((n \div size) + 1) - 1) * size + size
<1>1. n \div size \in Nat
  OBVIOUS
<1>2. size * (n \div size) <= n /\ n < size * (n \div size) + size
  OBVIOUS
<1>3. size * (n \div size) = (((n \div size) + 1) - 1) * size
  BY <1>1
<1> QED
  BY <1>1, <1>2, <1>3

(* Pages do not overlap.                                                   *)
LEMMA PagesApart ==
    ASSUME NEW p \in Nat \ {0}, NEW q \in Nat \ {0}, p < q, NEW size \in Nat \ {0}
    PROVE  (p - 1) * size + size <= (q - 1) * size
<1> DEFINE d == q - 1 - p
<1>1. d \in Nat /\ q - 1 = (p - 1) + 1 + d
  OBVIOUS
<1>2. d * size >= 0 /\ d * size \in Int /\ (p - 1) * size \in Int
  BY <1>1
<1>3. (q - 1) * size = (p - 1) * size + size + d * size
  BY <1>1
<1> QED
  BY <1>2, <1>3

LEMMA PagesHold ==
    ASSUME Pages!TypeOK
    PROVE  Pages!LinksLand /\ Pages!FlagsMirror
<1>1. \A i \in DOMAIN posts : posts[i] \in Pages!Posts
  BY DEF Pages!TypeOK
<1>2. Pages!SizeOf(PerPage) \in Nat \ {0}
  BY PageFacts DEF Pages!TypeOK, Pages!SizeOf
<1>3. ASSUME NEW r, NEW i \in DOMAIN posts
      PROVE  Pages!Cardinality(Pages!Before(r, i)) \in Nat
  <2>1. Pages!Cardinality(Pages!Before(r, i)) = Cardinality(Pages!Before(r, i))
    BY DEF Pages!Cardinality, Cardinality
  <2>2. Pages!Before(r, i) \subseteq 1 .. Len(posts) /\ Len(posts) \in Nat
    BY DEF Pages!TypeOK, Pages!Before, Pages!Listed
  <2>3. IsFiniteSet(Pages!Before(r, i))
    <3>1. IsFiniteSet(1 .. Len(posts))
      BY <2>2, FS_Interval
    <3> QED
      BY <2>2, <3>1, FS_Subset
  <2> QED
    BY <2>1, <2>3, FS_CardinalityType
<1>4. Pages!LinksLand
  <2> SUFFICES ASSUME NEW r \in Pages!Readers, NEW i \in DOMAIN posts
               PROVE  /\ i \in Pages!Listed(r) /\ Pages!CanLocate(r, i) =>
                           i \in Pages!ListByThread(r, Pages!LocatePost(r, i), PerPage)
                      /\ \A p, q \in 1..MaxPosts :
                           p # q => i \notin Pages!ListByThread(r, p, PerPage)
                                             \cap Pages!ListByThread(r, q, PerPage)
                      /\ ~posts[i].is_deleted /\ posts[i].status = "pending" =>
                           \A u \in User : "moderation.view_reports" \in Rights[u] =>
                             i \in Pages!ListPending(u)
    BY DEF Pages!LinksLand
  <2> DEFINE n == Pages!Cardinality(Pages!Before(r, i))
             size == Pages!SizeOf(PerPage)
  <2>1. n \in Nat /\ size \in Nat \ {0}
    BY <1>2, <1>3
  <2>2. \A page : i \in Pages!ListByThread(r, page, PerPage) <=>
                    /\ i \in Pages!Listed(r)
                    /\ n >= (page - 1) * size
                    /\ n < (page - 1) * size + size
    BY DEF Pages!ListByThread
  <2>3. Pages!LocatePost(r, i) = (n \div size) + 1
    BY DEF Pages!LocatePost, Pages!PositionInThread
  <2> HIDE DEF n, size
  <2>4. i \in Pages!Listed(r) => i \in Pages!ListByThread(r, Pages!LocatePost(r, i), PerPage)
    BY <2>1, <2>2, <2>3, OnItsPage
  <2>5. ASSUME NEW p \in 1..MaxPosts, NEW q \in 1..MaxPosts, p < q
        PROVE  ~(/\ i \in Pages!ListByThread(r, p, PerPage)
                 /\ i \in Pages!ListByThread(r, q, PerPage))
    <3>1. p \in Nat \ {0} /\ q \in Nat \ {0}
      BY PageFacts
    <3>2. (p - 1) * size + size <= (q - 1) * size
      BY <2>1, <2>5, <3>1, PagesApart
    <3>3. (p - 1) * size \in Int /\ (q - 1) * size \in Int
      BY <2>1, <3>1
    <3>4. ~(n < (p - 1) * size + size /\ n >= (q - 1) * size)
      BY <2>1, <3>2, <3>3
    <3> QED
      BY <2>2, <3>4
  <2>6. \A p, q \in 1..MaxPosts : p # q => p < q \/ q < p
    BY PageFacts
  <2>7. ~posts[i].is_deleted /\ posts[i].status = "pending" =>
          \A u \in User : "moderation.view_reports" \in Rights[u] => i \in Pages!ListPending(u)
    BY DEF Pages!ListPending
  <2> QED
    BY <2>4, <2>5, <2>6, <2>7
<1>5. Pages!FlagsMirror
  <2> SUFFICES ASSUME NEW r \in Pages!Readers
               PROVE  /\ Pages!thread_can_edit(r) = (r \in User /\ Pages!CanUpdateTitle(r, FALSE))
                      /\ Pages!thread_can_delete(r) = (r \in User /\ Pages!RequireAuthorOrMod(r))
                      /\ Pages!thread_can_mark_best_answer(r)
                           = (r \in User /\ Pages!CanMarkSolved(r))
                      /\ \A i \in DOMAIN posts :
                          /\ Pages!post_can_delete(r, i)
                               = (r \in User /\ Pages!CanDeletePost(r, i))
                          /\ r \in User /\ Pages!CanEditPost(r, i) => Pages!post_can_edit(r, i)
                          /\ Pages!post_can_edit(r, i) /\ ~posts[i].old =>
                               r \in User /\ Pages!CanEditPost(r, i)
    BY DEF Pages!FlagsMirror
  <2>1. starter \in User /\ locked \in BOOLEAN
    BY DEF Pages!TypeOK
  <2>2. Pages!thread_can_edit(r) = (r \in User /\ Pages!CanUpdateTitle(r, FALSE))
    BY <2>1 DEF Pages!thread_can_edit, Pages!CanUpdateTitle, Pages!Holds
  <2>3. /\ Pages!thread_can_delete(r) = (r \in User /\ Pages!RequireAuthorOrMod(r))
        /\ Pages!thread_can_mark_best_answer(r) = (r \in User /\ Pages!CanMarkSolved(r))
    BY <2>1 DEF Pages!thread_can_delete, Pages!RequireAuthorOrMod, Pages!Holds,
       Pages!thread_can_mark_best_answer, Pages!CanMarkSolved
  <2>4. ASSUME NEW i \in DOMAIN posts
        PROVE  /\ Pages!post_can_delete(r, i) = (r \in User /\ Pages!CanDeletePost(r, i))
               /\ r \in User /\ Pages!CanEditPost(r, i) => Pages!post_can_edit(r, i)
               /\ Pages!post_can_edit(r, i) /\ ~posts[i].old =>
                    r \in User /\ Pages!CanEditPost(r, i)
    <3>1. posts[i].author \in User
      BY <1>1 DEF Pages!Posts
    <3> QED
      BY <3>1 DEF Pages!post_can_delete, Pages!CanDeletePost, Pages!CanEditPost,
         Pages!post_can_edit, Pages!Holds
  <2> QED
    BY <2>2, <2>3, <2>4
<1> QED
  BY <1>4, <1>5

(* A link to a post lands on the page that shows it, every post is on one  *)
(* page at most, every held-back post is in the queue of whoever may       *)
(* approve it, and the page offers a button exactly to those whose request *)
(* the server grants: for any page size, number of posts and rights.       *)
THEOREM PagesAlwaysAgree == CommunitySpec => []PagesAgree
<1> DEFINE PagesSide == side = "pages" => Pages!TypeOK
<1>1. CommunityInit => PagesSide
  BY PagesInitially DEF CommunityInit
<1>2. PagesSide /\ [CommunityNext]_communityVars => PagesSide'
  <2>1. Pages!TypeOK /\ UNCHANGED pageVars => Pages!TypeOK'
    BY DEF pageVars, Pages!TypeOK
  <2> QED
    BY <2>1, PagesNext DEF CommunityNext, communityVars
<1>3. PagesSide => PagesAgree
  BY PagesHold DEF PagesAgree
<1> QED
  BY <1>1, <1>2, <1>3, PTL DEF CommunitySpec

-----------------------------------------------------------------------------
(* The levels of trust.                                                    *)

AccountLabels == {"promote", "set_level"}
Duties == AccountLabels \cup
    {"idle", "add_find", "add_insert", "add_reward", "remove_find", "remove_delete",
     "remove_undo", "solve_write", "solve_reward", "warn_penalty"}

Standing(row) ==
    \E l, p, d, s_ : row = [level |-> l, posts |-> p, days |-> d, score |-> s_]

(* As no two requests in flight work on the same thing, a login is alone   *)
(* with the account, and the level it has read is the account's.           *)
AloneAtIt ==
    "overlap" \notin trust_world =>
      /\ \A v, w \in Worker :
           duty[v] # "idle" /\ duty[w] # "idle" /\ order[v].target = order[w].target => v = w
      /\ \A w \in Worker :
           /\ duty[w] \in AccountLabels => order[w].target = <<"account">>
           /\ duty[w] = "promote" => order[w].row.level = account.level

Trusting ==
    /\ Standing(account)
    /\ duty \in [Worker -> Duties]
    /\ DOMAIN order = Worker /\ order = [w \in Worker |-> order[w]]
    /\ AloneAtIt

LEMMA TrustInitially ==
    ASSUME Trust!Init
    PROVE  Trusting
<1>1. account \in Trust!Accounts
  BY CommunityConstants DEF Trust!Init, Trust!TrustConstants
<1>2. Standing(account)
  BY <1>1 DEF Trust!Accounts, Standing
<1> QED
  BY <1>2 DEF Trust!Init, Trusting, Duties, AccountLabels, AloneAtIt

(* A request on the account finds its level; any other leaves it alone.    *)
LEMMA Started ==
    ASSUME Trusting, NEW w \in Worker, NEW label \in Duties, NEW fields,
           Trust!Start(w, label, fields), label # "idle",
           label \in AccountLabels => fields.target = <<"account">>,
           label = "promote" => fields.row.level = account.level,
           UNCHANGED <<trust_world, account>>
    PROVE  Trusting'
<1>1. /\ duty[w] = "idle"
      /\ duty' = [duty EXCEPT ![w] = label] /\ order' = [order EXCEPT ![w] = fields]
      /\ "overlap" \in trust_world
           \/ \A v \in Worker : duty[v] = "idle" \/ order[v].target # fields.target
  BY DEF Trust!Start, Trust!Goto
<1>2. /\ duty' \in [Worker -> Duties] /\ duty'[w] = label
      /\ order'[w] = fields /\ DOMAIN order' = Worker /\ order' = [v \in Worker |-> order'[v]]
      /\ \A v \in Worker \ {w} : duty'[v] = duty[v] /\ order'[v] = order[v]
  BY <1>1 DEF Trusting
<1>3. AloneAtIt'
  BY <1>1, <1>2 DEF Trusting, AloneAtIt
<1> QED
  BY <1>2, <1>3 DEF Trusting

LEMMA WentOn ==
    ASSUME Trusting, NEW w \in Worker, duty[w] # "idle", NEW label \in Duties \ AccountLabels,
           Trust!Goto(w, label), UNCHANGED <<trust_world, account>>,
           \/ UNCHANGED order
           \/ \E o : order' = [order EXCEPT ![w] = o] /\ o.target = order[w].target
    PROVE  Trusting'
<1>1. /\ duty' \in [Worker -> Duties] /\ duty'[w] = label
      /\ \A v \in Worker \ {w} : duty'[v] = duty[v]
  BY DEF Trusting, Trust!Goto
<1>2. /\ DOMAIN order' = Worker /\ order' = [v \in Worker |-> order'[v]]
      /\ order'[w].target = order[w].target
      /\ \A v \in Worker \ {w} : order'[v] = order[v]
  BY DEF Trusting
<1>3. \A v \in Worker : /\ order'[v].target = order[v].target
                        /\ duty'[v] # "idle" => duty[v] # "idle"
                        /\ duty'[v] \in AccountLabels =>
                             duty'[v] = duty[v] /\ order'[v] = order[v]
  BY <1>1, <1>2
<1>4. AloneAtIt'
  BY <1>3 DEF Trusting, AloneAtIt, AccountLabels
<1> QED
  BY <1>1, <1>2, <1>4 DEF Trusting

(* Only a request that holds the account changes the level.                *)
LEMMA TrustLeft ==
    ASSUME Trusting, NEW w \in Worker, Trust!Leave(w), UNCHANGED trust_world,
           \/ UNCHANGED account
           \/ /\ duty[w] \in AccountLabels
              /\ \E l : account' = [account EXCEPT !.level = l]
    PROVE  Trusting'
<1>1. /\ duty' \in [Worker -> Duties] /\ duty'[w] = "idle"
      /\ \A v \in Worker \ {w} : duty'[v] = duty[v] /\ order'[v] = order[v]
      /\ DOMAIN order' = Worker /\ order' = [v \in Worker |-> order'[v]]
  BY DEF Trusting, Trust!Leave, Trust!Goto, Duties
<1>2. Standing(account)'
  BY DEF Trusting, Standing
<1>3. AloneAtIt'
  <2>1. CASE UNCHANGED account
    <3>1. \A v \in Worker : duty'[v] # "idle" => duty'[v] = duty[v] /\ order'[v] = order[v]
      BY <1>1
    <3> QED
      BY <2>1, <3>1 DEF Trusting, AloneAtIt, AccountLabels
  <2>2. CASE duty[w] \in AccountLabels
    <3>1. "overlap" \notin trust_world =>
            \A v \in Worker : v # w => duty'[v] \notin AccountLabels
      BY <1>1, <2>2 DEF Trusting, AloneAtIt, AccountLabels
    <3> QED
      BY <1>1, <3>1 DEF Trusting, AloneAtIt, AccountLabels
  <2> QED
    BY <2>1, <2>2
<1> QED
  BY <1>1, <1>2, <1>3 DEF Trusting

(* The posts, the days and the score change behind every request.          *)
LEMMA Recounted ==
    ASSUME Trusting, UNCHANGED <<trust_world, duty, order>>,
           \/ UNCHANGED account
           \/ \E v : account' = [account EXCEPT !.posts = v]
           \/ \E v : account' = [account EXCEPT !.days = v]
           \/ \E v : account' = [account EXCEPT !.score = v]
    PROVE  Trusting'
<1>1. Standing(account)' /\ account'.level = account.level
  BY DEF Trusting, Standing
<1> QED
  BY <1>1 DEF Trusting, AloneAtIt

LEMMA Promoted ==
    ASSUME Trusting, NEW w \in Worker, Trust!Promote(w)
    PROVE  /\ Trusting'
           /\ "overlap" \notin trust_world =>
                account'.level \in {account.level, account.level + 1}
<1> DEFINE row == order[w].row
           deserved == Trust!evaluate_trust_promotion(row)
<1>1. /\ duty[w] = "promote" /\ Trust!Leave(w) /\ UNCHANGED trust_world
      /\ account' = IF deserved # row.level THEN [account EXCEPT !.level = deserved] ELSE account
  BY DEF Trust!Promote
<1>2. deserved \in {row.level, row.level + 1}
  BY DEF Trust!evaluate_trust_promotion
<1> HIDE DEF deserved, row
<1>3. Trusting'
  BY <1>1, TrustLeft DEF AccountLabels
<1>4. "overlap" \notin trust_world => row.level = account.level
  BY <1>1 DEF Trusting, AloneAtIt, row
<1>5. account'.level \in {account.level, deserved}
  BY <1>1 DEF Trusting, Standing
<1> QED
  BY <1>1, <1>2, <1>3, <1>4, <1>5

LEMMA TrustSteps ==
    ASSUME Trusting, NEW w \in Worker, Trust!TrustStep(w)
    PROVE  Trusting'
<1>1. CASE Trust!FindForAdd(w)
  <2>1. /\ duty[w] = "add_find" /\ UNCHANGED <<trust_world, account>>
        /\ Trust!Leave(w) \/ (Trust!Goto(w, "add_insert") /\ UNCHANGED order)
    BY <1>1 DEF Trust!FindForAdd
  <2> QED
    BY <2>1, TrustLeft, WentOn DEF Duties, AccountLabels
<1>2. CASE Trust!InsertReaction(w)
  <2>1. /\ duty[w] = "add_insert" /\ UNCHANGED <<trust_world, account>>
        /\ Trust!Leave(w) \/ (Trust!Goto(w, "add_reward") /\ UNCHANGED order)
    BY <1>2 DEF Trust!InsertReaction
  <2> QED
    BY <2>1, TrustLeft, WentOn DEF Duties, AccountLabels
<1>3. CASE Trust!RewardReaction(w) \/ Trust!UndoReaction(w) \/ Trust!RewardSolve(w)
             \/ Trust!Penalty(w)
  <2>1. Trust!Leave(w) /\ UNCHANGED <<trust_world, account>>
    BY <1>3 DEF Trust!RewardReaction, Trust!UndoReaction, Trust!RewardSolve, Trust!Penalty
  <2> QED
    BY <2>1, TrustLeft
<1>4. CASE Trust!FindForRemove(w)
  <2> DEFINE o == [target |-> order[w].target, row |-> order[w].row,
                   existed |-> order[w].row \in reactions]
  <2>1. /\ duty[w] = "remove_find" /\ UNCHANGED <<trust_world, account>>
        /\ Trust!Goto(w, "remove_delete") /\ order' = [order EXCEPT ![w] = o]
    BY <1>4 DEF Trust!FindForRemove, Trusting
  <2>2. o.target = order[w].target
    OBVIOUS
  <2> HIDE DEF o
  <2> QED
    BY <2>1, <2>2, WentOn DEF Duties, AccountLabels
<1>5. CASE Trust!DeleteReaction(w)
  <2>1. /\ duty[w] = "remove_delete" /\ UNCHANGED <<trust_world, account>>
        /\ Trust!Leave(w) \/ (Trust!Goto(w, "remove_undo") /\ UNCHANGED order)
    BY <1>5 DEF Trust!DeleteReaction
  <2> QED
    BY <2>1, TrustLeft, WentOn DEF Duties, AccountLabels
<1>6. CASE Trust!SolveWrite(w)
  <2>1. /\ duty[w] = "solve_write" /\ UNCHANGED <<trust_world, account>>
        /\ Trust!Leave(w) \/ (Trust!Goto(w, "solve_reward") /\ UNCHANGED order)
    BY <1>6 DEF Trust!SolveWrite
  <2> QED
    BY <2>1, TrustLeft, WentOn DEF Duties, AccountLabels
<1>7. CASE Trust!set_trust_level(w)
  BY <1>7, TrustLeft DEF Trust!set_trust_level, AccountLabels
<1> QED
  BY <1>1, <1>2, <1>3, <1>4, <1>5, <1>6, <1>7, Promoted DEF Trust!TrustStep

LEMMA TrustStarts ==
    ASSUME Trusting, NEW w \in Worker,
           \/ \E r \in Trust!Row : Trust!BeginAdd(w, r) \/ Trust!BeginRemove(w, r)
           \/ \E p \in Post : Trust!BeginSolve(w, p)
           \/ Trust!BeginWarn(w) \/ Trust!BeginLogin(w)
           \/ \E l \in Trust!Level : Trust!BeginSetLevel(w, l)
    PROVE  Trusting'
<1>1. ASSUME NEW r \in Trust!Row, Trust!BeginAdd(w, r) \/ Trust!BeginRemove(w, r)
      PROVE  Trusting'
  <2>1. PICK label \in {"add_find", "remove_find"} : Trust!BeginReaction(w, r, label)
    BY <1>1 DEF Trust!BeginAdd, Trust!BeginRemove
  <2>2. /\ Trust!Start(w, label, [target |-> <<"reaction", r>>, row |-> r])
        /\ UNCHANGED <<trust_world, account>>
    BY <2>1 DEF Trust!BeginReaction
  <2> QED
    BY <2>2, Started DEF Duties, AccountLabels
<1>2. ASSUME NEW p \in Post, Trust!BeginSolve(w, p)
      PROVE  Trusting'
  <2>1. /\ Trust!Start(w, "solve_write", [target |-> <<"thread">>, post |-> p])
        /\ UNCHANGED <<trust_world, account>>
    BY <1>2 DEF Trust!BeginSolve
  <2> QED
    BY <2>1, Started DEF Duties, AccountLabels
<1>3. CASE Trust!BeginWarn(w)
  <2>1. /\ Trust!Start(w, "warn_penalty", [target |-> <<"warning", warn_count>>])
        /\ UNCHANGED <<trust_world, account>>
    BY <1>3 DEF Trust!BeginWarn
  <2> QED
    BY <2>1, Started DEF Duties, AccountLabels
<1>4. CASE Trust!BeginLogin(w)
  <2> DEFINE f == [target |-> <<"account">>, row |-> account]
  <2>1. Trust!Start(w, "promote", f) /\ UNCHANGED <<trust_world, account>>
    BY <1>4 DEF Trust!BeginLogin
  <2>2. f.target = <<"account">> /\ f.row = account
    OBVIOUS
  <2> HIDE DEF f
  <2> QED
    BY <2>1, <2>2, Started DEF Duties, AccountLabels
<1>5. ASSUME NEW l \in Trust!Level, Trust!BeginSetLevel(w, l)
      PROVE  Trusting'
  <2> DEFINE f == [target |-> <<"account">>, level |-> l]
  <2>1. Trust!Start(w, "set_level", f) /\ UNCHANGED <<trust_world, account>>
    BY <1>5 DEF Trust!BeginSetLevel
  <2>2. f.target = <<"account">>
    OBVIOUS
  <2> HIDE DEF f
  <2> QED
    BY <2>1, <2>2, Started DEF Duties, AccountLabels
<1> QED
  BY <1>1, <1>2, <1>3, <1>4, <1>5

LEMMA TrustNext ==
    ASSUME Trusting, Trust!Next
    PROVE  Trusting'
<1>1. ASSUME NEW t \in Trust!Tasks, Trust!RunTask(t)
      PROVE  Trusting'
  <2>1. UNCHANGED <<trust_world, duty, order>>
    BY <1>1 DEF Trust!RunTask
  <2>2. \/ \E v : account' = [account EXCEPT !.days = v]
        \/ \E v : account' = [account EXCEPT !.score = v]
    BY <1>1 DEF Trust!RunTask, Trust!update_last_seen, Trust!increment_trust_score
  <2> QED
    BY <2>1, <2>2, Recounted
<1>2. ASSUME NEW d \in {-1, 1}, Trust!CountPost(d)
      PROVE  Trusting'
  <2>1. /\ UNCHANGED <<trust_world, duty, order>>
        /\ \E v : account' = [account EXCEPT !.posts = v]
    BY <1>2 DEF Trust!CountPost, Trust!increment_post_count
  <2> QED
    BY <2>1, Recounted
<1>3. ASSUME NEW p \in Post, Trust!DeletePost(p)
      PROVE  Trusting'
  <2>1. /\ UNCHANGED <<trust_world, duty, order>>
        /\ \E v : account' = [account EXCEPT !.posts = v]
    BY <1>3 DEF Trust!DeletePost, Trust!increment_post_count
  <2> QED
    BY <2>1, Recounted
<1>4. CASE Trust!NextDay
  BY <1>4, Recounted DEF Trust!NextDay
<1>5. CASE Trust!Restart
  BY <1>5 DEF Trust!Restart, Trusting, AloneAtIt, Duties, AccountLabels
<1> QED
  BY <1>1, <1>2, <1>3, <1>4, <1>5, TrustSteps, TrustStarts DEF Trust!Next

TrustSide == side = "trust" => Trusting

LEMMA TrustSideHolds == CommunitySpec => []TrustSide
<1>1. CommunityInit => TrustSide
  BY TrustInitially DEF CommunityInit, TrustSide
<1>2. TrustSide /\ [CommunityNext]_communityVars => TrustSide'
  <2>1. Trusting /\ UNCHANGED trustVars => Trusting'
    BY DEF trustVars, Trusting, AloneAtIt
  <2> QED
    BY <2>1, TrustNext DEF CommunityNext, communityVars, TrustSide
<1> QED
  BY <1>1, <1>2, PTL DEF CommunitySpec

(* A login that overlaps no other request about the account promotes by    *)
(* one level at most and never takes away the level an administrator has   *)
(* set, whatever tasks, deletions and restarts run meanwhile.              *)
THEOREM PromotionAlwaysStands == CommunitySpec => PromotionStands
<1>1. TrustSide /\ [CommunityNext]_communityVars =>
        [side = "trust" => Trust!PromotionStep]_trustVars
  <2>1. ASSUME Trusting  PROVE Trust!PromotionStep
    BY <2>1, Promoted DEF Trust!PromotionStep
  <2> QED
    BY <2>1 DEF TrustSide, CommunityNext, communityVars
<1> QED
  BY <1>1, TrustSideHolds, PTL DEF CommunitySpec, PromotionStands

-----------------------------------------------------------------------------
(* The score.                                                              *)

ReactionLabels == {"add_find", "add_insert", "add_reward", "remove_find", "remove_delete",
                   "remove_undo"}
SolveLabels == {"solve_write", "solve_reward"}

(* What a worker holds at each of its places, and what it works on.        *)
Holds(label, o) ==
    /\ label = "idle" <=> o = Trust!Idle
    /\ label # "idle" => o.target # <<>>
    /\ label \in ReactionLabels => o.row \in Trust!Row /\ o.target = <<"reaction", o.row>>
    /\ label \in SolveLabels => o.post \in Post /\ o.target = <<"thread">>
    /\ label = "promote" => o.row \in Trust!Accounts
    /\ label = "set_level" => o.level \in Trust!Level

TrustTyped ==
    /\ Trust!TypeOK
    /\ IsFiniteSet(reactions)
    /\ \A w \in Worker : Holds(duty[w], order[w])

(* As no other request in flight is about the same reaction or the thread, *)
(* what a request found of them is still so when it writes.                *)
StillSo(label, o) ==
    /\ label = "add_insert" => o.row \notin reactions
    /\ label = "remove_delete" => (o.existed <=> o.row \in reactions)
    /\ label = "solve_write" => best_answer # o.post

Informed ==
    "overlap" \notin trust_world => \A w \in Worker : StillSo(duty[w], order[w])

(* The changes that are written and whose tasks are not spawned.           *)
Owing(label) == {w \in Worker : duty[w] = label}
OwingFor(label) == {w \in Worker : duty[w] = label /\ order[w].row.kind \in Meaningful}
Owed ==
    2 * (Cardinality(OwingFor("add_reward")) - Cardinality(OwingFor("remove_undo")))
      + 5 * (Cardinality(Owing("solve_reward")) - Cardinality(Owing("warn_penalty")))
Counting ==
    /\ IsFiniteSet(OwingFor("add_reward")) /\ IsFiniteSet(OwingFor("remove_undo"))
    /\ IsFiniteSet(Owing("solve_reward")) /\ IsFiniteSet(Owing("warn_penalty"))

(* What the tasks that have not run will add. *)
Spawned == 2 * (tasks[2] - tasks[-2]) + 5 * (tasks[5] - tasks[-5])

(* The score, what is spawned and what is owed make up what is seen.       *)
Undisturbed == {"restart", "overlap"} \cap trust_world = {}
Explained ==
    /\ Counting
    /\ ~clipped /\ Undisturbed => account.score + Spawned + Owed = Trust!Seen

Scored == Trusting /\ TrustTyped /\ Informed /\ Explained

(* The step of a worker from where it stands to a label with its order.    *)
Moved(w, label, o) ==
    /\ duty'[w] = label /\ order'[w] = o
    /\ \A v \in Worker \ {w} : duty'[v] = duty[v] /\ order'[v] = order[v]

LEMMA Moves ==
    ASSUME Trusting, NEW w \in Worker
    PROVE  /\ Trust!Leave(w) => Moved(w, "idle", Trust!Idle)
           /\ \A l : Trust!Goto(w, l) /\ UNCHANGED order => Moved(w, l, order[w])
           /\ \A l, f : Trust!Start(w, l, f) => Moved(w, l, f) /\ duty[w] = "idle"
  BY DEF Trusting, Moved, Trust!Leave, Trust!Goto, Trust!Start

LEMMA HoldsMoved ==
    ASSUME \A v \in Worker : Holds(duty[v], order[v]),
           NEW w \in Worker, NEW label, NEW o, Moved(w, label, o), Holds(label, o)
    PROVE  \A v \in Worker : Holds(duty'[v], order'[v])
  BY DEF Moved

LEMMA IdleHolds == Holds("idle", Trust!Idle)
  BY DEF Holds, ReactionLabels, SolveLabels

(* No two requests in flight are about the same reaction or the thread.    *)
LEMMA OthersElsewhere ==
    ASSUME Trusting, TrustTyped, "overlap" \notin trust_world,
           NEW v \in Worker, NEW w \in Worker, v # w
    PROVE  /\ duty[v] \in ReactionLabels /\ duty[w] \in ReactionLabels =>
                order[v].row # order[w].row
           /\ ~(duty[v] \in SolveLabels /\ duty[w] \in SolveLabels)
<1>1. duty[v] # "idle" /\ duty[w] # "idle" => order[v].target # order[w].target
  BY DEF Trusting, AloneAtIt
<1>2. Holds(duty[v], order[v]) /\ Holds(duty[w], order[w])
  BY DEF TrustTyped
<1> QED
  BY <1>1, <1>2 DEF Holds, ReactionLabels, SolveLabels

(* Nobody else's finding changes with the reaction or the answer that a    *)
(* request writes.                                                         *)
LEMMA InformedMoved ==
    ASSUME Trusting, TrustTyped, Informed, UNCHANGED trust_world,
           NEW w \in Worker, NEW label, NEW o, Moved(w, label, o),
           "overlap" \notin trust_world => StillSo(label, o)',
           \/ UNCHANGED reactions
           \/ /\ duty[w] \in ReactionLabels
              /\ \A r : r # order[w].row => (r \in reactions' <=> r \in reactions),
           UNCHANGED best_answer \/ duty[w] \in SolveLabels
    PROVE  Informed'
<1> SUFFICES ASSUME "overlap" \notin trust_world, NEW v \in Worker
             PROVE  StillSo(duty[v], order[v])'
  BY DEF Informed
<1>1. CASE v = w
  BY <1>1 DEF Moved, StillSo
<1>2. CASE v # w
  <2>1. duty'[v] = duty[v] /\ order'[v] = order[v] /\ StillSo(duty[v], order[v])
    BY <1>2 DEF Moved, Informed
  <2>2. duty[v] \in ReactionLabels => (order[v].row \in reactions' <=> order[v].row \in reactions)
    BY <1>2, OthersElsewhere
  <2>3. duty[v] \in SolveLabels => UNCHANGED best_answer
    BY <1>2, OthersElsewhere
  <2> QED
    BY <2>1, <2>2, <2>3 DEF StillSo, ReactionLabels, SolveLabels
<1> QED
  BY <1>1, <1>2

-----------------------------------------------------------------------------
(* What is owed. *)
Due(label, o) ==
    IF label = "add_reward" /\ o.row.kind \in Meaningful THEN 2
    ELSE IF label = "remove_undo" /\ o.row.kind \in Meaningful THEN -2
    ELSE IF label = "solve_reward" THEN 5
    ELSE IF label = "warn_penalty" THEN -5 ELSE 0

One(b) == IF b THEN 1 ELSE 0

(* A finite set that one element enters or leaves. *)
LEMMA OneMore ==
    ASSUME NEW S, IsFiniteSet(S), NEW T, NEW x, T \ {x} = S \ {x}
    PROVE  /\ IsFiniteSet(T) /\ Cardinality(S) \in Nat /\ Cardinality(T) \in Nat
           /\ Cardinality(T) = Cardinality(S) + One(x \in T) - One(x \in S)
<1> DEFINE U == S \ {x}
<1>1. IsFiniteSet(U)
  BY FS_RemoveElement
<1>2. \A V : V \ {x} = U => /\ IsFiniteSet(V) /\ Cardinality(V) \in Nat
                            /\ Cardinality(V) = Cardinality(U) + One(x \in V)
  <2> SUFFICES ASSUME NEW V, V \ {x} = U
               PROVE  /\ IsFiniteSet(V) /\ Cardinality(V) \in Nat
                      /\ Cardinality(V) = Cardinality(U) + One(x \in V)
    OBVIOUS
  <2>1. CASE x \in V
    <3>1. V = U \cup {x} /\ x \notin U
      BY <2>1
    <3> QED
      BY <1>1, <2>1, <3>1, FS_AddElement, FS_CardinalityType DEF One
  <2>2. CASE x \notin V
    <3>1. V = U
      BY <2>2
    <3> QED
      BY <1>1, <2>2, <3>1, FS_CardinalityType DEF One
  <2> QED
    BY <2>1, <2>2
<1>3. T \ {x} = U /\ S \ {x} = U
  OBVIOUS
<1>4. Cardinality(U) \in Nat
  BY <1>1, FS_CardinalityType
<1> HIDE DEF U
<1> QED
  BY <1>2, <1>3, <1>4 DEF One

LEMMA OwedMoved ==
    ASSUME Counting, NEW w \in Worker, NEW label, NEW o, Moved(w, label, o)
    PROVE  /\ Counting' /\ Owed \in Int
           /\ Owed' = Owed + Due(label, o) - Due(duty[w], order[w])
<1>1. ASSUME NEW l, IsFiniteSet(Owing(l))
      PROVE  /\ IsFiniteSet(Owing(l)') /\ Cardinality(Owing(l)) \in Nat
             /\ Cardinality(Owing(l)') =
                  Cardinality(Owing(l)) + One(label = l) - One(duty[w] = l)
  <2>1. Owing(l)' \ {w} = Owing(l) \ {w}
    BY DEF Owing, Moved
  <2>2. (w \in Owing(l)' <=> label = l) /\ (w \in Owing(l) <=> duty[w] = l)
    BY DEF Owing, Moved
  <2> HIDE DEF Owing
  <2>3. /\ One(w \in Owing(l)') = One(label = l)
        /\ One(w \in Owing(l)) = One(duty[w] = l)
    BY <2>2 DEF One
  <2> QED
    BY <1>1, <2>1, <2>3, OneMore
<1>2. ASSUME NEW l, IsFiniteSet(OwingFor(l))
      PROVE  /\ IsFiniteSet(OwingFor(l)') /\ Cardinality(OwingFor(l)) \in Nat
             /\ Cardinality(OwingFor(l)') =
                  Cardinality(OwingFor(l)) + One(label = l /\ o.row.kind \in Meaningful)
                    - One(duty[w] = l /\ order[w].row.kind \in Meaningful)
  <2>1. OwingFor(l)' \ {w} = OwingFor(l) \ {w}
    BY DEF OwingFor, Moved
  <2>2. /\ w \in OwingFor(l)' <=> label = l /\ o.row.kind \in Meaningful
        /\ w \in OwingFor(l) <=> duty[w] = l /\ order[w].row.kind \in Meaningful
    BY DEF OwingFor, Moved
  <2> HIDE DEF OwingFor
  <2>3. /\ One(w \in OwingFor(l)') = One(label = l /\ o.row.kind \in Meaningful)
        /\ One(w \in OwingFor(l)) = One(duty[w] = l /\ order[w].row.kind \in Meaningful)
    BY <2>2 DEF One
  <2> QED
    BY <1>2, <2>1, <2>3, OneMore
<1> DEFINE a == Cardinality(OwingFor("add_reward"))
           b == Cardinality(OwingFor("remove_undo"))
           c == Cardinality(Owing("solve_reward"))
           d == Cardinality(Owing("warn_penalty"))
<1>3. /\ a \in Nat /\ IsFiniteSet(OwingFor("add_reward")')
      /\ a' = a + One(label = "add_reward" /\ o.row.kind \in Meaningful)
                - One(duty[w] = "add_reward" /\ order[w].row.kind \in Meaningful)
  BY <1>2 DEF Counting
<1>4. /\ b \in Nat /\ IsFiniteSet(OwingFor("remove_undo")')
      /\ b' = b + One(label = "remove_undo" /\ o.row.kind \in Meaningful)
                - One(duty[w] = "remove_undo" /\ order[w].row.kind \in Meaningful)
  BY <1>2 DEF Counting
<1>5. /\ c \in Nat /\ IsFiniteSet(Owing("solve_reward")')
      /\ c' = c + One(label = "solve_reward") - One(duty[w] = "solve_reward")
  BY <1>1 DEF Counting
<1>6. /\ d \in Nat /\ IsFiniteSet(Owing("warn_penalty")')
      /\ d' = d + One(label = "warn_penalty") - One(duty[w] = "warn_penalty")
  BY <1>1 DEF Counting
<1>7. Owed = 2 * (a - b) + 5 * (c - d) /\ Owed' = 2 * (a' - b') + 5 * (c' - d')
  BY DEF Owed
<1> DEFINE to1 == One(label = "add_reward" /\ o.row.kind \in Meaningful)
           to2 == One(label = "remove_undo" /\ o.row.kind \in Meaningful)
           to3 == One(label = "solve_reward")
           to4 == One(label = "warn_penalty")
           of1 == One(duty[w] = "add_reward" /\ order[w].row.kind \in Meaningful)
           of2 == One(duty[w] = "remove_undo" /\ order[w].row.kind \in Meaningful)
           of3 == One(duty[w] = "solve_reward")
           of4 == One(duty[w] = "warn_penalty")
<1>8. /\ Due(label, o) = 2 * (to1 - to2) + 5 * (to3 - to4)
      /\ Due(duty[w], order[w]) = 2 * (of1 - of2) + 5 * (of3 - of4)
  BY DEF Due, One
<1>9. /\ to1 \in Nat /\ to2 \in Nat /\ to3 \in Nat /\ to4 \in Nat
      /\ of1 \in Nat /\ of2 \in Nat /\ of3 \in Nat /\ of4 \in Nat
  BY DEF One
<1>10. Counting'
  BY <1>3, <1>4, <1>5, <1>6 DEF Counting
<1>11. a' = a + to1 - of1 /\ b' = b + to2 - of2 /\ c' = c + to3 - of3 /\ d' = d + to4 - of4
  BY <1>3, <1>4, <1>5, <1>6
<1>12. a \in Nat /\ b \in Nat /\ c \in Nat /\ d \in Nat
  BY <1>3, <1>4, <1>5, <1>6
<1> HIDE DEF a, b, c, d, to1, to2, to3, to4, of1, of2, of3, of4
<1> QED
  BY <1>7, <1>8, <1>9, <1>10, <1>11, <1>12

-----------------------------------------------------------------------------
(* What is liked, and what is spawned. *)
LEMMA LikedMoved ==
    ASSUME IsFiniteSet(reactions), NEW r, reactions' \ {r} = reactions \ {r}
    PROVE  /\ IsFiniteSet(reactions') /\ Trust!Liked \in Int
           /\ Trust!Liked' = Trust!Liked + 2 * One(r \in reactions' /\ r.kind \in Meaningful)
                                         - 2 * One(r \in reactions /\ r.kind \in Meaningful)
<1> DEFINE S == {x \in reactions : x.kind \in Meaningful}
           T == {x \in reactions' : x.kind \in Meaningful}
<1>1. IsFiniteSet(reactions') /\ IsFiniteSet(S)
  BY OneMore, FS_Subset
<1>2. T \ {r} = S \ {r}
  OBVIOUS
<1>3. /\ r \in T <=> r \in reactions' /\ r.kind \in Meaningful
      /\ r \in S <=> r \in reactions /\ r.kind \in Meaningful
  OBVIOUS
<1>4. Trust!Liked = 2 * Cardinality(S) /\ Trust!Liked' = 2 * Cardinality(T)
  BY DEF Trust!Liked, Trust!Cardinality, Cardinality
<1> DEFINE after == One(r \in reactions' /\ r.kind \in Meaningful)
           before == One(r \in reactions /\ r.kind \in Meaningful)
<1> HIDE DEF S, T
<1>5. One(r \in T) = after /\ One(r \in S) = before /\ after \in Nat /\ before \in Nat
  BY <1>3 DEF One
<1>6. /\ Cardinality(S) \in Nat
      /\ Cardinality(T) = Cardinality(S) + after - before
  BY <1>1, <1>2, <1>5, OneMore
<1> HIDE DEF after, before
<1>7. Trust!Liked \in Int /\ Trust!Liked' = Trust!Liked + 2 * after - 2 * before
  BY <1>4, <1>5, <1>6
<1> QED
  BY <1>1, <1>7 DEF after, before

Unscored == tasks \in [Trust!Tasks -> Nat]

LEMMA SpawnedTyped == Unscored => Spawned \in Int
  BY DEF Unscored, Spawned, Trust!Tasks

LEMMA SpawnedMoved ==
    ASSUME Unscored, NEW t \in Trust!Tasks
    PROVE  /\ Trust!Spawn(t) => Unscored' /\ Spawned' = Spawned + t
           /\ tasks[t] > 0 /\ tasks' = [tasks EXCEPT ![t] = @ - 1] =>
                Unscored' /\ Spawned' = Spawned - t
<1>1. \A u \in Trust!Tasks : tasks[u] \in Nat
  BY DEF Unscored
<1>2. ASSUME Trust!Spawn(t) PROVE Unscored' /\ Spawned' = Spawned + t
  <2>1. /\ Unscored' /\ tasks'[t] = tasks[t] + 1
        /\ \A u \in Trust!Tasks \ {t} : tasks'[u] = tasks[u]
    BY <1>2 DEF Trust!Spawn, Unscored
  <2> QED
    BY <1>1, <2>1 DEF Spawned, Trust!Tasks, Trust!Visit
<1>3. ASSUME tasks[t] > 0, tasks' = [tasks EXCEPT ![t] = @ - 1]
      PROVE  Unscored' /\ Spawned' = Spawned - t
  <2>1. /\ Unscored' /\ tasks'[t] = tasks[t] - 1
        /\ \A u \in Trust!Tasks \ {t} : tasks'[u] = tasks[u]
    BY <1>1, <1>3 DEF Unscored
  <2> QED
    BY <1>1, <2>1 DEF Spawned, Trust!Tasks, Trust!Visit
<1> QED
  BY <1>2, <1>3

(* The tables and the account, without the workers. *)
FieldsTyped ==
    /\ reactions \subseteq Trust!Row /\ IsFiniteSet(reactions) /\ deleted \subseteq Post
    /\ best_answer \in Post \cup {None} /\ warn_count \in Nat
    /\ account \in Trust!Accounts /\ Unscored
    /\ seen_today \in BOOLEAN /\ clipped \in BOOLEAN /\ changes \in Nat

LEMMA TypedParts ==
    TrustTyped <=> /\ trust_world \in TrustWorlds /\ FieldsTyped
                   /\ start \in 0 .. Trust!MaxScore
                   /\ \A w \in Worker : Holds(duty[w], order[w])
  BY DEF TrustTyped, Trust!TypeOK, FieldsTyped, Unscored, Holds

LEMMA SeenTyped ==
    FieldsTyped /\ start \in 0 .. Trust!MaxScore =>
        account.score \in Int /\ Spawned \in Int /\ Trust!Seen \in Int
<1> SUFFICES ASSUME FieldsTyped, start \in 0 .. Trust!MaxScore
             PROVE  account.score \in Int /\ Spawned \in Int /\ Trust!Seen \in Int
  OBVIOUS
<1>1. Spawned \in Int
  BY SpawnedTyped DEF FieldsTyped
<1>2. account.score \in Int
  BY DEF FieldsTyped, Trust!Accounts, Trust!MaxScore
<1>3. Trust!Liked \in Int
  <2>1. IsFiniteSet({r \in reactions : r.kind \in Meaningful})
    BY FS_Subset DEF FieldsTyped
  <2>2. Cardinality({r \in reactions : r.kind \in Meaningful}) \in Nat
    BY <2>1, FS_CardinalityType
  <2>3. Trust!Liked = 2 * Cardinality({r \in reactions : r.kind \in Meaningful})
    BY DEF Trust!Liked, Trust!Cardinality, Cardinality
  <2> QED
    BY <2>2, <2>3
<1>4. start \in Int /\ changes \in Int /\ warn_count \in Int
  BY DEF FieldsTyped, Trust!MaxScore
<1> QED
  BY <1>1, <1>2, <1>3, <1>4 DEF Trust!Seen

(* A worker's step keeps all of it, when it keeps the balance.             *)
LEMMA WorkerKeeps ==
    ASSUME Scored, Trusting', UNCHANGED <<trust_world, start>>, FieldsTyped',
           NEW w \in Worker, NEW label, NEW o, Moved(w, label, o), Holds(label, o),
           "overlap" \notin trust_world => StillSo(label, o)',
           \/ UNCHANGED reactions
           \/ /\ duty[w] \in ReactionLabels
              /\ \A r : r # order[w].row => (r \in reactions' <=> r \in reactions),
           UNCHANGED best_answer \/ duty[w] \in SolveLabels,
           UNCHANGED clipped /\ account'.score = account.score,
           Undisturbed => Spawned' + Due(label, o) - Due(duty[w], order[w]) - Trust!Seen'
                            = Spawned - Trust!Seen
    PROVE  Scored'
<1>1. TrustTyped'
  <2>1. (\A v \in Worker : Holds(duty[v], order[v]))'
    BY HoldsMoved, TypedParts DEF Scored
  <2>2. trust_world \in TrustWorlds /\ start \in 0 .. Trust!MaxScore
    BY TypedParts DEF Scored
  <2>3. trust_world' \in TrustWorlds /\ start' \in 0 .. Trust!MaxScore
    BY <2>2
  <2> QED
    BY <2>1, <2>3 DEF TrustTyped, Trust!TypeOK, FieldsTyped, Unscored, Holds
<1>2. Informed'
  BY InformedMoved DEF Scored
<1>3. Explained'
  <2>1. Counting' /\ Owed \in Int /\ Owed' = Owed + Due(label, o) - Due(duty[w], order[w])
    BY OwedMoved DEF Scored, Explained
  <2>2. account.score \in Int /\ Spawned \in Int /\ Trust!Seen \in Int
    BY SeenTyped, TypedParts DEF Scored
  <2>3. (account.score \in Int /\ Spawned \in Int /\ Trust!Seen \in Int)'
    <3>1. start' \in 0 .. Trust!MaxScore
      BY TypedParts DEF Scored
    <3>2. (FieldsTyped /\ start \in 0 .. Trust!MaxScore =>
              account.score \in Int /\ Spawned \in Int /\ Trust!Seen \in Int)'
      BY SeenTyped, PTL
    <3> QED
      BY <3>1, <3>2
  <2>4. \A l, q : Due(l, q) \in Int
    BY DEF Due
  <2>5. Undisturbed' = Undisturbed
    BY DEF Undisturbed
  <2> DEFINE to == Due(label, o)  of == Due(duty[w], order[w])
             seen1 == Trust!Seen  seen2 == Trust!Seen'
             score1 == account.score  score2 == account'.score
             owed1 == Owed  owed2 == Owed'  sum1 == Spawned  sum2 == Spawned'
  <2>6. /\ to \in Int /\ of \in Int /\ seen1 \in Int /\ seen2 \in Int /\ score1 \in Int
        /\ owed1 \in Int /\ sum1 \in Int /\ sum2 \in Int
    BY <2>1, <2>2, <2>3, <2>4
  <2>7. ~clipped /\ Undisturbed => score1 + sum1 + owed1 = seen1
    BY DEF Scored, Explained
  <2>8. score2 = score1 /\ owed2 = owed1 + to - of
    BY <2>1
  <2>9. Undisturbed => sum2 + to - of - seen2 = sum1 - seen1
    OBVIOUS
  <2> HIDE DEF to, of, seen1, seen2, score1, score2, owed1, owed2, sum1, sum2
  <2>10. ~clipped /\ Undisturbed => score2 + sum2 + owed2 = seen2
    BY <2>6, <2>7, <2>8, <2>9
  <2>11. ~clipped /\ Undisturbed => account'.score + Spawned' + Owed' = Trust!Seen'
    BY <2>10 DEF seen2, score2, owed2, sum2
  <2> QED
    BY <2>1, <2>5, <2>11 DEF Explained
<1> QED
  BY <1>1, <1>2, <1>3 DEF Scored

-----------------------------------------------------------------------------
(* The steps of the workers. *)
LEMMA Stands ==
    ASSUME Scored, NEW w \in Worker
    PROVE  Holds(duty[w], order[w]) /\ FieldsTyped /\ Trusting
           /\ ("overlap" \notin trust_world => StillSo(duty[w], order[w]))
  BY TypedParts DEF Scored, Informed

LEMMA NothingDue ==
    ASSUME NEW label, NEW o,
           label \notin {"add_reward", "remove_undo", "solve_reward", "warn_penalty"}
    PROVE  Due(label, o) = 0
  BY DEF Due

(* A step that reads, or writes no more than the level. *)
LEMMA ScoreUntouched ==
    ASSUME Scored, Trusting', NEW w \in Worker, NEW label, NEW o, Moved(w, label, o),
           Holds(label, o), "overlap" \notin trust_world => StillSo(label, o),
           UNCHANGED <<trust_world, reactions, deleted, best_answer, warn_count, seen_today,
                       start, clipped, changes>>,
           Unscored', Spawned' = Spawned,
           account' \in Trust!Accounts, account'.score = account.score,
           Due(label, o) = 0, Due(duty[w], order[w]) = 0
    PROVE  Scored'
<1>1. FieldsTyped'
  BY Stands DEF FieldsTyped
<1>2. "overlap" \notin trust_world => StillSo(label, o)'
  BY DEF StillSo
<1>3. Trust!Seen' = Trust!Seen
  BY DEF Trust!Seen, Trust!Liked
<1>4. Spawned \in Int /\ Trust!Seen \in Int
  BY SeenTyped, TypedParts DEF Scored
<1> QED
  BY <1>1, <1>2, <1>3, <1>4, WorkerKeeps

(* A reward that was owed is spawned. *)
LEMMA DueSpawned ==
    ASSUME Scored, Trusting', NEW w \in Worker, Trust!Leave(w),
           UNCHANGED <<trust_world, reactions, deleted, best_answer, warn_count, account,
                       seen_today, start, clipped, changes>>,
           Unscored', Spawned' = Spawned + Due(duty[w], order[w])
    PROVE  Scored'
<1>1. FieldsTyped'
  BY Stands DEF FieldsTyped
<1>2. Moved(w, "idle", Trust!Idle) /\ Holds("idle", Trust!Idle)
  BY Moves, IdleHolds DEF Scored
<1>3. "overlap" \notin trust_world => StillSo("idle", Trust!Idle)'
  BY DEF StillSo
<1>4. Trust!Seen' = Trust!Seen
  BY DEF Trust!Seen, Trust!Liked
<1>5. Spawned \in Int /\ Trust!Seen \in Int
  BY SeenTyped, TypedParts DEF Scored
<1>6. Due(duty[w], order[w]) \in Int /\ Due("idle", Trust!Idle) = 0
  BY DEF Due
<1>7. Spawned' + Due("idle", Trust!Idle) - Due(duty[w], order[w]) - Trust!Seen'
        = Spawned - Trust!Seen
  BY <1>4, <1>5, <1>6
<1> QED
  BY <1>1, <1>2, <1>3, <1>7, WorkerKeeps

LEMMA FoundReaction ==
    ASSUME Scored, Trusting', NEW w \in Worker, Trust!FindForAdd(w)
    PROVE  Scored'
<1>1. /\ duty[w] = "add_find"
      /\ \/ Trust!Leave(w)
         \/ order[w].row \notin reactions /\ Trust!Goto(w, "add_insert") /\ UNCHANGED order
      /\ UNCHANGED <<trust_world, reactions, deleted, best_answer, warn_count, seen_today,
                     account, tasks, start, clipped, changes>>
  BY DEF Trust!FindForAdd, Trust!rows, Trust!history
<1>2. Holds(duty[w], order[w]) /\ FieldsTyped /\ Trusting
  BY Stands
<1>3. Unscored' /\ Spawned' = Spawned /\ account' \in Trust!Accounts
  BY <1>1, <1>2 DEF FieldsTyped, Unscored, Spawned
<1>4. Due(duty[w], order[w]) = 0
  BY <1>1, NothingDue
<1>5. CASE Trust!Leave(w)
  <2>1. Moved(w, "idle", Trust!Idle) /\ Due("idle", Trust!Idle) = 0
    BY <1>2, <1>5, Moves, NothingDue
  <2>2. StillSo("idle", Trust!Idle)
    BY DEF StillSo
  <2> QED
    BY <1>1, <1>3, <1>4, <2>1, <2>2, IdleHolds, ScoreUntouched
<1>6. CASE order[w].row \notin reactions /\ Trust!Goto(w, "add_insert") /\ UNCHANGED order
  <2>1. Moved(w, "add_insert", order[w]) /\ Due("add_insert", order[w]) = 0
    BY <1>2, <1>6, Moves, NothingDue
  <2>2. StillSo("add_insert", order[w]) /\ Holds("add_insert", order[w])
    BY <1>1, <1>2, <1>6 DEF StillSo, Holds, ReactionLabels, SolveLabels
  <2> QED
    BY <1>1, <1>3, <1>4, <2>1, <2>2, ScoreUntouched
<1> QED
  BY <1>1, <1>5, <1>6

LEMMA InsertedReaction ==
    ASSUME Scored, Trusting', NEW w \in Worker, Trust!InsertReaction(w)
    PROVE  Scored'
<1> DEFINE row == order[w].row
<1>0. PICK o : o = order[w]
  OBVIOUS
<1>1. /\ duty[w] = "add_insert" /\ reactions' = reactions \cup {row}
      /\ IF row \in reactions THEN Trust!Leave(w)
         ELSE Trust!Goto(w, "add_reward") /\ UNCHANGED order
      /\ UNCHANGED <<trust_world, deleted, best_answer, warn_count, account, seen_today,
                     tasks, start, clipped, changes>>
  BY DEF Trust!InsertReaction, Trust!history
<1>2. /\ Holds(duty[w], order[w]) /\ FieldsTyped /\ Trusting
      /\ "overlap" \notin trust_world => row \notin reactions
  BY <1>1, Stands DEF StillSo
<1>3. Unscored' /\ Spawned' = Spawned
  BY <1>1, <1>2 DEF FieldsTyped, Unscored, Spawned
<1>4. Due(duty[w], order[w]) = 0
  BY <1>1, NothingDue
<1>5. CASE row \in reactions
  <2>1. Moved(w, "idle", Trust!Idle) /\ Due("idle", Trust!Idle) = 0
    BY <1>1, <1>2, <1>5, Moves, NothingDue
  <2>2. StillSo("idle", Trust!Idle) /\ UNCHANGED reactions
    BY <1>1, <1>5 DEF StillSo
  <2>3. account' \in Trust!Accounts /\ account'.score = account.score
    BY <1>1, <1>2 DEF FieldsTyped
  <2> QED
    BY <1>1, <1>3, <1>4, <2>1, <2>2, <2>3, IdleHolds, ScoreUntouched
<1>6. CASE row \notin reactions
  <2>1. Moved(w, "add_reward", o)
    BY <1>0, <1>1, <1>2, <1>6, Moves
  <2>2. Holds("add_reward", o) /\ row \in Trust!Row
    BY <1>0, <1>1, <1>2 DEF Holds, ReactionLabels, SolveLabels
  <2>3. reactions' \ {row} = reactions \ {row}
    BY <1>1
  <2>4. /\ IsFiniteSet(reactions') /\ Trust!Liked \in Int
        /\ Trust!Liked' = Trust!Liked + 2 * One(row \in reactions' /\ row.kind \in Meaningful)
                                      - 2 * One(row \in reactions /\ row.kind \in Meaningful)
    BY <1>2, <2>3, LikedMoved DEF FieldsTyped
  <2>5. FieldsTyped'
    BY <1>1, <1>2, <1>3, <2>2, <2>4 DEF FieldsTyped
  <2>6. Trust!Liked' = Trust!Liked + Due("add_reward", o)
    BY <1>0, <1>1, <1>6, <2>4 DEF One, Due
  <2>7. StillSo("add_reward", o)'
    BY DEF StillSo
  <2>8. Due("add_reward", o) \in Int
    BY DEF Due
  <2>9. Spawned \in Int /\ Trust!Seen \in Int
    BY SeenTyped, TypedParts DEF Scored
  <2>10. Trust!Seen' = Trust!Seen + Due("add_reward", o)
    <3>1. 5 * changes \in Int /\ 5 * warn_count \in Int /\ start \in Int
      BY <1>2, TypedParts DEF FieldsTyped, Scored, Trust!MaxScore
    <3> QED
      BY <1>1, <2>4, <2>6, <2>8, <3>1 DEF Trust!Seen
  <2>11. Spawned' + Due("add_reward", o) - Due(duty[w], order[w]) - Trust!Seen'
           = Spawned - Trust!Seen
    BY <1>3, <1>4, <2>8, <2>9, <2>10
  <2>12. /\ duty[w] \in ReactionLabels
         /\ \A r : r # order[w].row => (r \in reactions' <=> r \in reactions)
    BY <1>1 DEF ReactionLabels
  <2>13. /\ UNCHANGED <<trust_world, start>> /\ UNCHANGED best_answer
         /\ UNCHANGED clipped /\ account'.score = account.score
    BY <1>1
  <2> QED
    BY <2>1, <2>2, <2>5, <2>7, <2>11, <2>12, <2>13, WorkerKeeps
<1> QED
  BY <1>5, <1>6

LEMMA Rewarded ==
    ASSUME Scored, Trusting', NEW w \in Worker,
           \/ Trust!RewardReaction(w) \/ Trust!UndoReaction(w)
           \/ Trust!RewardSolve(w) \/ Trust!Penalty(w)
    PROVE  Scored'
<1>1. /\ Trust!Leave(w)
      /\ UNCHANGED <<trust_world, reactions, deleted, best_answer, warn_count, account,
                     seen_today, start, clipped, changes>>
  BY DEF Trust!RewardReaction, Trust!UndoReaction, Trust!RewardSolve, Trust!Penalty,
         Trust!rows, Trust!history
<1>2. Unscored
  BY Stands DEF FieldsTyped
<1>3. {-5, -2, 2, 5} \subseteq Trust!Tasks
  BY DEF Trust!Tasks
<1>4. Spawned \in Int
  BY <1>2, SpawnedTyped
<1>5. Unscored' /\ Spawned' = Spawned + Due(duty[w], order[w])
  <2>1. CASE Trust!RewardReaction(w)
    <3>1. /\ duty[w] = "add_reward"
          /\ IF order[w].row.kind \in Meaningful THEN Trust!Spawn(2) ELSE UNCHANGED tasks
      BY <2>1 DEF Trust!RewardReaction
    <3>2. CASE order[w].row.kind \in Meaningful
      BY <1>2, <1>3, <3>1, <3>2, SpawnedMoved DEF Due
    <3>3. CASE order[w].row.kind \notin Meaningful
      BY <1>2, <1>4, <3>1, <3>3 DEF Due, Unscored, Spawned
    <3> QED
      BY <3>2, <3>3
  <2>2. CASE Trust!UndoReaction(w)
    <3>1. /\ duty[w] = "remove_undo"
          /\ IF order[w].row.kind \in Meaningful THEN Trust!Spawn(-2) ELSE UNCHANGED tasks
      BY <2>2 DEF Trust!UndoReaction
    <3>2. CASE order[w].row.kind \in Meaningful
      BY <1>2, <1>3, <3>1, <3>2, SpawnedMoved DEF Due
    <3>3. CASE order[w].row.kind \notin Meaningful
      BY <1>2, <1>4, <3>1, <3>3 DEF Due, Unscored, Spawned
    <3> QED
      BY <3>2, <3>3
  <2>3. CASE Trust!RewardSolve(w)
    BY <1>2, <1>3, <2>3, SpawnedMoved DEF Trust!RewardSolve, Due
  <2>4. CASE Trust!Penalty(w)
    BY <1>2, <1>3, <2>4, SpawnedMoved DEF Trust!Penalty, Due
  <2> QED
    BY <2>1, <2>2, <2>3, <2>4
<1> QED
  BY <1>1, <1>5, DueSpawned

LEMMA SoughtReaction ==
    ASSUME Scored, Trusting', NEW w \in Worker, Trust!FindForRemove(w)
    PROVE  Scored'
<1> DEFINE o == [target |-> order[w].target, row |-> order[w].row,
                 existed |-> order[w].row \in reactions]
<1>1. /\ duty[w] = "remove_find" /\ Trust!Goto(w, "remove_delete")
      /\ order' = [order EXCEPT ![w] = o]
      /\ UNCHANGED <<trust_world, reactions, deleted, best_answer, warn_count, seen_today,
                     account, tasks, start, clipped, changes>>
  BY DEF Trust!FindForRemove, Trust!rows, Trust!history, Scored, Trusting
<1>2. Holds(duty[w], order[w]) /\ FieldsTyped /\ Trusting
  BY Stands
<1>3. Unscored' /\ Spawned' = Spawned /\ account' \in Trust!Accounts
  BY <1>1, <1>2 DEF FieldsTyped, Unscored, Spawned
<1>4. o.target = order[w].target /\ o.row = order[w].row /\ o.existed = (o.row \in reactions)
  OBVIOUS
<1> HIDE DEF o
<1>5. order[w].target # <<>> /\ order[w].row \in Trust!Row
        /\ order[w].target = <<"reaction", order[w].row>>
  BY <1>1, <1>2 DEF Holds, ReactionLabels
<1>6. o # Trust!Idle
  BY <1>4, <1>5 DEF Trust!Idle
<1>7. Holds("remove_delete", o)
  BY <1>4, <1>5, <1>6 DEF Holds, ReactionLabels, SolveLabels
<1>8. StillSo("remove_delete", o)
  BY <1>4 DEF StillSo
<1>9. Moved(w, "remove_delete", o)
  BY <1>1, <1>2 DEF Moved, Trusting, Trust!Goto
<1>10. Due("remove_delete", o) = 0 /\ Due(duty[w], order[w]) = 0
  BY <1>1, NothingDue
<1> QED
  BY <1>1, <1>3, <1>7, <1>8, <1>9, <1>10, ScoreUntouched

LEMMA DeletedReaction ==
    ASSUME Scored, Trusting', NEW w \in Worker, Trust!DeleteReaction(w)
    PROVE  Scored'
<1> DEFINE row == order[w].row
<1>1. /\ duty[w] = "remove_delete" /\ reactions' = reactions \ {row}
      /\ IF order[w].existed THEN Trust!Goto(w, "remove_undo") /\ UNCHANGED order
         ELSE Trust!Leave(w)
      /\ UNCHANGED <<trust_world, deleted, best_answer, warn_count, account, seen_today,
                     tasks, start, clipped, changes>>
  BY DEF Trust!DeleteReaction, Trust!history
<1>2. /\ Holds(duty[w], order[w]) /\ FieldsTyped /\ Trusting
      /\ "overlap" \notin trust_world => (order[w].existed <=> row \in reactions)
  BY <1>1, Stands DEF StillSo
<1>3. Unscored' /\ Spawned' = Spawned
  BY <1>1, <1>2 DEF FieldsTyped, Unscored, Spawned
<1>4. Due(duty[w], order[w]) = 0
  BY <1>1, NothingDue
<1>5. /\ IsFiniteSet(reactions') /\ Trust!Liked \in Int
      /\ Trust!Liked' = Trust!Liked + 2 * One(row \in reactions' /\ row.kind \in Meaningful)
                                    - 2 * One(row \in reactions /\ row.kind \in Meaningful)
  <2>1. reactions' \ {row} = reactions \ {row}
    BY <1>1
  <2> QED
    BY <1>2, <2>1, LikedMoved DEF FieldsTyped
<1>6. FieldsTyped'
  BY <1>1, <1>2, <1>3, <1>5 DEF FieldsTyped
<1>7. /\ duty[w] \in ReactionLabels
      /\ \A r : r # order[w].row => (r \in reactions' <=> r \in reactions)
  BY <1>1 DEF ReactionLabels
<1>8. /\ UNCHANGED <<trust_world, start>> /\ UNCHANGED best_answer
      /\ UNCHANGED clipped /\ account'.score = account.score
  BY <1>1
<1>9. Spawned \in Int /\ Trust!Seen \in Int
  BY SeenTyped, TypedParts DEF Scored
<1>10. PICK label \in {"idle", "remove_undo"}, o \in {Trust!Idle, order[w]} :
          /\ Moved(w, label, o) /\ Holds(label, o) /\ StillSo(label, o)'
          /\ "overlap" \notin trust_world => Trust!Liked' = Trust!Liked + Due(label, o)
  <2>1. CASE order[w].existed
    <3>0. PICK o : o = order[w]
      OBVIOUS
    <3>1. Moved(w, "remove_undo", o)
      BY <1>1, <1>2, <2>1, <3>0, Moves
    <3>2. Holds("remove_undo", o) /\ StillSo("remove_undo", o)'
      BY <1>1, <1>2, <3>0 DEF Holds, ReactionLabels, SolveLabels, StillSo
    <3>3. "overlap" \notin trust_world =>
            Trust!Liked' = Trust!Liked + Due("remove_undo", o)
      BY <1>1, <1>2, <1>5, <2>1, <3>0 DEF One, Due
    <3> QED
      BY <3>0, <3>1, <3>2, <3>3
  <2>2. CASE ~order[w].existed
    <3>1. Moved(w, "idle", Trust!Idle)
      BY <1>1, <1>2, <2>2, Moves
    <3>2. StillSo("idle", Trust!Idle)'
      BY DEF StillSo
    <3>3. "overlap" \notin trust_world => Trust!Liked' = Trust!Liked + Due("idle", Trust!Idle)
      BY <1>1, <1>2, <1>5, <2>2 DEF One, Due
    <3> QED
      BY <3>1, <3>2, <3>3, IdleHolds
  <2> QED
    BY <2>1, <2>2
<1>11. Due(label, o) \in Int
  BY DEF Due
<1>12. "overlap" \notin trust_world => Trust!Seen' = Trust!Seen + Due(label, o)
  <2>1. 5 * changes \in Int /\ 5 * warn_count \in Int /\ start \in Int
    BY <1>2, TypedParts DEF FieldsTyped, Scored, Trust!MaxScore
  <2> QED
    BY <1>1, <1>5, <1>10, <1>11, <2>1 DEF Trust!Seen
<1>13. Undisturbed => Spawned' + Due(label, o) - Due(duty[w], order[w]) - Trust!Seen'
                        = Spawned - Trust!Seen
  BY <1>3, <1>4, <1>9, <1>11, <1>12 DEF Undisturbed
<1> QED
  BY <1>6, <1>7, <1>8, <1>10, <1>13, WorkerKeeps

LEMMA WroteAnswer ==
    ASSUME Scored, Trusting', NEW w \in Worker, Trust!SolveWrite(w)
    PROVE  Scored'
<1>1. /\ duty[w] = "solve_write"
      /\ UNCHANGED <<trust_world, reactions, deleted, warn_count, account, seen_today,
                     tasks, start, clipped>>
  BY DEF Trust!SolveWrite
<1>2. /\ Holds(duty[w], order[w]) /\ FieldsTyped /\ Trusting
      /\ "overlap" \notin trust_world => best_answer # order[w].post
      /\ order[w].post \in Post
  BY <1>1, Stands DEF StillSo, Holds, SolveLabels
<1>3. Unscored' /\ Spawned' = Spawned /\ account' \in Trust!Accounts
  BY <1>1, <1>2 DEF FieldsTyped, Unscored, Spawned
<1>4. Due(duty[w], order[w]) = 0
  BY <1>1, NothingDue
<1>5. CASE Trust!Leave(w) /\ UNCHANGED <<best_answer, changes>>
  <2>1. Moved(w, "idle", Trust!Idle) /\ Due("idle", Trust!Idle) = 0
    BY <1>2, <1>5, Moves, NothingDue
  <2>2. StillSo("idle", Trust!Idle)
    BY DEF StillSo
  <2> QED
    BY <1>1, <1>3, <1>4, <1>5, <2>1, <2>2, IdleHolds, ScoreUntouched
<1>6. CASE /\ best_answer' = order[w].post
           /\ changes' = changes + (IF best_answer # order[w].post THEN 1 ELSE 0)
           /\ Trust!Goto(w, "solve_reward") /\ UNCHANGED order
  <2>0. PICK o : o = order[w]
    OBVIOUS
  <2>1. Moved(w, "solve_reward", o)
    BY <1>2, <1>6, <2>0, Moves
  <2>2. Holds("solve_reward", o) /\ StillSo("solve_reward", o)'
    BY <1>1, <1>2, <2>0 DEF Holds, StillSo, ReactionLabels, SolveLabels
  <2>3. FieldsTyped'
    BY <1>1, <1>2, <1>3, <1>6 DEF FieldsTyped
  <2>4. duty[w] \in SolveLabels
    BY <1>1 DEF SolveLabels
  <2>5. Due("solve_reward", o) = 5
    BY DEF Due
  <2>6. Spawned \in Int /\ Trust!Seen \in Int /\ changes \in Int
    BY <1>2, SeenTyped, TypedParts DEF Scored, FieldsTyped
  <2>7. "overlap" \notin trust_world => Trust!Seen' = Trust!Seen + 5
    <3>1. "overlap" \notin trust_world => changes' = changes + 1
      BY <1>2, <1>6
    <3>2. Trust!Liked \in Int /\ Trust!Liked' = Trust!Liked
      <4>1. reactions' \ {None} = reactions \ {None}
        BY <1>1
      <4> QED
        BY <1>1, <1>2, <4>1, LikedMoved DEF FieldsTyped, Trust!Liked
    <3>3. warn_count \in Int /\ start \in Int
      BY <1>2, TypedParts DEF FieldsTyped, Scored, Trust!MaxScore
    <3> QED
      BY <1>1, <2>6, <3>1, <3>2, <3>3 DEF Trust!Seen
  <2>8. Undisturbed => Spawned' + Due("solve_reward", o) - Due(duty[w], order[w])
                         - Trust!Seen' = Spawned - Trust!Seen
    BY <1>3, <1>4, <2>5, <2>6, <2>7 DEF Undisturbed
  <2>9. /\ UNCHANGED <<trust_world, start>> /\ UNCHANGED reactions
        /\ UNCHANGED clipped /\ account'.score = account.score
    BY <1>1
  <2> QED
    BY <2>1, <2>2, <2>3, <2>4, <2>8, <2>9, WorkerKeeps
<1> QED
  BY <1>5, <1>6 DEF Trust!SolveWrite

(* A level is written, and nothing else of the account. *)
LEMMA LevelWritten ==
    ASSUME Scored, Trusting', NEW w \in Worker, Trust!Promote(w) \/ Trust!set_trust_level(w)
    PROVE  Scored'
<1>1. /\ duty[w] \in {"promote", "set_level"} /\ Trust!Leave(w)
      /\ UNCHANGED <<trust_world, reactions, deleted, best_answer, warn_count, seen_today,
                     tasks, start, clipped, changes>>
  BY DEF Trust!Promote, Trust!set_trust_level, Trust!rows, Trust!history
<1>2. Holds(duty[w], order[w]) /\ FieldsTyped /\ Trusting
  BY Stands
<1>3. Unscored' /\ Spawned' = Spawned
  BY <1>1, <1>2 DEF FieldsTyped, Unscored, Spawned
<1>4. account \in Trust!Accounts
  BY <1>2 DEF FieldsTyped
<1>5. account' = account \/ \E l \in Trust!Level : account' = [account EXCEPT !.level = l]
  <2>1. CASE Trust!Promote(w)
    <3> DEFINE row == order[w].row
               deserved == Trust!evaluate_trust_promotion(row)
    <3>1. row \in Trust!Accounts
      BY <1>2, <2>1 DEF Holds, Trust!Promote
    <3>2. deserved \in Trust!Level
      <4>1. row.level \in {1, 2, 3, 4, 5}
        BY <3>1 DEF Trust!Accounts, Trust!Level
      <4>2. Trust!Levels[4] = "regular" /\ Trust!Levels[5] = "leader"
        BY DEF Trust!Levels
      <4>3. CASE deserved = row.level
        BY <4>1, <4>3 DEF Trust!Level
      <4>4. CASE deserved = row.level + 1 /\ Trust!Levels[row.level] \in {"basic", "member"}
        BY <4>1, <4>2, <4>4 DEF Trust!Level
      <4> QED
        BY <4>3, <4>4 DEF Trust!evaluate_trust_promotion
    <3> HIDE DEF deserved, row
    <3>3. account' = account \/ account' = [account EXCEPT !.level = deserved]
      BY <2>1 DEF Trust!Promote, deserved, row
    <3> QED
      BY <3>2, <3>3
  <2>2. CASE Trust!set_trust_level(w)
    BY <1>2, <2>2 DEF Trust!set_trust_level, Holds
  <2> QED
    BY <2>1, <2>2
<1>6. account' \in Trust!Accounts /\ account'.score = account.score
  BY <1>4, <1>5 DEF Trust!Accounts
<1>7. Moved(w, "idle", Trust!Idle) /\ Due("idle", Trust!Idle) = 0
  BY <1>1, <1>2, Moves, NothingDue
<1>8. StillSo("idle", Trust!Idle) /\ Due(duty[w], order[w]) = 0
  BY <1>1, NothingDue DEF StillSo
<1> QED
  BY <1>1, <1>3, <1>6, <1>7, <1>8, IdleHolds, ScoreUntouched

-----------------------------------------------------------------------------
(* Requests that begin, and what goes on without them. *)
LEMMA BegunAs ==
    ASSUME Scored, Trusting', NEW w \in Worker, NEW o,
           NEW label \in {"add_find", "remove_find", "solve_write", "set_level"},
           Trust!Start(w, label, o), Holds(label, o), StillSo(label, o),
           UNCHANGED <<trust_world, reactions, deleted, best_answer, warn_count, account,
                       seen_today, tasks, start, clipped, changes>>
    PROVE  Scored'
<1>1. FieldsTyped /\ Trusting
  BY Stands
<1>2. Moved(w, label, o) /\ duty[w] = "idle"
  BY <1>1, Moves
<1>3. Due(label, o) = 0 /\ Due(duty[w], order[w]) = 0
  BY <1>2 DEF Due
<1>4. Unscored' /\ Spawned' = Spawned /\ account' \in Trust!Accounts
  BY <1>1 DEF FieldsTyped, Unscored, Spawned
<1> QED
  BY <1>2, <1>3, <1>4, ScoreUntouched

LEMMA BegunScored ==
    ASSUME Scored, Trusting', NEW w \in Worker,
           \/ \E r \in Trust!Row : Trust!BeginAdd(w, r) \/ Trust!BeginRemove(w, r)
           \/ \E p \in Post : Trust!BeginSolve(w, p)
           \/ \E l \in Trust!Level : Trust!BeginSetLevel(w, l)
    PROVE  Scored'
<1>1. ASSUME NEW r \in Trust!Row, Trust!BeginAdd(w, r) \/ Trust!BeginRemove(w, r)
      PROVE  Scored'
  <2>1. PICK label \in {"add_find", "remove_find"} : Trust!BeginReaction(w, r, label)
    BY <1>1 DEF Trust!BeginAdd, Trust!BeginRemove
  <2> DEFINE o == [target |-> <<"reaction", r>>, row |-> r]
  <2>2. /\ Trust!Start(w, label, o)
        /\ UNCHANGED <<trust_world, reactions, deleted, best_answer, warn_count, account,
                       seen_today, tasks, start, clipped, changes>>
    BY <2>1 DEF Trust!BeginReaction, Trust!rows, Trust!history
  <2>3. Holds(label, o) /\ StillSo(label, o)
    BY DEF Holds, StillSo, ReactionLabels, SolveLabels, Trust!Idle
  <2> HIDE DEF o
  <2> QED
    BY <2>2, <2>3, BegunAs
<1>2. ASSUME NEW p \in Post, Trust!BeginSolve(w, p)
      PROVE  Scored'
  <2> DEFINE o == [target |-> <<"thread">>, post |-> p]
  <2>1. /\ Trust!Start(w, "solve_write", o) /\ best_answer # p
        /\ UNCHANGED <<trust_world, reactions, deleted, best_answer, warn_count, account,
                       seen_today, tasks, start, clipped, changes>>
    BY <1>2 DEF Trust!BeginSolve, Trust!SolveAgain, Trust!rows, Trust!history
  <2>2. Holds("solve_write", o) /\ StillSo("solve_write", o)
    BY <2>1 DEF Holds, StillSo, ReactionLabels, SolveLabels, Trust!Idle
  <2> HIDE DEF o
  <2> QED
    BY <2>1, <2>2, BegunAs
<1>3. ASSUME NEW l \in Trust!Level, Trust!BeginSetLevel(w, l)
      PROVE  Scored'
  <2> DEFINE o == [target |-> <<"account">>, level |-> l]
  <2>1. /\ Trust!Start(w, "set_level", o)
        /\ UNCHANGED <<trust_world, reactions, deleted, best_answer, warn_count, account,
                       seen_today, tasks, start, clipped, changes>>
    BY <1>3 DEF Trust!BeginSetLevel, Trust!rows, Trust!history
  <2>2. Holds("set_level", o) /\ StillSo("set_level", o)
    BY DEF Holds, StillSo, ReactionLabels, SolveLabels, Trust!Idle
  <2> HIDE DEF o
  <2> QED
    BY <2>1, <2>2, BegunAs
<1> QED
  BY <1>1, <1>2, <1>3

LEMMA LoginScored ==
    ASSUME Scored, Trusting', NEW w \in Worker, Trust!BeginLogin(w)
    PROVE  Scored'
<1> DEFINE o == [target |-> <<"account">>, row |-> account]
<1>1. /\ Trust!Start(w, "promote", o) /\ Trust!Spawn(Trust!Visit)
      /\ UNCHANGED <<trust_world, reactions, deleted, best_answer, warn_count, account,
                     seen_today, start, clipped, changes>>
  BY DEF Trust!BeginLogin, Trust!rows, Trust!history
<1>2. FieldsTyped /\ Trusting
  BY Stands
<1>3. Moved(w, "promote", o) /\ duty[w] = "idle"
  BY <1>1, <1>2, Moves
<1>4. Due("promote", o) = 0 /\ Due(duty[w], order[w]) = 0
  BY <1>3, NothingDue
<1>5. Unscored' /\ Spawned' = Spawned
  <2>1. Trust!Visit \in Trust!Tasks /\ Trust!Visit = 0
    BY DEF Trust!Tasks, Trust!Visit
  <2>2. Unscored /\ Spawned \in Int
    BY <1>2, SpawnedTyped DEF FieldsTyped
  <2> QED
    BY <1>1, <2>1, <2>2, SpawnedMoved
<1>6. account' \in Trust!Accounts /\ account'.score = account.score
  BY <1>1, <1>2 DEF FieldsTyped
<1>7. Holds("promote", o) /\ StillSo("promote", o)
  BY <1>2 DEF Holds, StillSo, ReactionLabels, SolveLabels, Trust!Idle, FieldsTyped
<1> HIDE DEF o
<1> QED
  BY <1>1, <1>3, <1>4, <1>5, <1>6, <1>7, ScoreUntouched

LEMMA WarnedScored ==
    ASSUME Scored, Trusting', NEW w \in Worker, Trust!BeginWarn(w)
    PROVE  Scored'
<1>0. PICK o : o = [target |-> <<"warning", warn_count>>]
  OBVIOUS
<1>1. /\ Trust!Start(w, "warn_penalty", o) /\ warn_count' = warn_count + 1
      /\ UNCHANGED <<trust_world, reactions, deleted, best_answer, account, seen_today,
                     tasks, start, clipped, changes>>
  BY <1>0 DEF Trust!BeginWarn, Trust!history
<1>2. FieldsTyped /\ Trusting
  BY Stands
<1>3. Moved(w, "warn_penalty", o) /\ duty[w] = "idle"
  BY <1>1, <1>2, Moves
<1>4. Holds("warn_penalty", o)
  BY <1>0 DEF Holds, ReactionLabels, SolveLabels, Trust!Idle
<1>5. StillSo("warn_penalty", o)'
  BY DEF StillSo
<1>6. Due("warn_penalty", o) = -5 /\ Due(duty[w], order[w]) = 0
  BY <1>3 DEF Due
<1>7. FieldsTyped'
  BY <1>1, <1>2 DEF FieldsTyped, Unscored
<1>8. Trust!Seen' = Trust!Seen - 5
  <2>1. Trust!Liked \in Int /\ Trust!Liked' = Trust!Liked
    <3>1. reactions' \ {None} = reactions \ {None}
      BY <1>1
    <3> QED
      BY <1>1, <1>2, <3>1, LikedMoved DEF FieldsTyped, Trust!Liked
  <2>2. warn_count \in Int /\ start \in Int /\ changes \in Int
    BY <1>2, TypedParts DEF FieldsTyped, Scored, Trust!MaxScore
  <2> QED
    BY <1>1, <2>1, <2>2 DEF Trust!Seen
<1>9. Spawned \in Int /\ Trust!Seen \in Int /\ Spawned' = Spawned
  BY <1>1, SeenTyped, TypedParts DEF Scored, Spawned
<1>10. Spawned' + Due("warn_penalty", o) - Due(duty[w], order[w]) - Trust!Seen'
         = Spawned - Trust!Seen
  BY <1>6, <1>8, <1>9
<1>11. UNCHANGED <<trust_world, start, reactions, best_answer, clipped>>
         /\ account'.score = account.score
  BY <1>1
<1> QED
  BY <1>3, <1>4, <1>5, <1>7, <1>10, <1>11, WorkerKeeps

(* While no worker moves, what is owed stays. *)
LEMMA WorkersStay ==
    ASSUME Scored, Trusting', FieldsTyped',
           UNCHANGED <<trust_world, start, duty, order, reactions, best_answer, warn_count,
                       changes>>,
           ~clipped' => ~clipped /\ account'.score + Spawned' = account.score + Spawned
    PROVE  Scored'
<1>1. TrustTyped'
  BY TypedParts DEF Scored, TrustTyped, Trust!TypeOK, FieldsTyped, Unscored, Holds
<1>2. Informed'
  BY DEF Scored, Informed, StillSo
<1>3. Explained'
  <2>1. Counting' /\ Owed' = Owed /\ Trust!Seen' = Trust!Seen
    BY DEF Scored, Explained, Counting, Owed, Owing, OwingFor, Trust!Seen, Trust!Liked
  <2>2. Undisturbed' = Undisturbed
    BY DEF Undisturbed
  <2> QED
    BY <2>1, <2>2 DEF Scored, Explained
<1> QED
  BY <1>1, <1>2, <1>3 DEF Scored

LEMMA AtLeastZero ==
    ASSUME NEW n \in Int
    PROVE  Trust!Max({0, n}) = IF n > 0 THEN n ELSE 0
<1> DEFINE top == IF n > 0 THEN n ELSE 0
           P(x) == x \in {0, n} /\ \A y \in {0, n} : x >= y
<1>1. P(top) /\ \A x : P(x) => x = top
  OBVIOUS
<1>2. Trust!Max({0, n}) = CHOOSE x \in {0, n} : \A y \in {0, n} : x >= y
  BY DEF Trust!Max
<1> QED
  BY <1>1, <1>2

LEMMA AtMost ==
    ASSUME NEW n \in Int, NEW most \in Int
    PROVE  Trust!Min({most, n}) = IF n < most THEN n ELSE most
<1> DEFINE low == IF n < most THEN n ELSE most
           P(x) == x \in {most, n} /\ \A y \in {most, n} : x <= y
<1>1. P(low) /\ \A x : P(x) => x = low
  OBVIOUS
<1>2. Trust!Min({most, n}) = CHOOSE x \in {most, n} : \A y \in {most, n} : x <= y
  BY DEF Trust!Min
<1> QED
  BY <1>1, <1>2

LEMMA Clamped ==
    ASSUME NEW n \in Int
    PROVE  Trust!Max({0, Trust!Min({Trust!MaxScore, n})}) =
              IF n \in 0 .. Trust!MaxScore THEN n ELSE IF n < 0 THEN 0 ELSE Trust!MaxScore
<1>1. Trust!MaxScore = 100
  BY DEF Trust!MaxScore
<1> DEFINE low == Trust!Min({Trust!MaxScore, n})
<1>2. low = (IF n < Trust!MaxScore THEN n ELSE Trust!MaxScore) /\ low \in Int
  BY <1>1, AtMost
<1> HIDE DEF low
<1>3. Trust!Max({0, low}) = IF low > 0 THEN low ELSE 0
  BY <1>2, AtLeastZero
<1>4. Trust!Max({0, low}) =
        IF n \in 0 .. Trust!MaxScore THEN n ELSE IF n < 0 THEN 0 ELSE Trust!MaxScore
  BY <1>1, <1>2, <1>3
<1> QED
  BY <1>4 DEF low

LEMMA TaskScored ==
    ASSUME Scored, Trusting', NEW t \in Trust!Tasks, Trust!RunTask(t)
    PROVE  Scored'
<1>1. /\ tasks[t] > 0 /\ tasks' = [tasks EXCEPT ![t] = @ - 1]
      /\ UNCHANGED <<trust_world, start, duty, order, reactions, deleted, best_answer,
                     warn_count, changes>>
  BY DEF Trust!RunTask, Trust!rows
<1>2. FieldsTyped /\ account \in Trust!Accounts
  BY TypedParts DEF Scored, FieldsTyped
<1>3. Unscored' /\ Spawned' = Spawned - t /\ Spawned \in Int
  BY <1>1, <1>2, SpawnedMoved, SpawnedTyped DEF FieldsTyped
<1>4. t \in Int /\ account.score \in 0 .. Trust!MaxScore /\ account.days \in Nat
  BY <1>2 DEF Trust!Tasks, Trust!Visit, Trust!Accounts
<1>5. CASE t = Trust!Visit
  <2>1. /\ account' = [account EXCEPT !.days = @ + IF seen_today THEN 0 ELSE 1]
        /\ seen_today' = TRUE /\ UNCHANGED clipped
    BY <1>5 DEF Trust!RunTask, Trust!update_last_seen
  <2>2. account' \in Trust!Accounts /\ account'.score = account.score
    BY <1>2, <1>4, <2>1 DEF Trust!Accounts
  <2>3. FieldsTyped'
    BY <1>1, <1>2, <1>3, <2>1, <2>2 DEF FieldsTyped
  <2>4. account'.score + Spawned' = account.score + Spawned
    BY <1>3, <1>4, <1>5, <2>2 DEF Trust!Visit
  <2> QED
    BY <1>1, <2>1, <2>3, <2>4, WorkersStay
<1>6. CASE t # Trust!Visit
  <2> DEFINE n == account.score + t
             score == Trust!Max({0, Trust!Min({Trust!MaxScore, n})})
  <2>1. /\ account' = [account EXCEPT !.score = score]
        /\ clipped' = (clipped \/ n \notin 0 .. Trust!MaxScore) /\ UNCHANGED seen_today
    BY <1>6 DEF Trust!RunTask, Trust!increment_trust_score
  <2>2. n \in Int /\ Trust!MaxScore = 100
    BY <1>4 DEF Trust!MaxScore
  <2> HIDE DEF n
  <2>3. score = IF n \in 0 .. Trust!MaxScore THEN n ELSE IF n < 0 THEN 0 ELSE Trust!MaxScore
    BY <2>2, Clamped
  <2> HIDE DEF score
  <2>4. score \in 0 .. Trust!MaxScore /\ (n \in 0 .. Trust!MaxScore => score = n)
    BY <2>2, <2>3
  <2>5. account' \in Trust!Accounts /\ account'.score = score
    BY <1>2, <2>1, <2>4 DEF Trust!Accounts
  <2>6. FieldsTyped'
    BY <1>1, <1>2, <1>3, <2>1, <2>5 DEF FieldsTyped
  <2>7. ~clipped' => ~clipped /\ account'.score + Spawned' = account.score + Spawned
    <3>1. account'.score = score /\ n = account.score + t
      BY <2>5 DEF n
    <3>2. ~clipped' => ~clipped /\ score = n
      BY <2>1, <2>4
    <3>3. account.score \in Int
      BY <1>4, <2>2
    <3>4. n + Spawned' = account.score + Spawned
      BY <1>3, <1>4, <3>1, <3>3
    <3> QED
      BY <3>1, <3>2, <3>4
  <2> QED
    BY <1>1, <2>6, <2>7, WorkersStay
<1> QED
  BY <1>5, <1>6

LEMMA PostsScored ==
    ASSUME Scored, Trusting',
           \/ \E d \in {-1, 1} : Trust!CountPost(d)
           \/ \E p \in Post : Trust!DeletePost(p)
    PROVE  Scored'
<1>1. /\ \E d \in {-1, 1} : account' = [account EXCEPT !.posts = Trust!Max({0, @ + d})]
      /\ deleted' \subseteq Post
      /\ UNCHANGED <<trust_world, start, duty, order, reactions, best_answer, warn_count,
                     tasks, clipped, changes, seen_today>>
  BY TypedParts DEF Scored, FieldsTyped, Trust!CountPost, Trust!DeletePost,
     Trust!increment_post_count, Trust!rows, Trust!history
<1>2. FieldsTyped /\ account \in Trust!Accounts
  BY TypedParts DEF Scored, FieldsTyped
<1>3. account' \in Trust!Accounts /\ account'.score = account.score
  <2>1. PICK d \in {-1, 1} : account' = [account EXCEPT !.posts = Trust!Max({0, @ + d})]
    BY <1>1
  <2>2. PICK n \in Int : n = account.posts + d
    BY <1>2 DEF Trust!Accounts
  <2>3. Trust!Max({0, n}) \in Nat
    BY AtLeastZero
  <2> QED
    BY <1>2, <2>1, <2>2, <2>3 DEF Trust!Accounts
<1>4. FieldsTyped' /\ Spawned' = Spawned
  BY <1>1, <1>2, <1>3 DEF FieldsTyped, Unscored, Spawned
<1> QED
  BY <1>1, <1>3, <1>4, WorkersStay

LEMMA DayScored ==
    ASSUME Scored, Trusting', Trust!NextDay \/ UNCHANGED trustVars
    PROVE  Scored'
<1>1. /\ seen_today' \in BOOLEAN
      /\ UNCHANGED <<trust_world, start, duty, order, reactions, deleted, best_answer,
                     warn_count, tasks, clipped, changes, account>>
  BY TypedParts DEF Scored, FieldsTyped, Trust!NextDay, Trust!rows, Trust!history, trustVars
<1>2. FieldsTyped' /\ Spawned' = Spawned
  BY <1>1, TypedParts DEF Scored, FieldsTyped, Unscored, Spawned
<1> QED
  BY <1>1, <1>2, WorkersStay

(* A restart loses what is owed: nothing is explained after it.            *)
LEMMA RestartScored ==
    ASSUME Scored, Trusting', Trust!Restart
    PROVE  Scored'
<1>1. /\ duty' = [w \in Worker |-> "idle"] /\ order' = [w \in Worker |-> Trust!Idle]
      /\ tasks' = [t \in Trust!Tasks |-> 0] /\ "restart" \in trust_world
      /\ UNCHANGED <<trust_world, start, reactions, deleted, best_answer, warn_count,
                     clipped, changes, account, seen_today>>
  BY DEF Trust!Restart, Trust!rows, Trust!history
<1>2. TrustTyped'
  <2>1. FieldsTyped'
    BY <1>1, TypedParts DEF Scored, FieldsTyped, Unscored
  <2>2. trust_world' \in TrustWorlds /\ start' \in 0 .. Trust!MaxScore
    BY <1>1, TypedParts DEF Scored
  <2>3. \A w \in Worker : Holds(duty'[w], order'[w])
    BY <1>1, IdleHolds
  <2> QED
    BY <2>1, <2>2, <2>3 DEF TrustTyped, Trust!TypeOK, FieldsTyped, Unscored, Holds
<1>3. Informed'
  BY <1>1 DEF Informed, StillSo
<1>4. Explained'
  <2>1. /\ \A l : l # "idle" => Owing(l)' = {} /\ OwingFor(l)' = {}
    BY <1>1 DEF Owing, OwingFor
  <2>2. Counting'
    BY <2>1, FS_EmptySet DEF Counting
  <2>3. ~Undisturbed'
    BY <1>1 DEF Undisturbed
  <2> QED
    BY <2>2, <2>3 DEF Explained
<1> QED
  BY <1>2, <1>3, <1>4 DEF Scored

LEMMA ScoredInitially ==
    ASSUME Trust!Init
    PROVE  Scored
<1>1. Trusting
  BY TrustInitially
<1>2. account \in Trust!Accounts
  BY CommunityConstants DEF Trust!Init, Trust!TrustConstants
<1>3. TrustTyped
  <2>1. FieldsTyped
    BY <1>2, FS_EmptySet DEF Trust!Init, FieldsTyped, Unscored
  <2>2. trust_world \in TrustWorlds /\ start \in 0 .. Trust!MaxScore
    BY <1>2 DEF Trust!Init, Trust!Accounts
  <2>3. \A w \in Worker : Holds(duty[w], order[w])
    BY IdleHolds DEF Trust!Init
  <2> QED
    BY <2>1, <2>2, <2>3, TypedParts
<1>4. Informed
  BY DEF Trust!Init, Informed, StillSo
<1>5. Explained
  <2>1. /\ \A l : l # "idle" => Owing(l) = {} /\ OwingFor(l) = {}
    BY DEF Trust!Init, Owing, OwingFor
  <2>2. Counting /\ Owed = 0
    BY <2>1, FS_EmptySet DEF Counting, Owed
  <2>3. Spawned = 0
    BY DEF Trust!Init, Spawned, Trust!Tasks, Trust!Visit
  <2>4. Trust!Seen = account.score
    <3>1. {r \in reactions : r.kind \in Meaningful} = {} /\ Cardinality({}) = 0
      BY FS_EmptySet DEF Trust!Init
    <3>2. Trust!Liked = 2 * Cardinality({r \in reactions : r.kind \in Meaningful})
      BY DEF Trust!Liked, Trust!Cardinality, Cardinality
    <3>3. /\ start = account.score /\ changes = 0 /\ warn_count = 0
          /\ account.score \in Int
      BY <1>2 DEF Trust!Init, Trust!Accounts, Trust!MaxScore
    <3>4. Trust!Liked = 0
      <4> DEFINE n == Cardinality({r \in reactions : r.kind \in Meaningful})
      <4>1. n = 0 /\ Trust!Liked = 2 * n
        BY <3>1, <3>2
      <4> QED
        BY <4>1
    <3> QED
      BY <3>3, <3>4 DEF Trust!Seen
  <2>5. account.score \in Int
    BY <1>2 DEF Trust!Accounts, Trust!MaxScore
  <2> QED
    BY <2>2, <2>3, <2>4, <2>5 DEF Explained
<1> QED
  BY <1>1, <1>3, <1>4, <1>5 DEF Scored

LEMMA ScoredNext ==
    ASSUME Scored, Trust!Next
    PROVE  Scored'
<1>0. Trusting'
  BY TrustNext DEF Scored
<1>1. ASSUME NEW w \in Worker, Trust!TrustStep(w) PROVE Scored'
  BY <1>0, <1>1, FoundReaction, InsertedReaction, Rewarded, SoughtReaction, DeletedReaction,
     WroteAnswer, LevelWritten DEF Trust!TrustStep
<1>2. ASSUME NEW w \in Worker,
             \/ \E r \in Trust!Row : Trust!BeginAdd(w, r) \/ Trust!BeginRemove(w, r)
             \/ \E p \in Post : Trust!BeginSolve(w, p)
             \/ Trust!BeginWarn(w) \/ Trust!BeginLogin(w)
             \/ \E l \in Trust!Level : Trust!BeginSetLevel(w, l)
      PROVE  Scored'
  BY <1>0, <1>2, BegunScored, WarnedScored, LoginScored
<1>3. ASSUME NEW t \in Trust!Tasks, Trust!RunTask(t) PROVE Scored'
  BY <1>0, <1>3, TaskScored
<1>4. CASE \/ \E d \in {-1, 1} : Trust!CountPost(d)
           \/ \E p \in Post : Trust!DeletePost(p)
  BY <1>0, <1>4, PostsScored
<1>5. CASE Trust!NextDay \/ Trust!Restart
  BY <1>0, <1>5, DayScored, RestartScored
<1> QED
  BY <1>1, <1>2, <1>3, <1>4, <1>5 DEF Trust!Next

LEMMA ScoreAtRest == Scored => Trust!TypeOK /\ Trust!ScoreExplained
<1> SUFFICES ASSUME Scored, Trust!Quiet, ~clipped, Undisturbed
             PROVE  account.score = Trust!Seen
  BY DEF Scored, TrustTyped, Trust!ScoreExplained, Undisturbed
<1>1. \A l : l # "idle" => Owing(l) = {} /\ OwingFor(l) = {}
  BY DEF Trust!Quiet, Owing, OwingFor
<1>2. Owed = 0
  BY <1>1, FS_EmptySet DEF Owed
<1>3. Spawned = 0
  BY DEF Trust!Quiet, Spawned, Trust!Tasks, Trust!Visit
<1>4. account.score \in Int
  BY SeenTyped, TypedParts DEF Scored
<1>5. account.score + Spawned + Owed = Trust!Seen
  BY DEF Scored, Explained
<1> QED
  BY <1>2, <1>3, <1>4, <1>5

ScoreSide == side = "trust" => Scored

(* However requests about different things, their tasks, logins and        *)
(* deletions interleave, for any number of them: a score that is at rest   *)
(* and was never cut off is what the reactions, the changes of the best    *)
(* answer and the warnings explain, each counted once.                     *)
THEOREM ScoreAlwaysExplained == CommunitySpec => []ScoreExplained
<1>1. CommunityInit => ScoreSide
  BY ScoredInitially DEF CommunityInit, ScoreSide
<1>2. ScoreSide /\ [CommunityNext]_communityVars => ScoreSide'
  <2>1. Scored /\ UNCHANGED trustVars => Scored'
    <3>1. Scored /\ UNCHANGED trustVars => Trusting'
      BY DEF trustVars, Scored, Trusting, AloneAtIt
    <3> QED
      BY <3>1, DayScored
  <2> QED
    BY <2>1, ScoredNext DEF CommunityNext, communityVars, ScoreSide
<1>3. ScoreSide => ScoreExplained
  BY ScoreAtRest DEF ScoreSide, ScoreExplained
<1> QED
  BY <1>1, <1>2, <1>3, PTL DEF CommunitySpec

-----------------------------------------------------------------------------
(* The preferences of a user.                                              *)

Body == Changes \cup {Preferences!NoChange}
PreferenceRequest == [body : Body, left : SUBSET Preferences!Parts, got : Preferences!Preference]

PreferencesTyped ==
    /\ world \in PreferenceWorlds
    /\ table \in Preferences!Preference
    /\ entry \in [prefs : Preferences!Preference, ttl : 1..Ttl] \cup {NoEntry}
    /\ pc \in [Worker -> {"idle", "get", "read", "fill", "upsert", "invalidate"}]
    /\ req \in [Worker -> PreferenceRequest]
    /\ quiet \in 0..Ttl + 1

(* Time passes only between requests: so what a request has read is what   *)
(* is stored, or the tables were written in this very tick; and an entry   *)
(* that is not what is stored is older than the last write.                *)
OldOrTrue ==
    /\ \A w \in Worker :
         /\ pc[w] = "read" =>
              quiet = 0 \/ \A f \in Preferences!Parts \ req[w].left : req[w].got[f] = table[f]
         /\ pc[w] = "fill" => quiet = 0 \/ req[w].got = table
    /\ entry # NoEntry => entry.prefs = table \/ quiet + entry.ttl <= Ttl

(* Where requests come one at a time and only saving writes the tables,    *)
(* the entry is wrong only between a save and its removal of the entry.    *)
OneSaves ==
    world = {} =>
      /\ \A v, w \in Worker : pc[v] # "idle" /\ pc[w] # "idle" => v = w
      /\ \A w \in Worker :
           /\ pc[w] = "read" => \A f \in Preferences!Parts \ req[w].left :
                                   req[w].got[f] = table[f]
           /\ pc[w] = "fill" => req[w].got = table
      /\ entry # NoEntry => entry.prefs = table \/ \E w \in Worker : pc[w] = "invalidate"

Preferred == PreferencesTyped /\ OldOrTrue /\ OneSaves

LEMMA PreferenceFacts ==
    /\ Ttl \in Nat \ {0}
    /\ Preferences!Default \in Preferences!Preference
    /\ \A b \in Changes : DOMAIN b \subseteq Preferences!Parts
    /\ \A b \in Changes : \A f \in DOMAIN b : b[f] \in Preferences!Values(f)
<1>1. /\ Ttl \in Nat \ {0} /\ Theme # {}
      /\ \A b \in Changes : DOMAIN b \subseteq Preferences!Parts
      /\ \A b \in Changes : \A f \in DOMAIN b : b[f] \in Preferences!Values(f)
  BY CommunityConstants DEF Preferences!PreferenceConstants
<1>2. (CHOOSE t \in Theme : TRUE) \in Theme
  BY <1>1
<1> QED
  BY <1>1, <1>2 DEF Preferences!Default, Preferences!Preference

(* A preference is what it says of each part.                              *)
LEMMA PartsOf ==
    /\ \A a \in Preferences!Preference :
         /\ \A f \in Preferences!Parts : a[f] \in Preferences!Values(f)
         /\ a = [f \in Preferences!Parts |-> a[f]]
         /\ \A f \in Preferences!Parts : \A v \in Preferences!Values(f) :
              [a EXCEPT ![f] = v] \in Preferences!Preference
    /\ \A a, b \in Preferences!Preference :
         (\A f \in Preferences!Parts : a[f] = b[f]) => a = b
    /\ \A a : (/\ DOMAIN a = Preferences!Parts /\ a = [f \in DOMAIN a |-> a[f]]
               /\ \A f \in Preferences!Parts : a[f] \in Preferences!Values(f))
               => a \in Preferences!Preference
  BY DEF Preferences!Parts, Preferences!Preference, Preferences!Values

LEMMA PreferencesInitially ==
    ASSUME Preferences!Init
    PROVE  Preferred
<1>1. Preferences!NoRequest \in PreferenceRequest
  BY PreferenceFacts DEF Preferences!NoRequest, PreferenceRequest, Body
<1> QED
  BY <1>1, PreferenceFacts
  DEF Preferences!Init, Preferred, PreferencesTyped, OldOrTrue, OneSaves

(* A step of w: its place and its request change, nobody else's.           *)
LEMMA RequestMoved ==
    ASSUME PreferencesTyped, NEW w \in Worker,
           NEW label \in {"idle", "get", "read", "fill", "upsert", "invalidate"},
           NEW r \in PreferenceRequest,
           pc' = [pc EXCEPT ![w] = label], req' = [req EXCEPT ![w] = r]
    PROVE  /\ pc' \in [Worker -> {"idle", "get", "read", "fill", "upsert", "invalidate"}]
           /\ req' \in [Worker -> PreferenceRequest]
           /\ pc'[w] = label /\ req'[w] = r
           /\ \A v \in Worker \ {w} : pc'[v] = pc[v] /\ req'[v] = req[v]
  BY DEF PreferencesTyped

(* A step of w that neither writes nor looks at the tables: the start of a *)
(* request, the look at the entry, the removal of the entry.               *)
LEMMA RequestGoesOn ==
    ASSUME Preferred, NEW w \in Worker,
           NEW label \in {"idle", "get", "read", "upsert"}, NEW r \in PreferenceRequest,
           pc' = [pc EXCEPT ![w] = label], req' = [req EXCEPT ![w] = r],
           UNCHANGED <<world, table, quiet>>,
           pc[w] # "idle" \/ "overlap" \in world \/ \A v \in Worker : pc[v] = "idle",
           label = "read" => r.left = Preferences!Parts,
           \/ UNCHANGED entry /\ (pc[w] # "invalidate" \/ world # {})
           \/ entry' = NoEntry
    PROVE  Preferred'
<1>0. PreferencesTyped /\ OldOrTrue /\ OneSaves
  BY DEF Preferred
<1>1. /\ pc' \in [Worker -> {"idle", "get", "read", "fill", "upsert", "invalidate"}]
      /\ req' \in [Worker -> PreferenceRequest]
      /\ pc'[w] = label /\ req'[w] = r
      /\ \A v \in Worker \ {w} : pc'[v] = pc[v] /\ req'[v] = req[v]
  BY <1>0, RequestMoved
<1>2. PreferencesTyped'
  BY <1>0, <1>1 DEF PreferencesTyped
<1>3. \A v \in Worker : /\ pc'[v] = "fill" => pc[v] = "fill" /\ req'[v] = req[v]
                        /\ pc'[v] = "read" => \/ pc[v] = "read" /\ req'[v] = req[v]
                                              \/ req'[v].left = Preferences!Parts
  BY <1>1
<1>4. OldOrTrue'
  BY <1>0, <1>3 DEF OldOrTrue
<1>5. ASSUME world = {}
      PROVE  OneSaves'
  <2>1. \A v \in Worker : pc'[v] # "idle" => v = w
    BY <1>0, <1>1, <1>5 DEF OneSaves
  <2>2. entry' # NoEntry => entry'.prefs = table' \/ \E v \in Worker : pc'[v] = "invalidate"
    BY <1>0, <1>1, <1>5 DEF OneSaves
  <2> QED
    BY <1>0, <1>3, <1>5, <2>1, <2>2 DEF OneSaves
<1>6. OneSaves'
  BY <1>5 DEF OneSaves
<1> QED
  BY <1>2, <1>4, <1>6 DEF Preferred

LEMMA PreferencesBegin ==
    ASSUME Preferred, NEW w \in Worker,
           Preferences!Render(w) \/ \E body \in Changes : Preferences!Save(w, body)
    PROVE  Preferred'
<1>0. /\ PreferencesTyped /\ req[w] \in PreferenceRequest /\ req = [req EXCEPT ![w] = req[w]]
      /\ "overlap" \in world \/ \A v \in Worker : pc[v] = "idle"
  BY DEF Preferred, PreferencesTyped, Preferences!Render, Preferences!Save, Preferences!Free,
     Preferences!Idle
<1>1. CASE Preferences!Render(w)
  <2>1. /\ pc[w] = "idle" /\ pc' = [pc EXCEPT ![w] = "get"]
        /\ UNCHANGED <<world, table, entry, req, quiet>>
    BY <1>1 DEF Preferences!Render, Preferences!Free
  <2> QED
    BY <1>0, <2>1, RequestGoesOn
<1>2. ASSUME NEW body \in Changes, Preferences!Save(w, body)
      PROVE  Preferred'
  <2> DEFINE r == [req[w] EXCEPT !.body = body]
  <2>1. /\ pc[w] = "idle" /\ pc' = [pc EXCEPT ![w] = "get"]
        /\ req' = [req EXCEPT ![w] = r] /\ UNCHANGED <<world, table, entry, quiet>>
    BY <1>2 DEF Preferences!Save, Preferences!Free
  <2>2. r \in PreferenceRequest
    BY <1>0 DEF PreferenceRequest, Body
  <2> HIDE DEF r
  <2> QED
    BY <1>0, <2>1, <2>2, RequestGoesOn
<1> QED
  BY <1>1, <1>2

LEMMA PreferencesLookedUp ==
    ASSUME Preferred, NEW w \in Worker, Preferences!CacheGet(w)
    PROVE  Preferred'
<1>0. /\ PreferencesTyped /\ req[w] \in PreferenceRequest
      /\ Preferences!NoRequest \in PreferenceRequest
  BY PreferenceFacts
  DEF Preferred, PreferencesTyped, Preferences!NoRequest, PreferenceRequest, Body
<1>1. /\ pc[w] = "get" /\ UNCHANGED <<world, table, entry, quiet>>
      /\ \/ /\ pc' = [pc EXCEPT ![w] = "read"]
            /\ req' = [req EXCEPT ![w] = [req[w] EXCEPT !.left = Preferences!Parts]]
         \/ /\ entry # NoEntry /\ pc' = [pc EXCEPT ![w] = "upsert"]
            /\ req' = [req EXCEPT ![w] = [req[w] EXCEPT !.got = entry.prefs]]
         \/ /\ pc' = [pc EXCEPT ![w] = "idle"]
            /\ req' = [req EXCEPT ![w] = Preferences!NoRequest]
  BY DEF Preferences!CacheGet, Preferences!Finish
<1>2. /\ [req[w] EXCEPT !.left = Preferences!Parts] \in PreferenceRequest
      /\ [req[w] EXCEPT !.left = Preferences!Parts].left = Preferences!Parts
      /\ entry # NoEntry => [req[w] EXCEPT !.got = entry.prefs] \in PreferenceRequest
  BY <1>0 DEF PreferencesTyped, PreferenceRequest
<1> QED
  BY <1>0, <1>1, <1>2, RequestGoesOn

LEMMA PartRead ==
    ASSUME Preferred, NEW w \in Worker, NEW f \in Preferences!Parts, Preferences!ReadPart(w, f)
    PROVE  Preferred'
<1> DEFINE label == IF req[w].left = {f} THEN "fill" ELSE "read"
           got == [req[w].got EXCEPT ![f] = table[f]]
           r == [body |-> req[w].body, left |-> req[w].left \ {f}, got |-> got]
<1>0. PreferencesTyped /\ OldOrTrue /\ OneSaves /\ req[w] \in PreferenceRequest
  BY DEF Preferred, PreferencesTyped
<1>1. /\ pc[w] = "read" /\ f \in req[w].left /\ UNCHANGED <<world, table, entry, quiet>>
      /\ pc' = [pc EXCEPT ![w] = label]
  BY <1>0 DEF Preferences!ReadPart, PreferencesTyped
<1>2. req' = [req EXCEPT ![w] = r]
  BY <1>0 DEF Preferences!ReadPart, PreferenceRequest, PreferencesTyped
<1>3. got \in Preferences!Preference
  BY <1>0, PartsOf DEF PreferencesTyped, PreferenceRequest
<1>4. /\ r \in PreferenceRequest
      /\ label \in {"idle", "get", "read", "fill", "upsert", "invalidate"}
  BY <1>0, <1>3 DEF PreferenceRequest
<1>5. ASSUME \A h \in Preferences!Parts \ req[w].left : req[w].got[h] = table[h]
      PROVE  \A h \in Preferences!Parts \ (req[w].left \ {f}) : got[h] = table[h]
  <2>1. req[w].got \in Preferences!Preference
    BY <1>0 DEF PreferenceRequest
  <2>2. \A h \in Preferences!Parts : got[h] = IF h = f THEN table[f] ELSE req[w].got[h]
    BY <2>1, PartsOf
  <2> QED
    BY <1>5, <2>2
<1>6. label = "read" \/ (label = "fill" /\ req[w].left = {f})
  OBVIOUS
<1>7. r.left = req[w].left \ {f} /\ r.got = got
  OBVIOUS
<1> HIDE DEF label, got, r
<1>8. /\ pc' \in [Worker -> {"idle", "get", "read", "fill", "upsert", "invalidate"}]
      /\ req' \in [Worker -> PreferenceRequest]
      /\ pc'[w] = label /\ req'[w] = r
      /\ \A v \in Worker \ {w} : pc'[v] = pc[v] /\ req'[v] = req[v]
  BY <1>0, <1>1, <1>2, <1>4, RequestMoved
<1>9. PreferencesTyped'
  BY <1>0, <1>1, <1>8 DEF PreferencesTyped
<1>10. ASSUME \A h \in Preferences!Parts \ req[w].left : req[w].got[h] = table[h]
       PROVE  /\ label = "read" => \A h \in Preferences!Parts \ r.left : r.got[h] = table[h]
              /\ label = "fill" => r.got = table
  <2>1. \A h \in Preferences!Parts \ r.left : r.got[h] = table[h]
    BY <1>5, <1>7, <1>10
  <2>2. label = "fill" => \A h \in Preferences!Parts : r.got[h] = table[h]
    BY <1>6, <1>7, <2>1
  <2> QED
    BY <1>0, <1>3, <1>7, <2>1, <2>2, PartsOf DEF PreferencesTyped
<1>11. OldOrTrue'
  BY <1>0, <1>1, <1>6, <1>8, <1>10 DEF OldOrTrue
<1>12. ASSUME world = {}
       PROVE  OneSaves'
  <2>1. \A v \in Worker : pc[v] # "idle" => v = w
    BY <1>0, <1>1, <1>12 DEF OneSaves
  <2>2. \A v \in Worker : pc'[v] # "idle" => v = w
    BY <1>8, <2>1
  <2>3. \A h \in Preferences!Parts \ req[w].left : req[w].got[h] = table[h]
    BY <1>0, <1>1, <1>12 DEF OneSaves
  <2>4. entry # NoEntry => entry.prefs = table
    BY <1>0, <1>1, <1>12, <2>1 DEF OneSaves
  <2> QED
    BY <1>1, <1>8, <1>10, <2>2, <2>3, <2>4 DEF OneSaves
<1>13. OneSaves'
  BY <1>1, <1>12 DEF OneSaves
<1> QED
  BY <1>9, <1>11, <1>13 DEF Preferred

LEMMA EntryFilled ==
    ASSUME Preferred, NEW w \in Worker, Preferences!Fill(w)
    PROVE  Preferred'
<1>0. /\ PreferencesTyped /\ OldOrTrue /\ OneSaves /\ req[w] \in PreferenceRequest
      /\ req = [req EXCEPT ![w] = req[w]] /\ Preferences!NoRequest \in PreferenceRequest
  BY PreferenceFacts
  DEF Preferred, PreferencesTyped, Preferences!NoRequest, PreferenceRequest, Body
<1>1. /\ pc[w] = "fill" /\ UNCHANGED <<world, table, quiet>>
      /\ \/ entry' = [prefs |-> req[w].got, ttl |-> Ttl]
         \/ world # {} /\ entry' = entry
  BY DEF Preferences!Fill
<1>2. PICK label \in {"idle", "upsert"}, r \in PreferenceRequest :
        pc' = [pc EXCEPT ![w] = label] /\ req' = [req EXCEPT ![w] = r]
  BY <1>0 DEF Preferences!Fill, Preferences!Goto, Preferences!Finish
<1>3. /\ pc' \in [Worker -> {"idle", "get", "read", "fill", "upsert", "invalidate"}]
      /\ req' \in [Worker -> PreferenceRequest]
      /\ pc'[w] = label /\ req'[w] = r
      /\ \A v \in Worker \ {w} : pc'[v] = pc[v] /\ req'[v] = req[v]
  BY <1>0, <1>2, RequestMoved
<1>4. PreferencesTyped'
  <2>1. [prefs |-> req[w].got, ttl |-> Ttl]
          \in [prefs : Preferences!Preference, ttl : 1..Ttl]
    BY <1>0, PreferenceFacts DEF PreferenceRequest
  <2> QED
    BY <1>0, <1>1, <1>3, <2>1 DEF PreferencesTyped
<1>5. OldOrTrue'
  <2>1. entry' # NoEntry => entry'.prefs = table' \/ quiet' + entry'.ttl <= Ttl
    BY <1>0, <1>1, PreferenceFacts DEF OldOrTrue
  <2>2. \A v \in Worker : /\ pc'[v] = "fill" => pc[v] = "fill" /\ req'[v] = req[v]
                          /\ pc'[v] = "read" => pc[v] = "read" /\ req'[v] = req[v]
    BY <1>3
  <2> QED
    BY <1>0, <1>1, <2>1, <2>2 DEF OldOrTrue
<1>6. ASSUME world = {}
      PROVE  OneSaves'
  <2>1. \A v \in Worker : pc'[v] # "idle" => v = w
    BY <1>0, <1>1, <1>3, <1>6 DEF OneSaves
  <2>2. entry' # NoEntry => entry'.prefs = table'
    BY <1>0, <1>1, <1>6 DEF OneSaves
  <2> QED
    BY <1>3, <2>1, <2>2 DEF OneSaves
<1>7. OneSaves'
  BY <1>1, <1>6 DEF OneSaves
<1> QED
  BY <1>4, <1>5, <1>7 DEF Preferred

LEMMA PreferencesSaved ==
    ASSUME Preferred, NEW w \in Worker, Preferences!Upsert(w)
    PROVE  Preferred'
<1>0. /\ PreferencesTyped /\ OldOrTrue /\ OneSaves /\ req[w] \in PreferenceRequest
      /\ Preferences!NoRequest \in PreferenceRequest
  BY PreferenceFacts
  DEF Preferred, PreferencesTyped, Preferences!NoRequest, PreferenceRequest, Body
<1>1. /\ pc[w] = "upsert" /\ UNCHANGED <<world, entry>> /\ quiet' = 0
      /\ table' = Preferences!Merged(w)
      /\ pc' = [pc EXCEPT ![w] = "invalidate"]
      /\ req' = [req EXCEPT ![w] = Preferences!NoRequest]
  BY DEF Preferences!Upsert
<1>2. Preferences!Merged(w) \in Preferences!Preference
  <2>1. /\ DOMAIN Preferences!Merged(w) = Preferences!Parts
        /\ Preferences!Merged(w) = [f \in DOMAIN Preferences!Merged(w) |->
                                      Preferences!Merged(w)[f]]
        /\ \A f \in Preferences!Parts : Preferences!Merged(w)[f] =
             IF f \in DOMAIN req[w].body THEN req[w].body[f] ELSE req[w].got[f]
    BY DEF Preferences!Merged
  <2>2. ASSUME NEW f \in Preferences!Parts
        PROVE  /\ req[w].got[f] \in Preferences!Values(f)
               /\ f \in DOMAIN req[w].body => req[w].body[f] \in Preferences!Values(f)
    <3>1. req[w].got \in Preferences!Preference /\ req[w].body \in Body
      BY <1>0 DEF PreferenceRequest
    <3>2. DOMAIN Preferences!NoChange = {}
      BY DEF Preferences!NoChange
    <3> QED
      BY <3>1, <3>2, PartsOf, PreferenceFacts DEF Body
  <2>3. \A f \in Preferences!Parts : Preferences!Merged(w)[f] \in Preferences!Values(f)
    BY <2>1, <2>2
  <2> QED
    BY <2>1, <2>3, PartsOf
<1>3. /\ pc' \in [Worker -> {"idle", "get", "read", "fill", "upsert", "invalidate"}]
      /\ req' \in [Worker -> PreferenceRequest]
      /\ pc'[w] = "invalidate"
      /\ \A v \in Worker \ {w} : pc'[v] = pc[v] /\ req'[v] = req[v]
  BY <1>0, <1>1, RequestMoved
<1>4. PreferencesTyped'
  BY <1>0, <1>1, <1>2, <1>3, PreferenceFacts DEF PreferencesTyped
<1>5. OldOrTrue'
  BY <1>0, <1>1, PreferenceFacts DEF OldOrTrue, PreferencesTyped
<1>6. ASSUME world = {}
      PROVE  OneSaves'
  <2>1. \A v \in Worker : pc'[v] # "idle" => v = w
    BY <1>0, <1>1, <1>3, <1>6 DEF OneSaves
  <2> QED
    BY <1>3, <2>1 DEF OneSaves
<1>7. OneSaves'
  BY <1>1, <1>6 DEF OneSaves
<1> QED
  BY <1>4, <1>5, <1>7 DEF Preferred

LEMMA EntryDropped ==
    ASSUME Preferred, NEW w \in Worker, Preferences!Invalidate(w)
    PROVE  Preferred'
<1>0. PreferencesTyped /\ Preferences!NoRequest \in PreferenceRequest
  BY PreferenceFacts DEF Preferred, Preferences!NoRequest, PreferenceRequest, Body
<1>1. /\ pc[w] = "invalidate" /\ UNCHANGED <<world, table, quiet>>
      /\ pc' = [pc EXCEPT ![w] = "idle"] /\ req' = [req EXCEPT ![w] = Preferences!NoRequest]
      /\ \/ entry' = NoEntry
         \/ world # {} /\ entry' = entry
  BY DEF Preferences!Invalidate, Preferences!Finish
<1> QED
  BY <1>0, <1>1, RequestGoesOn

(* Watching and muting go round the entry.                                 *)
LEMMA Marked ==
    ASSUME Preferred, NEW f \in Preferences!Marks, NEW c \in Watchable,
           Preferences!Mark(f, c) \/ Preferences!Unmark(f, c)
    PROVE  Preferred'
<1>0. PreferencesTyped /\ OldOrTrue /\ OneSaves
  BY DEF Preferred
<1>1. PICK cats \in SUBSET Watchable : table' = [table EXCEPT ![f] = cats]
  <2>1. f \in Preferences!Parts /\ table[f] \in SUBSET Watchable
    BY <1>0, PartsOf DEF PreferencesTyped, Preferences!Marks, Preferences!Parts,
       Preferences!Values
  <2>2. \/ table' = [table EXCEPT ![f] = table[f] \cup {c}]
        \/ table' = [table EXCEPT ![f] = table[f] \ {c}]
    BY <1>0, <2>1 DEF Preferences!Mark, Preferences!Unmark
  <2> QED
    BY <2>1, <2>2
<1>2. world # {} /\ quiet' = 0 /\ UNCHANGED <<world, entry, pc, req>>
  BY DEF Preferences!Mark, Preferences!Unmark
<1>3. table' \in Preferences!Preference
  BY <1>0, <1>1, PartsOf
  DEF PreferencesTyped, Preferences!Marks, Preferences!Parts, Preferences!Values
<1>4. PreferencesTyped'
  BY <1>0, <1>2, <1>3, PreferenceFacts DEF PreferencesTyped
<1>5. OldOrTrue'
  BY <1>0, <1>2, PreferenceFacts DEF OldOrTrue, PreferencesTyped
<1>6. OneSaves'
  BY <1>2 DEF OneSaves
<1> QED
  BY <1>4, <1>5, <1>6 DEF Preferred

LEMMA PreferencesAge ==
    ASSUME Preferred, Preferences!Tick
    PROVE  Preferred'
<1>0. PreferencesTyped /\ OldOrTrue /\ OneSaves
  BY DEF Preferred
<1>1. /\ \A w \in Worker : pc[w] = "idle"
      /\ quiet' = IF quiet > Ttl THEN quiet ELSE quiet + 1
      /\ entry' = IF entry = NoEntry \/ entry.ttl = 1 THEN NoEntry
                  ELSE [entry EXCEPT !.ttl = entry.ttl - 1]
      /\ UNCHANGED <<world, table, pc, req>>
  BY DEF Preferences!Tick, Preferences!Idle
<1>2. quiet' \in 0..Ttl + 1 /\ (quiet' = quiet + 1 \/ quiet' = quiet)
  BY <1>0, <1>1, PreferenceFacts DEF PreferencesTyped
<1>3. CASE entry = NoEntry \/ entry.ttl = 1
  BY <1>0, <1>1, <1>2, <1>3 DEF Preferred, PreferencesTyped, OldOrTrue, OneSaves
<1>4. CASE entry # NoEntry /\ entry.ttl # 1
  <2>1. /\ entry \in [prefs : Preferences!Preference, ttl : 1..Ttl]
        /\ entry' = [entry EXCEPT !.ttl = entry.ttl - 1]
    BY <1>0, <1>1, <1>4 DEF PreferencesTyped
  <2>2. /\ entry' \in [prefs : Preferences!Preference, ttl : 1..Ttl]
        /\ entry'.prefs = entry.prefs /\ entry'.ttl = entry.ttl - 1
    BY <1>4, <2>1, PreferenceFacts
  <2>3. entry'.prefs = table' \/ quiet' + entry'.ttl <= Ttl
    BY <1>0, <1>1, <1>2, <1>4, <2>1, <2>2, PreferenceFacts DEF OldOrTrue, PreferencesTyped
  <2>4. PreferencesTyped'
    BY <1>0, <1>1, <1>2, <2>2 DEF PreferencesTyped
  <2>5. OldOrTrue'
    BY <1>1, <2>3 DEF OldOrTrue
  <2>6. OneSaves'
    BY <1>0, <1>1, <1>4, <2>2 DEF OneSaves
  <2> QED
    BY <2>4, <2>5, <2>6 DEF Preferred
<1> QED
  BY <1>3, <1>4

LEMMA PreferencesNext ==
    ASSUME Preferred, Preferences!Next
    PROVE  Preferred'
  BY PreferencesBegin, PreferencesLookedUp, PartRead, EntryFilled, PreferencesSaved,
     EntryDropped, Marked, PreferencesAge DEF Preferences!Next

LEMMA PreferencesTrue ==
    ASSUME Preferred
    PROVE  Preferences!TypeOK /\ Preferences!PreferencesSettle
<1>1. Preferences!TypeOK
  BY DEF Preferred, PreferencesTyped, Preferences!TypeOK, PreferenceRequest, Body
<1>2. ASSUME \A w \in Worker : pc[w] = "idle", entry # NoEntry, world = {} \/ quiet >= Ttl
      PROVE  entry.prefs = table
  <2>1. CASE world = {}
    BY <1>2, <2>1 DEF Preferred, OneSaves
  <2>2. CASE quiet >= Ttl
    BY <1>2, <2>2, PreferenceFacts DEF Preferred, PreferencesTyped, OldOrTrue
  <2> QED
    BY <1>2, <2>1, <2>2
<1> QED
  BY <1>1, <1>2 DEF Preferences!PreferencesSettle, Preferences!Idle

-----------------------------------------------------------------------------
(* The lists of threads.                                                   *)

LEMMA ListingFacts ==
    /\ ListWorlds \subseteq Listings!ListWorld /\ Top \subseteq Category
    /\ Access \in [Reader -> {"guest", "new", "basic", "staff"}]
    /\ CategoryTtl \in Nat \ {0} /\ CountTtl \in Nat \ {0}
    /\ IsFiniteSet(Shown) /\ "guest" \notin Category
  BY CommunityConstants DEF Listings!ListingConstants, Listings!IsFiniteSet, IsFiniteSet

LEMMA CountedRows ==
    ASSUME NEW S \in SUBSET Shown
    PROVE  Listings!Cardinality(S) \in Nat
<1>1. Listings!Cardinality(S) = Cardinality(S)
  BY DEF Listings!Cardinality, Cardinality
<1>2. IsFiniteSet(S)
  BY ListingFacts, FS_Subset
<1> QED
  BY <1>1, <1>2, FS_CardinalityType

Policies == [Category -> Listings!Policy]
CachedTotal == [total : Nat, ttl : 1..CountTtl]
Listing == [kind : Listings!Kind, reader : Reader, sort : Listings!Sort,
            of : SUBSET Category, seen : SUBSET Category,
            known : Policies \cup CachedTotal \cup {NoEntry},
            rows : SUBSET Shown, places : SUBSET Category, total : Nat]
ListLabels == {"idle", "categories", "list_all", "fill", "marks", "count", "query", "put",
               "shown"}

TablesTyped ==
    /\ list_world \in ListWorlds
    /\ policy \in Policies
    /\ thread \in [Shown -> Listings!Threads]
    /\ watched \in [Reader -> SUBSET Category] /\ muted \in [Reader -> SUBSET Category]
    /\ still \in 0..Listings!Longest
    /\ since \in [Category -> [Listings!Policy -> 0..CategoryTtl]]
    (* A guest has no marks, and what a category has now it has had since. *)
    /\ \A r \in Reader : Access[r] = "guest" => watched[r] = {} /\ muted[r] = {}
    /\ \A c \in Category : since[c][policy[c]] = 0

CachesTyped ==
    /\ categories \in [policies : Policies, ttl : 1..CategoryTtl] \cup {NoEntry}
    /\ totals \in [Listings!CountKey -> CachedTotal \cup {NoEntry}]

(* What the total under a key should be.                                   *)
Public == {c \in Category : policy[c] = "public"}
KeyRows(k) == Listings!Live \cap Listings!In(IF k[1] = "guest" THEN Public ELSE {k[1]})
                            \cap Listings!Sorted(k[2])
TrueTotal(k) == Listings!Cardinality(KeyRows(k))

(* An entry that is not what the tables say is older than the last write,  *)
(* a total older than the last write or than the categories it was taken   *)
(* over; and the policies of an entry are not older than the entry.        *)
CachesAge ==
    /\ categories # NoEntry =>
         /\ categories.policies = policy \/ still + categories.ttl <= CategoryTtl
         /\ \A c \in Category :
              since[c][categories.policies[c]] + categories.ttl <= CategoryTtl
    /\ \A k \in Listings!CountKey : totals[k] # NoEntry =>
         totals[k].total = TrueTotal(k) \/ still + totals[k].ttl <= Listings!Longest

(* What a list holds of what it has read.                                  *)
Within(r, cs) ==
    \A c \in cs : \E p \in Listings!Policy :
      Listings!CanView(r, p) /\ since[c][p] < CategoryTtl

SeenWell(w) ==
    /\ list[w].seen = Listings!Visible(list[w].reader, policy) \/ still < CategoryTtl
    /\ Within(list[w].reader, list[w].seen)

OfCategory(w) ==
    /\ list[w].kind = "category"
    /\ \E c \in Category : list[w].of = {c}
    /\ Within(list[w].reader, list[w].of)
    /\ list[w].of \subseteq Listings!Visible(list[w].reader, policy) \/ still = 0

OfGuest(w) ==
    /\ list[w].kind = "feed" /\ Access[list[w].reader] = "guest"
    /\ SeenWell(w)

OfMember(w) ==
    /\ list[w].kind = "feed" /\ Access[list[w].reader] # "guest"
    /\ SeenWell(w) /\ list[w].of \subseteq list[w].seen
    /\ list[w].of = Listings!FeedCategories(list[w].reader, list[w].seen) \/ still = 0

KeyOf(q) ==
    <<IF q.kind = "feed" THEN "guest" ELSE CHOOSE c \in q.of : TRUE, q.sort>>

KnownTotal(w) ==
    list[w].known # NoEntry =>
      /\ list[w].known \in CachedTotal
      /\ list[w].known.total = TrueTotal(Listings!Key(w)) \/ still < Listings!Longest

Chosen(w) ==
    \/ OfCategory(w) /\ KnownTotal(w)
    \/ OfGuest(w) /\ list[w].of = list[w].seen /\ KnownTotal(w)
    \/ OfMember(w) /\ list[w].known = NoEntry
    \/ list[w].kind \in {"tag", "author", "mod", "index"} /\ SeenWell(w)

Answered(w) ==
    /\ (list[w].kind = "tag" => Listings!Visible(list[w].reader, policy) # {})
         /\ still >= CategoryTtl => list[w].rows = Listings!Entitled(w)
    /\ list[w].kind # "index" =>
         list[w].total = Listings!Cardinality(list[w].rows) \/ still < Listings!Longest
    /\ list[w].kind # "mod" /\ (list[w].kind = "tag" => list[w].seen # {}) =>
         Within(list[w].reader, list[w].places)

ToBePut(w) ==
    /\ \/ list[w].kind = "category" /\ \E c \in Category : list[w].of = {c}
       \/ list[w].kind = "feed"
    /\ list[w].total = TrueTotal(Listings!Key(w)) \/ still < CategoryTtl

Remembered(w) ==
    /\ list[w].known \in Policies
    /\ list[w].seen = Listings!Visible(list[w].reader, list[w].known)
    /\ list[w].known = policy \/ still = 0
    /\ \A c \in Category : since[c][list[w].known[c]] = 0

AtWork(w) ==
    /\ list_pc[w] = "idle" => list[w] = Listings!Nothing
    /\ list_pc[w] # "idle" =>
         /\ list[w] \in Listing /\ list[w].kind # "none"
         /\ list[w].kind \in {"author", "mod", "index"} => list[w].sort = "latest"
    /\ list_pc[w] = "categories" => list[w].kind \in {"feed", "tag", "author", "mod"}
    /\ list_pc[w] = "list_all" => list[w].kind \in {"feed", "tag", "author", "mod", "index"}
    /\ list_pc[w] = "fill" =>
         list[w].kind \in {"feed", "tag", "author", "mod"} /\ Remembered(w)
    /\ list_pc[w] \in {"categories", "marks"} => list[w].known = NoEntry
    /\ list_pc[w] = "marks" =>
         /\ list[w].kind = "feed" /\ Access[list[w].reader] # "guest"
         /\ SeenWell(w)
    /\ list_pc[w] = "count" => OfCategory(w) \/ OfGuest(w)
    /\ list_pc[w] = "query" => Chosen(w)
    /\ list_pc[w] = "put" => ToBePut(w) /\ Answered(w)
    /\ list_pc[w] = "shown" => Answered(w)

ListsTyped == list_pc \in [Lister -> ListLabels] /\ list = [w \in Lister |-> list[w]]

Listed == TablesTyped /\ CachesTyped /\ CachesAge /\ ListsTyped /\ \A w \in Lister : AtWork(w)

LEMMA ListingsInitially ==
    ASSUME Listings!Init
    PROVE  Listed
<1>1. Listings!Longest \in Nat \ {0} /\ Listings!Longest >= CategoryTtl
  BY ListingFacts DEF Listings!Longest
<1>2. policy \in Policies
  BY DEF Listings!Init, Policies, Listings!Policy
<1>3. thread \in [Shown -> Listings!Threads]
  BY DEF Listings!Init, Listings!Threads, Listings!Status
<1>4. /\ since \in [Category -> [Listings!Policy -> 0..CategoryTtl]]
      /\ \A c \in Category : since[c][policy[c]] = 0
  BY <1>2, ListingFacts DEF Listings!Init, Policies
<1>5. TablesTyped
  BY <1>1, <1>2, <1>3, <1>4 DEF Listings!Init, TablesTyped
<1>6. CachesTyped /\ CachesAge
  BY DEF Listings!Init, CachesTyped, CachesAge
<1>7. ListsTyped /\ \A w \in Lister : AtWork(w)
  BY DEF Listings!Init, ListsTyped, ListLabels, AtWork
<1> QED
  BY <1>5, <1>6, <1>7 DEF Listed

(* A write takes effect at once on what is entitled to be listed, and      *)
(* leaves all that was read before behind it: still is zero.               *)
LEMMA TablesWritten ==
    ASSUME Listed, TablesTyped', still' = 0,
           UNCHANGED <<categories, totals, list_pc, list>>,
           \A c \in Category, p \in Listings!Policy : since'[c][p] <= since[c][p]
    PROVE  Listed'
<1>0. TablesTyped /\ CachesTyped /\ CachesAge /\ ListsTyped /\ \A w \in Lister : AtWork(w)
  BY DEF Listed
<1>1. /\ 0 < CategoryTtl /\ 0 < Listings!Longest /\ CategoryTtl \in Nat /\ CountTtl \in Nat
      /\ CountTtl <= Listings!Longest /\ Listings!Longest \in Nat
      /\ CategoryTtl <= Listings!Longest
  BY ListingFacts DEF Listings!Longest
<1>2. CachesTyped' /\ ListsTyped'
  BY <1>0 DEF CachesTyped, ListsTyped
<1>3. \A c \in Category, p \in Listings!Policy :
        /\ since[c][p] \in 0..CategoryTtl /\ since'[c][p] \in 0..CategoryTtl
        /\ since[c][p] = 0 => since'[c][p] = 0
        /\ since[c][p] < CategoryTtl => since'[c][p] < CategoryTtl
  <2>1. \A c \in Category, p \in Listings!Policy :
          since[c][p] \in 0..CategoryTtl /\ since'[c][p] \in 0..CategoryTtl
    BY <1>0 DEF TablesTyped
  <2> QED
    BY <2>1, <1>1
<1>4. CachesAge'
  <2>1. ASSUME categories # NoEntry
        PROVE  /\ still' + categories.ttl <= CategoryTtl
               /\ \A c \in Category :
                    since'[c][categories.policies[c]] + categories.ttl <= CategoryTtl
    <3>1. categories.ttl \in 1..CategoryTtl /\ categories.policies \in Policies
      BY <1>0, <2>1 DEF CachesTyped
    <3>2. \A c \in Category : categories.policies[c] \in Listings!Policy
      BY <3>1 DEF Policies
    <3>3. \A c \in Category : since[c][categories.policies[c]] + categories.ttl <= CategoryTtl
      BY <1>0, <2>1 DEF CachesAge
    <3> QED
      BY <1>1, <1>3, <3>1, <3>2, <3>3
  <2>2. ASSUME NEW k \in Listings!CountKey, totals[k] # NoEntry
        PROVE  still' + totals[k].ttl <= Listings!Longest
    <3>1. totals[k].ttl \in 1..CountTtl
      BY <1>0, <2>2 DEF CachesTyped, CachedTotal
    <3> QED
      BY <1>1, <3>1
  <2> QED
    BY <2>1, <2>2 DEF CachesAge, Listings!Longest
<1>5. ASSUME NEW r, NEW cs \in SUBSET Category, Within(r, cs)
      PROVE  Within(r, cs)'
  BY <1>3, <1>5 DEF Within
<1>6. ASSUME NEW w \in Lister
      PROVE  AtWork(w)'
  <2>1. AtWork(w) /\ list'[w] = list[w] /\ list_pc'[w] = list_pc[w]
    BY <1>0
  <2>2. list_pc[w] # "idle" => /\ list[w].seen \in SUBSET Category
                               /\ list[w].of \in SUBSET Category
                               /\ list[w].places \in SUBSET Category
    BY <2>1 DEF AtWork, Listing
  <2>3. list_pc[w] # "idle" => (SeenWell(w) => SeenWell(w)')
    BY <1>1, <1>5, <2>1, <2>2 DEF SeenWell, Within
  <2>4. list_pc[w] # "idle" =>
          /\ OfCategory(w) => OfCategory(w)'
          /\ OfGuest(w) => OfGuest(w)'
          /\ OfMember(w) => OfMember(w)'
    BY <1>5, <2>1, <2>2, <2>3 DEF OfCategory, OfGuest, OfMember, Within
  <2>5. (KnownTotal(w) => KnownTotal(w)') /\ (ToBePut(w) => ToBePut(w)')
    BY <1>1, <2>1 DEF KnownTotal, ToBePut, Listings!Longest
  <2>6. list_pc[w] # "idle" => (Answered(w) => Answered(w)')
    BY <1>1, <1>5, <2>1, <2>2 DEF Answered, Within, Listings!Longest
  <2>7. list_pc[w] # "idle" => (Chosen(w) => Chosen(w)')
    BY <2>1, <2>3, <2>4, <2>5 DEF Chosen
  <2>8. list_pc[w] # "idle" => (Remembered(w) => Remembered(w)')
    BY <1>3, <2>1 DEF Remembered, Policies
  <2> QED
    BY <2>1, <2>3, <2>4, <2>5, <2>6, <2>7, <2>8 DEF AtWork
<1> QED
  BY <1>2, <1>4, <1>6 DEF Listed

LEMMA PolicySet ==
    ASSUME Listed, NEW c \in Category, NEW p \in Listings!Policy, Listings!SetPolicy(c, p)
    PROVE  Listed'
<1>0. TablesTyped
  BY DEF Listed
<1>1. /\ policy' = [policy EXCEPT ![c] = p] /\ still' = 0
      /\ since' = [since EXCEPT ![c] = [since[c] EXCEPT ![p] = 0]]
      /\ UNCHANGED <<list_world, thread, watched, muted, categories, totals, list_pc, list>>
  BY <1>0 DEF Listings!SetPolicy, Listings!Caches, TablesTyped
<1>2. \A d \in Category, x \in Listings!Policy :
        since'[d][x] = IF d = c /\ x = p THEN 0 ELSE since[d][x]
  BY <1>0, <1>1 DEF TablesTyped
<1>3. since' \in [Category -> [Listings!Policy -> 0..CategoryTtl]]
  <2>1. [since[c] EXCEPT ![p] = 0] \in [Listings!Policy -> 0..CategoryTtl]
    BY <1>0, ListingFacts DEF TablesTyped
  <2> QED
    BY <1>0, <1>1, <2>1 DEF TablesTyped
<1>4. policy' \in Policies /\ \A d \in Category : policy'[d] = IF d = c THEN p ELSE policy[d]
  BY <1>0, <1>1 DEF TablesTyped, Policies
<1>5. \A d \in Category : since'[d][policy'[d]] = 0
  BY <1>0, <1>2, <1>4 DEF TablesTyped, Policies
<1>6. still' \in 0..Listings!Longest
  BY <1>1, ListingFacts DEF Listings!Longest
<1>7. TablesTyped'
  BY <1>0, <1>1, <1>3, <1>4, <1>5, <1>6 DEF TablesTyped
<1>8. \A d \in Category, x \in Listings!Policy : since'[d][x] <= since[d][x]
  BY <1>0, <1>2, ListingFacts DEF TablesTyped
<1> QED
  BY <1>1, <1>7, <1>8, TablesWritten

LEMMA ThreadWritten ==
    ASSUME Listed, NEW t \in Shown, NEW row \in Listings!Threads, Listings!WriteThread(t, row)
    PROVE  Listed'
<1>0. TablesTyped
  BY DEF Listed
<1>1. /\ thread' = [thread EXCEPT ![t] = row] /\ still' = 0
      /\ UNCHANGED <<list_world, policy, watched, muted, since, categories, totals,
                     list_pc, list>>
  BY DEF Listings!WriteThread, Listings!Caches
<1>2. still' \in 0..Listings!Longest
  BY <1>1, ListingFacts DEF Listings!Longest
<1>3. TablesTyped'
  BY <1>0, <1>1, <1>2 DEF TablesTyped
<1>4. \A c \in Category, p \in Listings!Policy : since'[c][p] <= since[c][p]
  BY <1>0, <1>1, ListingFacts DEF TablesTyped
<1> QED
  BY <1>1, <1>3, <1>4, TablesWritten

LEMMA MarksWritten ==
    ASSUME Listed, NEW r \in Reader, NEW wanted \in SUBSET Category,
           NEW unwanted \in SUBSET Category, Listings!Mark(r, wanted, unwanted)
    PROVE  Listed'
<1>0. TablesTyped
  BY DEF Listed
<1>1. /\ watched' = [watched EXCEPT ![r] = wanted] /\ muted' = [muted EXCEPT ![r] = unwanted]
      /\ still' = 0 /\ Access[r] # "guest"
      /\ UNCHANGED <<list_world, policy, thread, since, categories, totals, list_pc, list>>
  BY DEF Listings!Mark, Listings!Caches
<1>2. still' \in 0..Listings!Longest
  BY <1>1, ListingFacts DEF Listings!Longest
<1>3. TablesTyped'
  BY <1>0, <1>1, <1>2 DEF TablesTyped
<1>4. \A c \in Category, p \in Listings!Policy : since'[c][p] <= since[c][p]
  BY <1>0, <1>1, ListingFacts DEF TablesTyped
<1> QED
  BY <1>1, <1>3, <1>4, TablesWritten

(* Time passes between the lists.                                          *)
LEMMA ListsAge ==
    ASSUME Listed, Listings!Tick
    PROVE  Listed'
<1>0. TablesTyped /\ CachesTyped /\ CachesAge /\ ListsTyped /\ \A w \in Lister : AtWork(w)
  BY DEF Listed
<1>1. /\ \A w \in Lister : list_pc[w] = "idle"
      /\ categories' = IF categories = NoEntry THEN NoEntry ELSE Listings!Older(categories)
      /\ totals' = [k \in Listings!CountKey |->
                      IF totals[k] = NoEntry THEN NoEntry ELSE Listings!Older(totals[k])]
      /\ still' = IF still = Listings!Longest THEN still ELSE still + 1
      /\ since' = [c \in Category |-> [p \in Listings!Policy |->
                     IF p = policy[c] THEN 0
                     ELSE IF since[c][p] = CategoryTtl THEN since[c][p] ELSE since[c][p] + 1]]
      /\ UNCHANGED <<list_world, policy, thread, watched, muted, list_pc, list>>
  BY DEF Listings!Tick
<1>2. still' \in 0..Listings!Longest /\ (still' = still \/ still' = still + 1)
      /\ still \in Nat
  BY <1>0, <1>1, ListingFacts DEF TablesTyped, Listings!Longest
<1>3. \A c \in Category, p \in Listings!Policy :
        /\ since[c][p] \in 0..CategoryTtl /\ since'[c][p] \in 0..CategoryTtl
        /\ p = policy[c] => since'[c][p] = 0
        /\ since'[c][p] <= since[c][p] + 1
  <2> SUFFICES ASSUME NEW c \in Category, NEW p \in Listings!Policy
               PROVE  /\ since[c][p] \in 0..CategoryTtl /\ since'[c][p] \in 0..CategoryTtl
                      /\ p = policy[c] => since'[c][p] = 0
                      /\ since'[c][p] <= since[c][p] + 1
    OBVIOUS
  <2>1. since[c][p] \in 0..CategoryTtl /\ CategoryTtl \in Nat
    BY <1>0, ListingFacts DEF TablesTyped
  <2>2. since'[c][p] = IF p = policy[c] THEN 0
                       ELSE IF since[c][p] = CategoryTtl THEN since[c][p] ELSE since[c][p] + 1
    BY <1>1
  <2> QED
    BY <2>1, <2>2
<1>4. TablesTyped'
  <2>1. since' \in [Category -> [Listings!Policy -> 0..CategoryTtl]]
    BY <1>1, <1>3
  <2>2. \A c \in Category : since'[c][policy'[c]] = 0
    BY <1>0, <1>1, <1>3 DEF TablesTyped, Policies
  <2> QED
    BY <1>0, <1>1, <1>2, <2>1, <2>2 DEF TablesTyped
<1>5. categories' # NoEntry =>
        /\ categories # NoEntry /\ categories'.policies = categories.policies
        /\ categories.ttl \in Nat /\ categories'.ttl = categories.ttl - 1
        /\ categories' \in [policies : Policies, ttl : 1..CategoryTtl]
  <2>1. CASE categories = NoEntry
    BY <1>1, <2>1
  <2>2. CASE categories # NoEntry
    <3>1. categories \in [policies : Policies, ttl : 1..CategoryTtl]
      BY <1>0, <2>2 DEF CachesTyped
    <3>2. categories' = IF categories.ttl = 1 THEN NoEntry
                        ELSE [policies |-> categories.policies, ttl |-> categories.ttl - 1]
      BY <1>1, <2>2, <3>1 DEF Listings!Older
    <3> QED
      BY <2>2, <3>1, <3>2, ListingFacts
  <2> QED
    BY <2>1, <2>2
<1>6. ASSUME NEW k \in Listings!CountKey, totals'[k] # NoEntry
      PROVE  /\ totals[k] # NoEntry /\ totals'[k].total = totals[k].total
             /\ totals[k].ttl \in Nat /\ totals'[k].ttl = totals[k].ttl - 1
             /\ totals'[k] \in CachedTotal
  <2>1. totals[k] # NoEntry /\ totals'[k] = Listings!Older(totals[k])
    BY <1>1, <1>6
  <2>2. totals[k] \in CachedTotal
    BY <1>0, <2>1 DEF CachesTyped
  <2>3. totals'[k] = [total |-> totals[k].total, ttl |-> totals[k].ttl - 1]
        /\ totals[k].ttl # 1
    BY <1>6, <2>1, <2>2 DEF Listings!Older, CachedTotal
  <2> QED
    BY <2>1, <2>2, <2>3, ListingFacts DEF CachedTotal
<1>7. CachesTyped'
  <2>1. totals' = [k \in Listings!CountKey |-> totals'[k]]
    BY <1>1
  <2>2. totals' \in [Listings!CountKey -> CachedTotal \cup {NoEntry}]
    BY <1>6, <2>1
  <2> QED
    BY <1>5, <2>2 DEF CachesTyped
<1>8. CachesAge'
  <2>1. ASSUME categories' # NoEntry
        PROVE  /\ categories'.policies = policy' \/ still' + categories'.ttl <= CategoryTtl
               /\ \A c \in Category :
                    since'[c][categories'.policies[c]] + categories'.ttl <= CategoryTtl
    <3>1. /\ categories.policies = policy \/ still + categories.ttl <= CategoryTtl
          /\ \A c \in Category :
               since[c][categories.policies[c]] + categories.ttl <= CategoryTtl
      BY <1>0, <1>5, <2>1 DEF CachesAge
    <3>2. \A c \in Category : categories.policies[c] \in Listings!Policy
      BY <1>5, <2>1 DEF Policies
    <3> QED
      BY <1>1, <1>2, <1>3, <1>5, <2>1, <3>1, <3>2, ListingFacts
  <2>2. ASSUME NEW k \in Listings!CountKey, totals'[k] # NoEntry
        PROVE  totals'[k].total = TrueTotal(k)' \/ still' + totals'[k].ttl <= Listings!Longest
    <3>1. totals[k].total = TrueTotal(k) \/ still + totals[k].ttl <= Listings!Longest
      BY <1>0, <1>6, <2>2 DEF CachesAge
    <3>2. TrueTotal(k)' = TrueTotal(k)
      BY <1>1 DEF TrueTotal, KeyRows, Public, Listings!Live, Listings!In, Listings!Sorted
    <3>3. Listings!Longest \in Nat
      BY ListingFacts DEF Listings!Longest
    <3> QED
      BY <1>2, <1>6, <2>2, <3>1, <3>2, <3>3
  <2> QED
    BY <2>1, <2>2 DEF CachesAge
<1>9. ListsTyped' /\ \A w \in Lister : AtWork(w)'
  BY <1>0, <1>1 DEF ListsTyped, AtWork
<1> QED
  BY <1>4, <1>7, <1>8, <1>9 DEF Listed

(* What a list holds stays as good while nothing it has read is written.   *)
LEMMA AtWorkStays ==
    ASSUME NEW v \in Lister, AtWork(v), list'[v] = list[v], list_pc'[v] = list_pc[v],
           UNCHANGED <<policy, thread, watched, muted, still, since>>
    PROVE  AtWork(v)'
<1>1. list'[v] = list[v] /\ list_pc'[v] = list_pc[v] /\ AtWork(v)
  OBVIOUS
<1>2. \A k : TrueTotal(k)' = TrueTotal(k)
  BY DEF TrueTotal, KeyRows, Public, Listings!Live, Listings!In, Listings!Sorted
<1>3. SeenWell(v)' <=> SeenWell(v)
  BY <1>1 DEF SeenWell, Within, Listings!Visible
<1>4. OfCategory(v)' <=> OfCategory(v)
  BY <1>1 DEF OfCategory, Within, Listings!Visible
<1>5. OfGuest(v)' <=> OfGuest(v)
  BY <1>1, <1>3 DEF OfGuest
<1>6. OfMember(v)' <=> OfMember(v)
  BY <1>1, <1>3 DEF OfMember, Listings!FeedCategories
<1>7. Listings!Key(v)' = Listings!Key(v)
  <2>1. Listings!Key(v) = KeyOf(list[v]) /\ Listings!Key(v)' = KeyOf(list'[v])
    BY DEF Listings!Key, KeyOf
  <2> QED
    BY <1>1, <2>1
<1>8. KnownTotal(v)' <=> KnownTotal(v)
  BY <1>1, <1>2, <1>7 DEF KnownTotal
<1>9. Chosen(v)' <=> Chosen(v)
  BY <1>1, <1>3, <1>4, <1>5, <1>6, <1>8 DEF Chosen
<1>10. Listings!Entitled(v)' = Listings!Entitled(v)
  BY <1>1 DEF Listings!Entitled
<1>11. Answered(v)' <=> Answered(v)
  BY <1>1, <1>10 DEF Answered, Within, Listings!Visible
<1>12. ToBePut(v)' <=> ToBePut(v)
  BY <1>1, <1>2, <1>7 DEF ToBePut
<1>13. Remembered(v)' <=> Remembered(v)
  BY <1>1 DEF Remembered
<1> QED
  BY <1>1, <1>3, <1>4, <1>5, <1>9, <1>11, <1>12, <1>13 DEF AtWork

(* A step of the list of w: the others go by what they had.                *)
LEMMA ListMoved ==
    ASSUME Listed, NEW w \in Lister, NEW label \in ListLabels, NEW q,
           list_pc' = [list_pc EXCEPT ![w] = label], list' = [list EXCEPT ![w] = q],
           UNCHANGED <<list_world, policy, thread, watched, muted, still, since>>
    PROVE  /\ ListsTyped' /\ TablesTyped' /\ list'[w] = q /\ list_pc'[w] = label
           /\ \A v \in Lister \ {w} : AtWork(v)'
           /\ UNCHANGED <<categories, totals>> => CachesTyped' /\ CachesAge'
           /\ \A k \in Listings!CountKey : TrueTotal(k)' = TrueTotal(k)
<1>0. TablesTyped /\ CachesTyped /\ CachesAge /\ ListsTyped /\ \A v \in Lister : AtWork(v)
  BY DEF Listed
<1>1. /\ ListsTyped' /\ list'[w] = q /\ list_pc'[w] = label
      /\ \A v \in Lister \ {w} : list'[v] = list[v] /\ list_pc'[v] = list_pc[v]
  BY <1>0 DEF ListsTyped
<1>2. TablesTyped'
  BY <1>0 DEF TablesTyped
<1>3. \A k : KeyRows(k)' = KeyRows(k)
  BY DEF KeyRows, Public, Listings!Live, Listings!In, Listings!Sorted
<1>4. \A k : TrueTotal(k)' = TrueTotal(k)
  BY <1>3 DEF TrueTotal
<1>5. UNCHANGED <<categories, totals>> => CachesTyped' /\ CachesAge'
  BY <1>0, <1>4 DEF CachesTyped, CachesAge
<1>6. ASSUME NEW v \in Lister, v # w
      PROVE  AtWork(v)'
  BY <1>0, <1>1, <1>6, AtWorkStays
<1> QED
  BY <1>1, <1>2, <1>4, <1>5, <1>6

(* A request begins with nothing but who asks, for what and in which order. *)
LEMMA ListBegun ==
    ASSUME Listed, NEW w \in Lister, NEW label \in {"categories", "list_all", "count"}, NEW q,
           Listings!Begin(w, label, q),
           q \in Listing, q.kind # "none", q.known = NoEntry,
           q.kind \in {"author", "mod", "index"} => q.sort = "latest",
           label = "categories" => q.kind \in {"feed", "tag", "author", "mod"},
           label = "list_all" => q.kind = "index",
           label = "count" => /\ q.kind = "category"
                              /\ \E c \in Category : /\ q.of = {c}
                                                     /\ Listings!CanView(q.reader, policy[c])
    PROVE  Listed'
<1>1. /\ list_pc' = [list_pc EXCEPT ![w] = label] /\ list' = [list EXCEPT ![w] = q]
      /\ UNCHANGED <<list_world, policy, thread, watched, muted, still, since,
                     categories, totals>>
  BY DEF Listings!Begin, Listings!Goto, Listings!tables
<1>2. label \in ListLabels
  BY DEF ListLabels
<1>3. /\ ListsTyped' /\ TablesTyped' /\ CachesTyped' /\ CachesAge'
      /\ list'[w] = q /\ list_pc'[w] = label
      /\ \A v \in Lister \ {w} : AtWork(v)'
  BY <1>1, <1>2, ListMoved
<1>4. label = "count" => OfCategory(w)'
  <2> SUFFICES ASSUME label = "count" PROVE OfCategory(w)'
    OBVIOUS
  <2>1. PICK c \in Category : q.of = {c} /\ Listings!CanView(q.reader, policy[c])
    OBVIOUS
  <2>2. policy[c] \in Listings!Policy /\ since[c][policy[c]] = 0 /\ 0 < CategoryTtl
    BY ListingFacts DEF Listed, TablesTyped, Policies
  <2> QED
    BY <1>1, <1>3, <2>1, <2>2 DEF OfCategory, Within, Listings!Visible
<1>5. AtWork(w)'
  BY <1>3, <1>4 DEF AtWork
<1> QED
  BY <1>3, <1>5 DEF Listed

LEMMA ListAsked ==
    ASSUME Listed, NEW w \in Lister, NEW r \in list_world.readers, Listings!Ask(w, r)
    PROVE  Listed'
<1>0. r \in Reader /\ list_world.sort \in Listings!Sort /\ "latest" \in Listings!Sort
  BY ListingFacts DEF Listed, TablesTyped, Listings!ListWorld, Listings!Sort
<1>1. \A kind \in Listings!Kind \ {"none"}, x \in Reader, sort \in Listings!Sort :
      \A cs \in SUBSET Category :
        /\ Listings!Asking(kind, x, sort, cs) \in Listing
        /\ Listings!Asking(kind, x, sort, cs).kind = kind
        /\ Listings!Asking(kind, x, sort, cs).reader = x
        /\ Listings!Asking(kind, x, sort, cs).sort = sort
        /\ Listings!Asking(kind, x, sort, cs).of = cs
        /\ Listings!Asking(kind, x, sort, cs).known = NoEntry
  BY DEF Listing, Listings!Asking
<1>2. ASSUME NEW c \in Category, Listings!ListByCategory(w, r, c, list_world.sort)
      PROVE  Listed'
  <2> DEFINE q == Listings!Asking("category", r, list_world.sort, {c})
  <2>1. Listings!Begin(w, "count", q) /\ Listings!CanView(r, policy[c])
    BY <1>2 DEF Listings!ListByCategory
  <2>2. q \in Listing /\ q.kind = "category" /\ q.of = {c} /\ q.reader = r /\ q.known = NoEntry
    BY <1>0, <1>1 DEF Listings!Kind
  <2> HIDE DEF q
  <2> QED
    BY <2>1, <2>2, ListBegun
<1>3. ASSUME NEW kind \in {"feed", "tag", "author", "mod"}, NEW sort \in Listings!Sort,
             kind \in {"author", "mod"} => sort = "latest",
             Listings!Begin(w, "categories", Listings!Asking(kind, r, sort, {}))
      PROVE  Listed'
  <2> DEFINE q == Listings!Asking(kind, r, sort, {})
  <2>1. Listings!Begin(w, "categories", q)
    BY <1>3
  <2>2. q \in Listing /\ q.kind = kind /\ q.known = NoEntry /\ q.sort = sort
    BY <1>0, <1>1 DEF Listings!Kind
  <2> HIDE DEF q
  <2> QED
    BY <1>3, <2>1, <2>2, ListBegun
<1>4. CASE Listings!GetForumIndex(w, r)
  <2> DEFINE q == Listings!Asking("index", r, "latest", {})
  <2>1. Listings!Begin(w, "list_all", q)
    BY <1>4 DEF Listings!GetForumIndex
  <2>2. q \in Listing /\ q.kind = "index" /\ q.known = NoEntry /\ q.sort = "latest"
    BY <1>0, <1>1 DEF Listings!Kind
  <2> HIDE DEF q
  <2> QED
    BY <2>1, <2>2, ListBegun
<1> QED
  BY <1>0, <1>2, <1>3, <1>4
  DEF Listings!Ask, Listings!ListFeed, Listings!ListByTag, Listings!ListByAuthor,
      Listings!ListThreadsForMod

(* What follows the categories: the counting of a guest's feed, the marks  *)
(* of a member's, the query of any other list.                             *)
LEMMA AfterTheCategories ==
    ASSUME NEW w \in Lister, list[w].kind \in {"feed", "tag", "author", "mod"}
    PROVE  /\ Listings!AfterCategories(w) \in {"query", "count", "marks"}
           /\ Listings!AfterCategories(w) = "query" => list[w].kind # "feed"
           /\ Listings!AfterCategories(w) = "count" =>
                list[w].kind = "feed" /\ Access[list[w].reader] = "guest"
           /\ Listings!AfterCategories(w) = "marks" =>
                list[w].kind = "feed" /\ Access[list[w].reader] # "guest"
<1> DEFINE a == IF list[w].kind # "feed" THEN "query"
                ELSE IF Access[list[w].reader] = "guest" THEN "count" ELSE "marks"
<1>1. Listings!AfterCategories(w) = a
  BY DEF Listings!AfterCategories
<1> QED
  BY <1>1

(* The visible categories are known: w goes on with q, which has seen them. *)
LEMMA CategoriesSeen ==
    ASSUME Listed, NEW w \in Lister, NEW q,
           list_pc' = [list_pc EXCEPT ![w] = Listings!AfterCategories(w)],
           list' = [list EXCEPT ![w] = q],
           list_pc[w] \in {"categories", "fill"}, list_pc[w] # "idle",
           q \in Listing, q.kind = list[w].kind, q.reader = list[w].reader,
           q.sort = list[w].sort, q.known = NoEntry,
           q.seen = Listings!Visible(q.reader, policy) \/ still < CategoryTtl,
           Within(q.reader, q.seen),
           UNCHANGED <<list_world, policy, thread, watched, muted, still, since, totals>>,
           CachesTyped', CachesAge'
    PROVE  Listed'
<1>0. list[w].kind \in {"feed", "tag", "author", "mod"} /\ AtWork(w)
  BY DEF Listed, AtWork
<1> DEFINE label == Listings!AfterCategories(w)
<1>1. /\ label \in {"query", "count", "marks"}
      /\ label = "query" => list[w].kind # "feed"
      /\ label = "count" => list[w].kind = "feed" /\ Access[list[w].reader] = "guest"
      /\ label = "marks" => list[w].kind = "feed" /\ Access[list[w].reader] # "guest"
  BY <1>0, AfterTheCategories
<1>2. label = Listings!AfterCategories(w)
  OBVIOUS
<1> HIDE DEF label
<1>3. label \in ListLabels
  BY <1>1 DEF ListLabels
<1>4. /\ ListsTyped' /\ TablesTyped' /\ list'[w] = q /\ list_pc'[w] = label
      /\ \A v \in Lister \ {w} : AtWork(v)'
  BY <1>2, <1>3, ListMoved
<1>5. SeenWell(w)'
  BY <1>4 DEF SeenWell, Within, Listings!Visible
<1>6. AtWork(w)'
  BY <1>0, <1>1, <1>4, <1>5 DEF AtWork, Chosen, OfGuest
<1> QED
  BY <1>4, <1>6 DEF Listed

LEMMA CategoriesLookedUp ==
    ASSUME Listed, NEW w \in Lister, Listings!VisibleCategoryMap(w)
    PROVE  Listed'
<1>0. /\ TablesTyped /\ CachesTyped /\ CachesAge /\ ListsTyped /\ AtWork(w)
      /\ list_pc[w] = "categories"
  BY DEF Listed, Listings!VisibleCategoryMap
<1>1. /\ list[w] \in Listing /\ list[w].kind \in {"feed", "tag", "author", "mod"}
      /\ list[w].known = NoEntry /\ list[w].kind # "none"
      /\ list[w].kind \in {"author", "mod", "index"} => list[w].sort = "latest"
  BY <1>0 DEF AtWork
<1>2. UNCHANGED <<list_world, policy, thread, watched, muted, still, since, categories, totals>>
  BY DEF Listings!VisibleCategoryMap, Listings!tables
<1>3. CASE categories = NoEntry
  <2>1. /\ list_pc' = [list_pc EXCEPT ![w] = "list_all"]
        /\ list' = [list EXCEPT ![w] = list[w]]
    BY <1>0, <1>3 DEF Listings!VisibleCategoryMap, Listings!Goto, ListsTyped
  <2>2. "list_all" \in ListLabels
    BY DEF ListLabels
  <2>3. /\ ListsTyped' /\ TablesTyped' /\ CachesTyped' /\ CachesAge'
        /\ list'[w] = list[w] /\ list_pc'[w] = "list_all"
        /\ \A v \in Lister \ {w} : AtWork(v)'
    BY <1>2, <2>1, <2>2, ListMoved
  <2>4. AtWork(w)'
    BY <1>1, <2>3 DEF AtWork
  <2> QED
    BY <2>3, <2>4 DEF Listed
<1>4. CASE categories # NoEntry
  <2> DEFINE seen == Listings!Visible(list[w].reader, categories.policies)
             q == [list[w] EXCEPT !.seen = seen]
  <2>1. /\ list_pc' = [list_pc EXCEPT ![w] = Listings!AfterCategories(w)]
        /\ list' = [list EXCEPT ![w] = q]
    BY <1>0, <1>4 DEF Listings!VisibleCategoryMap, Listings!Goto
  <2>2. categories \in [policies : Policies, ttl : 1..CategoryTtl]
    BY <1>0, <1>4 DEF CachesTyped
  <2>3. seen \in SUBSET Category
    BY DEF Listings!Visible
  <2>4. seen = Listings!Visible(list[w].reader, policy) \/ still < CategoryTtl
    <3>1. categories.policies = policy \/ still + categories.ttl <= CategoryTtl
      BY <1>0, <1>4 DEF CachesAge
    <3>2. still \in Nat
      BY <1>0, ListingFacts DEF TablesTyped, Listings!Longest
    <3> QED
      BY <2>2, <3>1, <3>2, ListingFacts
  <2>5. Within(list[w].reader, seen)
    <3> SUFFICES ASSUME NEW c \in seen
                 PROVE  \E p \in Listings!Policy :
                          Listings!CanView(list[w].reader, p) /\ since[c][p] < CategoryTtl
      BY DEF Within
    <3>1. /\ c \in Category /\ categories.policies[c] \in Listings!Policy
          /\ Listings!CanView(list[w].reader, categories.policies[c])
      BY <2>2 DEF Listings!Visible, Policies
    <3>2. since[c][categories.policies[c]] \in Nat
      BY <1>0, <3>1, ListingFacts DEF TablesTyped
    <3>3. since[c][categories.policies[c]] + categories.ttl <= CategoryTtl
      BY <1>0, <1>4, <3>1 DEF CachesAge
    <3>4. since[c][categories.policies[c]] < CategoryTtl
      BY <2>2, <3>2, <3>3, ListingFacts
    <3> QED
      BY <3>1, <3>4
  <2> HIDE DEF seen
  <2>6. /\ q \in Listing /\ q.kind = list[w].kind /\ q.reader = list[w].reader
        /\ q.sort = list[w].sort /\ q.known = list[w].known /\ q.seen = seen
    BY <1>1, <2>3 DEF Listing
  <2> HIDE DEF q
  <2>7. CachesTyped' /\ CachesAge'
    <3>1. \A k : KeyRows(k)' = KeyRows(k)
      BY <1>2 DEF KeyRows, Public, Listings!Live, Listings!In, Listings!Sorted
    <3> QED
      BY <1>0, <1>2, <3>1 DEF CachesTyped, CachesAge, TrueTotal
  <2> QED
    BY <1>0, <1>1, <1>2, <2>1, <2>4, <2>5, <2>6, <2>7, CategoriesSeen
<1> QED
  BY <1>3, <1>4

(* What is in the table now may be seen, and has been so just now.         *)
LEMMA SeenNow ==
    ASSUME TablesTyped, NEW r
    PROVE  /\ Listings!Visible(r, policy) \in SUBSET Category
           /\ Within(r, Listings!Visible(r, policy))
<1>1. \A c \in Listings!Visible(r, policy) :
        /\ c \in Category /\ policy[c] \in Listings!Policy /\ Listings!CanView(r, policy[c])
        /\ since[c][policy[c]] < CategoryTtl
  BY ListingFacts DEF TablesTyped, Listings!Visible, Policies
<1> QED
  BY <1>1 DEF Within

LEMMA TableRead ==
    ASSUME Listed, NEW w \in Lister, Listings!ListAll(w)
    PROVE  Listed'
<1>0. TablesTyped /\ ListsTyped /\ AtWork(w) /\ list_pc[w] = "list_all"
  BY DEF Listed, Listings!ListAll
<1>1. /\ list[w] \in Listing /\ list[w].kind \in {"feed", "tag", "author", "mod", "index"}
      /\ list[w].kind \in {"author", "mod", "index"} => list[w].sort = "latest"
  BY <1>0 DEF AtWork
<1> DEFINE seen == Listings!Visible(list[w].reader, policy)
           q == [list[w] EXCEPT !.seen = seen, !.known = policy]
           label == IF list[w].kind = "index" THEN "query" ELSE "fill"
<1>2. /\ list_pc' = [list_pc EXCEPT ![w] = label] /\ list' = [list EXCEPT ![w] = q]
      /\ UNCHANGED <<list_world, policy, thread, watched, muted, still, since,
                     categories, totals>>
  BY <1>0 DEF Listings!ListAll, Listings!Goto, Listings!tables, ListsTyped
<1>3. seen \in SUBSET Category /\ Within(list[w].reader, seen)
  BY <1>0, SeenNow
<1>4. seen = Listings!Visible(list[w].reader, policy)
  OBVIOUS
<1> HIDE DEF seen
<1>5. /\ q \in Listing /\ q.kind = list[w].kind /\ q.reader = list[w].reader
      /\ q.sort = list[w].sort /\ q.known = policy /\ q.seen = seen
  BY <1>0, <1>1, <1>3 DEF Listing, TablesTyped
<1>6. label \in ListLabels /\ label \in {"query", "fill"}
      /\ (label = "query" <=> list[w].kind = "index")
  BY DEF ListLabels
<1> HIDE DEF q, label
<1>7. /\ ListsTyped' /\ TablesTyped' /\ CachesTyped' /\ CachesAge'
      /\ list'[w] = q /\ list_pc'[w] = label
      /\ \A v \in Lister \ {w} : AtWork(v)'
  BY <1>2, <1>6, ListMoved
<1>8. SeenWell(w)'
  BY <1>2, <1>3, <1>4, <1>5, <1>7 DEF SeenWell, Within, Listings!Visible
<1>9. Remembered(w)'
  BY <1>0, <1>2, <1>4, <1>5, <1>7 DEF Remembered, TablesTyped, Listings!Visible
<1>10. AtWork(w)'
  BY <1>1, <1>5, <1>6, <1>7, <1>8, <1>9 DEF AtWork, Chosen
<1> QED
  BY <1>7, <1>10 DEF Listed

LEMMA CategoriesFilled ==
    ASSUME Listed, NEW w \in Lister, Listings!FillCategories(w)
    PROVE  Listed'
<1>0. /\ TablesTyped /\ CachesTyped /\ CachesAge /\ ListsTyped /\ AtWork(w)
      /\ list_pc[w] = "fill"
  BY DEF Listed, Listings!FillCategories
<1>1. /\ list[w] \in Listing /\ list[w].kind \in {"feed", "tag", "author", "mod"}
      /\ Remembered(w)
  BY <1>0 DEF AtWork
<1> DEFINE q == [list[w] EXCEPT !.known = NoEntry]
<1>2. /\ list_pc' = [list_pc EXCEPT ![w] = Listings!AfterCategories(w)]
      /\ list' = [list EXCEPT ![w] = q]
      /\ categories' = [policies |-> list[w].known, ttl |-> CategoryTtl]
      /\ UNCHANGED <<list_world, policy, thread, watched, muted, still, since, totals>>
  BY DEF Listings!FillCategories, Listings!Goto, Listings!tables
<1>3. /\ q \in Listing /\ q.kind = list[w].kind /\ q.reader = list[w].reader
      /\ q.sort = list[w].sort /\ q.known = NoEntry /\ q.seen = list[w].seen
  BY <1>1 DEF Listing
<1> HIDE DEF q
<1>4. q.seen = Listings!Visible(q.reader, policy) \/ still < CategoryTtl
  BY <1>1, <1>3, ListingFacts DEF Remembered
<1>5. Within(q.reader, q.seen)
  <2>1. \A c \in q.seen : /\ c \in Category /\ list[w].known[c] \in Listings!Policy
                          /\ Listings!CanView(q.reader, list[w].known[c])
                          /\ since[c][list[w].known[c]] < CategoryTtl
    BY <1>1, <1>3, ListingFacts DEF Remembered, Policies, Listings!Visible
  <2> QED
    BY <2>1 DEF Within
<1>6. CachesTyped' /\ CachesAge'
  <2>1. \A k : KeyRows(k)' = KeyRows(k)
    BY <1>2 DEF KeyRows, Public, Listings!Live, Listings!In, Listings!Sorted
  <2>2. categories' \in [policies : Policies, ttl : 1..CategoryTtl]
    BY <1>1, <1>2, ListingFacts DEF Remembered
  <2>3. categories'.policies = policy' \/ still' + categories'.ttl <= CategoryTtl
    BY <1>1, <1>2, ListingFacts DEF Remembered
  <2>4. \A c \in Category :
          since'[c][categories'.policies[c]] + categories'.ttl <= CategoryTtl
    BY <1>1, <1>2, ListingFacts DEF Remembered
  <2> QED
    BY <1>0, <1>2, <2>1, <2>2, <2>3, <2>4 DEF CachesTyped, CachesAge, TrueTotal
<1> QED
  BY <1>0, <1>2, <1>3, <1>4, <1>5, <1>6, CategoriesSeen

LEMMA MarksRead ==
    ASSUME Listed, NEW w \in Lister, Listings!ReadMarks(w)
    PROVE  Listed'
<1>0. TablesTyped /\ ListsTyped /\ AtWork(w) /\ list_pc[w] = "marks"
  BY DEF Listed, Listings!ReadMarks
<1>1. /\ list[w] \in Listing /\ list[w].kind = "feed" /\ list[w].known = NoEntry
      /\ Access[list[w].reader] # "guest" /\ SeenWell(w)
  BY <1>0 DEF AtWork
<1> DEFINE of == Listings!FeedCategories(list[w].reader, list[w].seen)
           q == [list[w] EXCEPT !.of = of]
<1>2. /\ list_pc' = [list_pc EXCEPT ![w] = "query"] /\ list' = [list EXCEPT ![w] = q]
      /\ UNCHANGED <<list_world, policy, thread, watched, muted, still, since,
                     categories, totals>>
  BY DEF Listings!ReadMarks, Listings!Goto, Listings!tables
<1>3. of \subseteq list[w].seen
  BY DEF Listings!FeedCategories
<1>4. of = Listings!FeedCategories(list[w].reader, list[w].seen) /\ "query" \in ListLabels
  BY DEF ListLabels
<1> HIDE DEF of
<1>5. /\ q \in Listing /\ q.kind = list[w].kind /\ q.reader = list[w].reader
      /\ q.known = list[w].known /\ q.seen = list[w].seen /\ q.of = of
  BY <1>1, <1>3 DEF Listing
<1> HIDE DEF q
<1>6. /\ ListsTyped' /\ TablesTyped' /\ CachesTyped' /\ CachesAge'
      /\ list'[w] = q /\ list_pc'[w] = "query"
      /\ \A v \in Lister \ {w} : AtWork(v)'
  BY <1>2, <1>4, ListMoved
<1>7. SeenWell(w)'
  BY <1>1, <1>2, <1>5, <1>6 DEF SeenWell, Within, Listings!Visible
<1>8. OfMember(w)'
  BY <1>1, <1>2, <1>3, <1>4, <1>5, <1>6, <1>7 DEF OfMember, Listings!FeedCategories
<1>9. AtWork(w)'
  BY <1>1, <1>5, <1>6, <1>8 DEF AtWork, Chosen
<1> QED
  BY <1>6, <1>9 DEF Listed

LEMMA KeysOf ==
    ASSUME NEW q \in Listing
    PROVE  /\ q.kind = "feed" => KeyOf(q) = <<"guest", q.sort>>
           /\ \A c \in Category : q.kind = "category" /\ q.of = {c} => KeyOf(q) = <<c, q.sort>>
<1>1. q.kind = "feed" => KeyOf(q) = <<"guest", q.sort>>
  BY DEF KeyOf
<1>2. ASSUME NEW c \in Category, q.kind = "category", q.of = {c}
      PROVE  KeyOf(q) = <<c, q.sort>>
  <2>1. (CHOOSE x \in {c} : TRUE) = c
    OBVIOUS
  <2>2. KeyOf(q) = <<CHOOSE x \in {c} : TRUE, q.sort>>
    BY <1>2 DEF KeyOf
  <2> QED
    BY <2>1, <2>2
<1> QED
  BY <1>1, <1>2

LEMMA CountLookedUp ==
    ASSUME Listed, NEW w \in Lister, Listings!ReadCachedCount(w)
    PROVE  Listed'
<1>0. TablesTyped /\ CachesTyped /\ CachesAge /\ ListsTyped /\ AtWork(w) /\ list_pc[w] = "count"
  BY DEF Listed, Listings!ReadCachedCount
<1>1. list[w] \in Listing /\ (OfCategory(w) \/ OfGuest(w))
  BY <1>0 DEF AtWork
<1>2. PICK k \in Listings!CountKey : k = Listings!Key(w) /\ k = KeyOf(list[w])
  <2>1. Listings!Key(w) = KeyOf(list[w])
    BY DEF Listings!Key, KeyOf
  <2>2. CASE OfGuest(w)
    BY <1>1, <2>1, <2>2, KeysOf DEF OfGuest, Listings!CountKey, Listing
  <2>3. CASE OfCategory(w)
    BY <1>1, <2>1, <2>3, KeysOf DEF OfCategory, Listings!CountKey, Listing
  <2> QED
    BY <1>1, <2>2, <2>3
<1> DEFINE of == IF list[w].kind = "feed" THEN list[w].seen ELSE list[w].of
           q == [list[w] EXCEPT !.known = totals[k], !.of = of]
<1>3. /\ list_pc' = [list_pc EXCEPT ![w] = "query"] /\ list' = [list EXCEPT ![w] = q]
      /\ UNCHANGED <<list_world, policy, thread, watched, muted, still, since,
                     categories, totals>>
  BY <1>0, <1>1, <1>2 DEF Listings!ReadCachedCount, Listings!Goto, Listings!tables, ListsTyped,
     Listing
<1>5. /\ of \in SUBSET Category
      /\ list[w].kind = "feed" => of = list[w].seen
      /\ list[w].kind # "feed" => of = list[w].of
  BY <1>1 DEF Listing
<1> HIDE DEF of
<1>6. totals[k] \in CachedTotal \cup {NoEntry}
  BY <1>0 DEF CachesTyped
<1>7. /\ q \in Listing /\ q.kind = list[w].kind /\ q.reader = list[w].reader
      /\ q.sort = list[w].sort /\ q.seen = list[w].seen /\ q.of = of /\ q.known = totals[k]
  BY <1>1, <1>5, <1>6 DEF Listing
<1> HIDE DEF q
<1>8. KeyOf(q) = k
  <2>1. CASE OfGuest(w)
    BY <1>1, <1>2, <1>7, <2>1, KeysOf DEF OfGuest
  <2>2. CASE OfCategory(w)
    BY <1>1, <1>2, <1>5, <1>7, <2>2, KeysOf DEF OfCategory
  <2> QED
    BY <1>1, <2>1, <2>2
<1>9. "query" \in ListLabels
  BY DEF ListLabels
<1>10. /\ ListsTyped' /\ TablesTyped' /\ CachesTyped' /\ CachesAge'
       /\ list'[w] = q /\ list_pc'[w] = "query"
       /\ \A v \in Lister \ {w} : AtWork(v)'
       /\ TrueTotal(k)' = TrueTotal(k)
  BY <1>3, <1>9, ListMoved
<1>11. KnownTotal(w)'
  <2>1. Listings!Key(w)' = k
    <3>1. Listings!Key(w)' = KeyOf(list'[w])
      BY DEF Listings!Key, KeyOf
    <3> QED
      BY <1>8, <1>10, <3>1
  <2>2. TrueTotal(Listings!Key(w))' = TrueTotal(k)
    BY <1>10, <2>1
  <2>3. ASSUME totals[k] # NoEntry
        PROVE  /\ totals[k] \in CachedTotal
               /\ totals[k].total = TrueTotal(k) \/ still < Listings!Longest
    <3>1. totals[k] \in CachedTotal
      BY <1>6, <2>3
    <3>2. totals[k].total = TrueTotal(k) \/ still + totals[k].ttl <= Listings!Longest
      BY <1>0, <2>3 DEF CachesAge
    <3>3. totals[k].ttl \in Nat \ {0} /\ still \in Nat /\ Listings!Longest \in Nat
      BY <1>0, <3>1, ListingFacts DEF CachedTotal, TablesTyped, Listings!Longest
    <3> QED
      BY <3>1, <3>2, <3>3
  <2> QED
    BY <1>3, <1>7, <1>10, <2>2, <2>3 DEF KnownTotal
<1>12. OfGuest(w) => OfGuest(w)'
  BY <1>3, <1>7, <1>10 DEF OfGuest, SeenWell, Within, Listings!Visible
<1>13. OfCategory(w) => OfCategory(w)'
  BY <1>3, <1>5, <1>7, <1>10 DEF OfCategory, Within, Listings!Visible
<1>14. OfGuest(w) => q.of = q.seen
  BY <1>5, <1>7 DEF OfGuest
<1>15. Chosen(w)'
  BY <1>1, <1>10, <1>11, <1>12, <1>13, <1>14 DEF Chosen
<1>16. list[w].kind \in {"category", "feed"}
  BY <1>1 DEF OfGuest, OfCategory
<1>17. AtWork(w)'
  BY <1>7, <1>10, <1>15, <1>16 DEF AtWork
<1> QED
  BY <1>10, <1>17 DEF Listed

(* What each query returns.                                                *)
LEMMA RowsOf ==
    ASSUME NEW w \in Lister
    PROVE  /\ list[w].kind \in {"category", "feed"} =>
                Listings!Rows(w) = Listings!Live \cap Listings!In(list[w].of)
                                                 \cap Listings!Sorted(list[w].sort)
           /\ list[w].kind = "tag" =>
                Listings!Rows(w) =
                  Listings!Live \cap Listings!Sorted(list[w].sort)
                    \cap (IF list[w].seen = {} THEN Shown ELSE Listings!In(list[w].seen))
           /\ list[w].kind = "author" =>
                Listings!Rows(w) = Listings!Live \cap Listings!In(list[w].seen)
           /\ list[w].kind = "mod" => Listings!Rows(w) = Listings!Live
           /\ list[w].kind = "index" =>
                Listings!Rows(w) = Listings!Live \cap Listings!In(list[w].seen \cap Top)
  BY DEF Listings!Rows, Listings!ByCategory, Listings!ByFeed, Listings!ByTag,
     Listings!ByAuthor, Listings!ListAdminThreads, Listings!ListRecentByCategories

(* A feed of what is watched and can be seen, or else of all that can be   *)
(* seen, and in both cases of nothing muted.                               *)
LEMMA FeedOf ==
    ASSUME NEW r, NEW seen
    PROVE  Listings!FeedCategories(r, seen) =
             (IF watched[r] \cap seen # {} THEN watched[r] \cap seen ELSE seen) \ muted[r]
  BY DEF Listings!FeedCategories

LEMMA QueryRight ==
    ASSUME TablesTyped, NEW w \in Lister, AtWork(w), list_pc[w] = "query",
           still >= CategoryTtl,
           list[w].kind = "tag" => Listings!Visible(list[w].reader, policy) # {}
    PROVE  Listings!Rows(w) = Listings!Entitled(w)
<1>0. /\ list[w] \in Listing /\ Chosen(w)
      /\ list[w].kind \in {"author", "mod", "index"} => list[w].sort = "latest"
  BY DEF AtWork
<1>1. still # 0 /\ ~(still < CategoryTtl)
  BY ListingFacts DEF TablesTyped, Listings!Longest
<1> DEFINE seen == Listings!Visible(list[w].reader, policy)
           feed == IF watched[list[w].reader] \cap seen # {}
                   THEN watched[list[w].reader] \cap seen ELSE seen
<1>2. seen = {c \in Category : Listings!CanView(list[w].reader, policy[c])}
  BY DEF Listings!Visible
<1>3. \A t \in Shown : thread[t].category \in Category
  BY DEF TablesTyped, Listings!Threads
<1>4. CASE OfCategory(w)
  <2>1. list[w].of \subseteq seen /\ list[w].kind = "category"
    BY <1>1, <1>4 DEF OfCategory
  <2> HIDE DEF seen
  <2>2. Listings!Entitled(w) = {t \in Shown :
          /\ thread[t].status \in {"open", "locked"}
          /\ thread[t].category \in list[w].of \cap seen
          /\ list[w].sort = "unanswered" => ~thread[t].replied /\ thread[t].status = "open"
          /\ list[w].sort = "solved" => thread[t].solved}
    BY <1>2, <2>1 DEF Listings!Entitled
  <2> QED
    BY <2>1, <2>2, RowsOf DEF Listings!Live, Listings!In, Listings!Sorted
<1>5. CASE list[w].kind = "feed" /\ list[w].of = feed \ muted[list[w].reader]
  <2>1. Listings!Entitled(w) = {t \in Shown :
          /\ thread[t].status \in {"open", "locked"}
          /\ thread[t].category \in feed \ muted[list[w].reader]
          /\ list[w].sort = "unanswered" => ~thread[t].replied /\ thread[t].status = "open"
          /\ list[w].sort = "solved" => thread[t].solved}
    BY <1>2, <1>5 DEF Listings!Entitled
  <2> HIDE DEF feed
  <2> QED
    BY <1>5, <2>1, RowsOf DEF Listings!Live, Listings!In, Listings!Sorted
<1>6. CASE OfGuest(w) /\ list[w].of = list[w].seen
  <2>1. /\ list[w].seen = seen /\ list[w].kind = "feed"
        /\ watched[list[w].reader] = {} /\ muted[list[w].reader] = {}
    BY <1>0, <1>1, <1>6 DEF OfGuest, SeenWell, TablesTyped, Listing
  <2>2. list[w].of = feed \ muted[list[w].reader]
    BY <1>6, <2>1
  <2> QED
    BY <1>5, <2>1, <2>2
<1>7. CASE OfMember(w)
  <2>1. /\ list[w].seen = seen /\ list[w].kind = "feed"
        /\ list[w].of = Listings!FeedCategories(list[w].reader, list[w].seen)
    BY <1>1, <1>7 DEF OfMember, SeenWell
  <2>2. list[w].of = feed \ muted[list[w].reader]
    BY <2>1, FeedOf
  <2> QED
    BY <1>5, <2>1, <2>2
<1>8. CASE list[w].kind \in {"tag", "author", "mod", "index"} /\ SeenWell(w)
  <2>1. list[w].seen = seen
    BY <1>1, <1>8 DEF SeenWell
  <2>2. list[w].kind = "tag" => seen # {}
    OBVIOUS
  <2> HIDE DEF seen
  <2>3. Listings!Entitled(w) = {t \in Shown :
          /\ thread[t].status \in {"open", "locked"}
          /\ \/ list[w].kind = "mod"
             \/ list[w].kind \in {"tag", "author"} /\ thread[t].category \in seen
             \/ list[w].kind = "index" /\ thread[t].category \in seen \cap Top
          /\ list[w].sort = "unanswered" => ~thread[t].replied /\ thread[t].status = "open"
          /\ list[w].sort = "solved" => thread[t].solved}
    BY <1>2, <1>8 DEF Listings!Entitled
  <2>4. CASE list[w].kind = "tag"
    BY <2>1, <2>2, <2>3, <2>4, RowsOf DEF Listings!Live, Listings!In, Listings!Sorted
  <2>5. CASE list[w].kind = "author"
    BY <1>0, <2>1, <2>3, <2>5, RowsOf DEF Listings!Live, Listings!In
  <2>6. CASE list[w].kind = "mod"
    BY <1>0, <2>3, <2>6, RowsOf DEF Listings!Live
  <2>7. CASE list[w].kind = "index"
    BY <1>0, <2>1, <2>3, <2>7, RowsOf DEF Listings!Live, Listings!In
  <2> QED
    BY <1>8, <2>4, <2>5, <2>6, <2>7
<1> QED
  BY <1>0, <1>4, <1>6, <1>7, <1>8 DEF Chosen

(* The total under a key is that of the list it is read for, if all of it  *)
(* was read after the last write.                                          *)
LEMMA KeyRight ==
    ASSUME TablesTyped, NEW w \in Lister, list[w] \in Listing,
           OfCategory(w) \/ (OfGuest(w) /\ list[w].of = list[w].seen),
           still >= CategoryTtl
    PROVE  KeyRows(Listings!Key(w)) = Listings!Rows(w)
<1>1. Listings!Key(w) = KeyOf(list[w])
  BY DEF Listings!Key, KeyOf
<1>2. CASE OfCategory(w)
  <2>1. PICK c \in Category : list[w].kind = "category" /\ list[w].of = {c}
    BY <1>2 DEF OfCategory
  <2>2. Listings!Key(w) = <<c, list[w].sort>> /\ c # "guest"
    BY <1>1, <2>1, KeysOf, ListingFacts
  <2>3. KeyRows(<<c, list[w].sort>>) =
          Listings!Live \cap Listings!In({c}) \cap Listings!Sorted(list[w].sort)
    BY <2>2 DEF KeyRows
  <2> QED
    BY <2>1, <2>2, <2>3, RowsOf
<1>3. CASE OfGuest(w) /\ list[w].of = list[w].seen
  <2>1. /\ list[w].kind = "feed" /\ Access[list[w].reader] = "guest"
        /\ list[w].of = Listings!Visible(list[w].reader, policy)
    BY <1>3, ListingFacts DEF OfGuest, SeenWell, TablesTyped, Listings!Longest
  <2>2. Listings!Visible(list[w].reader, policy) = Public
    BY <2>1 DEF Listings!Visible, Public, Listings!CanView
  <2>3. Listings!Key(w) = <<"guest", list[w].sort>>
    BY <1>1, <2>1, KeysOf
  <2>4. KeyRows(<<"guest", list[w].sort>>) =
          Listings!Live \cap Listings!In(Public) \cap Listings!Sorted(list[w].sort)
    BY DEF KeyRows
  <2> QED
    BY <2>1, <2>2, <2>3, <2>4, RowsOf
<1> QED
  BY <1>2, <1>3

(* No list but the moderators' shows a thread outside what was seen.       *)
LEMMA RowsWithin ==
    ASSUME TablesTyped, NEW w \in Lister, list[w] \in Listing, Chosen(w),
           list[w].kind # "mod", list[w].kind = "tag" => list[w].seen # {},
           NEW t \in Listings!Rows(w)
    PROVE  \E p \in Listings!Policy :
             Listings!CanView(list[w].reader, p) /\ since[thread[t].category][p] < CategoryTtl
<1>1. CASE OfCategory(w) \/ (OfGuest(w) /\ list[w].of = list[w].seen) \/ OfMember(w)
  <2>1. list[w].kind \in {"category", "feed"} /\ Within(list[w].reader, list[w].of)
    BY <1>1 DEF OfCategory, OfGuest, OfMember, SeenWell, Within
  <2>2. thread[t].category \in list[w].of
    BY <2>1, RowsOf DEF Listings!In
  <2> QED
    BY <2>1, <2>2 DEF Within
<1>2. CASE list[w].kind \in {"tag", "author", "index"} /\ SeenWell(w)
  <2>1. thread[t].category \in list[w].seen
    BY <1>2, RowsOf DEF Listings!In
  <2> QED
    BY <1>2, <2>1 DEF SeenWell, Within
<1> QED
  BY <1>1, <1>2 DEF Chosen

LEMMA Queried ==
    ASSUME Listed, NEW w \in Lister, Listings!RunQuery(w)
    PROVE  Listed'
<1>0. TablesTyped /\ ListsTyped /\ AtWork(w) /\ list_pc[w] = "query"
  BY DEF Listed, Listings!RunQuery
<1>1. /\ list[w] \in Listing /\ list[w].kind # "none" /\ Chosen(w)
      /\ list[w].kind \in {"author", "mod", "index"} => list[w].sort = "latest"
  BY <1>0 DEF AtWork
<1>2. PICK rows : rows = Listings!Rows(w)
  OBVIOUS
<1>3. list[w].kind \in {"category", "feed", "tag", "author", "mod", "index"}
  BY <1>1 DEF Listing, Listings!Kind
<1>4. rows \subseteq Shown
  BY <1>2, <1>3, RowsOf DEF Listings!Live
<1> DEFINE cached == list[w].known # NoEntry /\ list[w].kind \in {"category", "feed"}
<1>5. PICK total \in Nat :
        /\ total = IF list[w].known # NoEntry /\ list[w].kind \in {"category", "feed"}
                   THEN list[w].known.total ELSE Listings!Counted(w)
        /\ cached =>
             /\ OfCategory(w) \/ (OfGuest(w) /\ list[w].of = list[w].seen)
             /\ total = TrueTotal(Listings!Key(w)) \/ still < Listings!Longest
        /\ ~cached /\ list[w].kind # "index" => total = Listings!Cardinality(rows)
  <2>1. CASE cached
    <3>1. /\ OfCategory(w) \/ (OfGuest(w) /\ list[w].of = list[w].seen)
          /\ KnownTotal(w)
      BY <1>1, <2>1 DEF Chosen
    <3>2. /\ list[w].known.total \in Nat
          /\ list[w].known.total = TrueTotal(Listings!Key(w)) \/ still < Listings!Longest
      BY <2>1, <3>1 DEF KnownTotal, CachedTotal
    <3> QED
      BY <2>1, <3>1, <3>2
  <2>2. CASE ~cached
    <3>1. CASE list[w].kind = "index"
      <4>1. Listings!Counted(w) = Listings!Cardinality(Listings!Live \cap Listings!In(list[w].seen))
        BY <3>1 DEF Listings!Counted, Listings!CountThreadsByCategories
      <4>2. Listings!Live \cap Listings!In(list[w].seen) \in SUBSET Shown
        BY DEF Listings!Live
      <4>3. Listings!Counted(w) \in Nat
        BY <4>1, <4>2, CountedRows
      <4> QED
        BY <2>2, <3>1, <4>3
    <3>2. CASE list[w].kind # "index"
      <4>1. Listings!Counted(w) = Listings!Cardinality(rows)
        BY <1>2, <3>2 DEF Listings!Counted
      <4>2. Listings!Counted(w) \in Nat
        BY <1>4, <4>1, CountedRows
      <4> QED
        BY <2>2, <3>2, <4>1, <4>2
    <3> QED
      BY <3>1, <3>2
  <2> QED
    BY <2>1, <2>2
<1>6. PICK places \in SUBSET Category : places = {thread[t].category : t \in rows}
  <2>1. {thread[t].category : t \in rows} \in SUBSET Category
    BY <1>0, <1>4 DEF TablesTyped, Listings!Threads
  <2> QED
    BY <2>1
<1>7. PICK label \in {"put", "shown"} :
        label = (IF Listings!Uncached(w) THEN "put" ELSE "shown")
  OBVIOUS
<1> DEFINE q == [list[w] EXCEPT !.rows = rows, !.known = NoEntry, !.places = places,
                                !.total = total]
<1>8. /\ list_pc' = [list_pc EXCEPT ![w] = label] /\ list' = [list EXCEPT ![w] = q]
      /\ UNCHANGED <<list_world, policy, thread, watched, muted, still, since,
                     categories, totals>>
  <2>1. list' = [list EXCEPT ![w] = [list[w] EXCEPT !.rows = rows, !.known = NoEntry,
                                       !.places = places, !.total = total]]
    BY <1>0, <1>1, <1>2, <1>5, <1>6 DEF Listings!RunQuery, ListsTyped
  <2> QED
    BY <1>7, <2>1 DEF Listings!RunQuery, Listings!Goto, Listings!tables
<1>9. /\ q \in Listing /\ q.kind = list[w].kind /\ q.reader = list[w].reader
      /\ q.sort = list[w].sort /\ q.of = list[w].of /\ q.seen = list[w].seen
      /\ q.rows = rows /\ q.places = places /\ q.total = total
  BY <1>1, <1>4, <1>5, <1>6 DEF Listing
<1> HIDE DEF q, cached
<1>10. label \in ListLabels
  BY <1>7 DEF ListLabels
<1>11. /\ ListsTyped' /\ TablesTyped' /\ CachesTyped' /\ CachesAge'
       /\ list'[w] = q /\ list_pc'[w] = label
       /\ \A v \in Lister \ {w} : AtWork(v)'
       /\ \A k \in Listings!CountKey : TrueTotal(k)' = TrueTotal(k)
  BY <1>8, <1>10, ListMoved
<1>12. (list[w].kind = "tag" => Listings!Visible(list[w].reader, policy) # {})
         /\ still >= CategoryTtl => rows = Listings!Entitled(w)
  BY <1>0, <1>2, QueryRight
<1>13. still \in 0..Listings!Longest /\ Listings!Longest \in Nat /\ CategoryTtl \in Nat
       /\ Listings!Longest >= CategoryTtl
  BY <1>0, ListingFacts DEF TablesTyped, Listings!Longest
<1>14. list[w].kind # "index" =>
         total = Listings!Cardinality(rows) \/ still < Listings!Longest
  <2> SUFFICES ASSUME cached, ~(still < Listings!Longest)
               PROVE  total = Listings!Cardinality(rows)
    BY <1>5
  <2>1. total = TrueTotal(Listings!Key(w)) /\ still >= CategoryTtl
    BY <1>5, <1>13
  <2>2. KeyRows(Listings!Key(w)) = rows
    BY <1>0, <1>1, <1>2, <1>5, <2>1, KeyRight
  <2> QED
    BY <2>1, <2>2 DEF TrueTotal
<1>15. list[w].kind # "mod" /\ (list[w].kind = "tag" => list[w].seen # {}) =>
         Within(list[w].reader, places)
  BY <1>0, <1>1, <1>2, <1>6, RowsWithin DEF Within
<1>16. Answered(w)'
  <2>1. Listings!Entitled(w)' = Listings!Entitled(w)
    BY <1>8, <1>9, <1>11 DEF Listings!Entitled
  <2>2. Within(list[w].reader, places) => Within(list[w].reader, list[w].places)'
    BY <1>8, <1>9, <1>11 DEF Within
  <2>3. Listings!Visible(list[w].reader, policy)' = Listings!Visible(list[w].reader, policy)
    BY <1>8, <1>9, <1>11 DEF Listings!Visible
  <2> QED
    BY <1>8, <1>9, <1>11, <1>12, <1>14, <1>15, <2>1, <2>2, <2>3 DEF Answered
<1>17. label = "put" => ToBePut(w)'
  <2> SUFFICES ASSUME label = "put"
               PROVE  ToBePut(w)'
    OBVIOUS
  <2>1. /\ list[w].known = NoEntry
        /\ \/ list[w].kind = "category"
           \/ list[w].kind = "feed" /\ Access[list[w].reader] = "guest"
    BY <1>7 DEF Listings!Uncached
  <2>2. OfCategory(w) \/ (OfGuest(w) /\ list[w].of = list[w].seen)
    BY <1>1, <2>1 DEF Chosen, OfMember
  <2>3. total = Listings!Cardinality(rows)
    BY <1>5, <2>1 DEF cached
  <2>4. still >= CategoryTtl => total = TrueTotal(Listings!Key(w))
    BY <1>0, <1>1, <1>2, <2>2, <2>3, KeyRight DEF TrueTotal
  <2>5. Listings!Key(w) = KeyOf(list[w]) /\ Listings!Key(w)' = KeyOf(list'[w])
    BY DEF Listings!Key, KeyOf
  <2>6. PICK k \in Listings!CountKey : k = KeyOf(list[w]) /\ k = KeyOf(q)
    <3>1. CASE OfGuest(w)
      BY <1>1, <1>9, <3>1, KeysOf DEF OfGuest, Listings!CountKey, Listing
    <3>2. CASE OfCategory(w)
      BY <1>1, <1>9, <3>2, KeysOf DEF OfCategory, Listings!CountKey, Listing
    <3> QED
      BY <2>2, <3>1, <3>2
  <2>7. TrueTotal(k)' = TrueTotal(k) /\ Listings!Key(w)' = k /\ Listings!Key(w) = k
    BY <1>11, <2>5, <2>6
  <2>8. still >= CategoryTtl => total = TrueTotal(Listings!Key(w))'
    BY <2>4, <2>7
  <2>9. /\ \/ list[w].kind = "category" /\ \E c \in Category : list[w].of = {c}
           \/ list[w].kind = "feed"
    BY <2>2 DEF OfCategory, OfGuest
  <2> QED
    BY <1>8, <1>9, <1>11, <1>13, <2>8, <2>9 DEF ToBePut
<1>18. AtWork(w)'
  BY <1>1, <1>7, <1>9, <1>11, <1>16, <1>17 DEF AtWork
<1> QED
  BY <1>11, <1>18 DEF Listed

LEMMA CountWritten ==
    ASSUME Listed, NEW w \in Lister, Listings!WriteCachedCount(w)
    PROVE  Listed'
<1>0. TablesTyped /\ CachesTyped /\ CachesAge /\ ListsTyped /\ AtWork(w) /\ list_pc[w] = "put"
  BY DEF Listed, Listings!WriteCachedCount
<1>1. /\ list[w] \in Listing /\ list[w].kind # "none" /\ ToBePut(w) /\ Answered(w)
      /\ list[w].kind \in {"author", "mod", "index"} => list[w].sort = "latest"
  BY <1>0 DEF AtWork
<1>2. PICK k \in Listings!CountKey : k = Listings!Key(w)
  <2>1. Listings!Key(w) = KeyOf(list[w])
    BY DEF Listings!Key, KeyOf
  <2>2. CASE list[w].kind = "feed"
    BY <1>1, <2>1, <2>2, KeysOf DEF Listings!CountKey, Listing
  <2>3. CASE list[w].kind = "category" /\ \E c \in Category : list[w].of = {c}
    BY <1>1, <2>1, <2>3, KeysOf DEF Listings!CountKey, Listing
  <2> QED
    BY <1>1, <2>2, <2>3 DEF ToBePut
<1> DEFINE e == [total |-> list[w].total, ttl |-> CountTtl]
           q == list[w]
<1>3. /\ list_pc' = [list_pc EXCEPT ![w] = "shown"] /\ totals' = [totals EXCEPT ![k] = e]
      /\ UNCHANGED <<list_world, policy, thread, watched, muted, still, since,
                     categories, list>>
  BY <1>2 DEF Listings!WriteCachedCount, Listings!Goto, Listings!tables
<1>4. list' = [list EXCEPT ![w] = q] /\ "shown" \in ListLabels
  BY <1>0, <1>3 DEF ListsTyped, ListLabels
<1>5. /\ e \in CachedTotal /\ e.ttl = CountTtl
      /\ e.total = TrueTotal(k) \/ still < CategoryTtl
  BY <1>1, <1>2, ListingFacts DEF CachedTotal, Listing, ToBePut
<1> HIDE DEF e, q
<1>6. /\ ListsTyped' /\ TablesTyped' /\ list'[w] = q /\ list_pc'[w] = "shown"
      /\ \A v \in Lister \ {w} : AtWork(v)'
      /\ \A x \in Listings!CountKey : TrueTotal(x)' = TrueTotal(x)
  BY <1>3, <1>4, ListMoved
<1>7. CachesTyped'
  BY <1>0, <1>3, <1>5 DEF CachesTyped
<1>8. CachesAge'
  <2>1. categories' # NoEntry =>
          /\ categories'.policies = policy' \/ still' + categories'.ttl <= CategoryTtl
          /\ \A c \in Category :
               since'[c][categories'.policies[c]] + categories'.ttl <= CategoryTtl
    BY <1>0, <1>3 DEF CachesAge
  <2>2. ASSUME NEW x \in Listings!CountKey, totals'[x] # NoEntry
        PROVE  totals'[x].total = TrueTotal(x)' \/ still' + totals'[x].ttl <= Listings!Longest
    <3>1. CASE x = k
      <4>1. totals'[x] = e /\ still' = still /\ still \in Nat
        BY <1>0, <1>3, <3>1 DEF CachesTyped, TablesTyped
      <4>2. still < CategoryTtl => still + CountTtl <= Listings!Longest
        BY <1>0, ListingFacts DEF TablesTyped, Listings!Longest
      <4> QED
        BY <1>5, <1>6, <3>1, <4>1, <4>2
    <3>2. CASE x # k
      <4>1. totals'[x] = totals[x] /\ still' = still
        BY <1>0, <1>3, <3>2 DEF CachesTyped
      <4> QED
        BY <1>0, <1>6, <2>2, <4>1 DEF CachesAge
    <3> QED
      BY <3>1, <3>2
  <2> QED
    BY <2>1, <2>2 DEF CachesAge
<1>9. Answered(w)'
  <2>1. Listings!Entitled(w)' = Listings!Entitled(w)
    BY <1>3 DEF Listings!Entitled
  <2> QED
    BY <1>1, <1>3, <2>1 DEF Answered, Within, Listings!Visible
<1>10. AtWork(w)'
  BY <1>1, <1>3, <1>6, <1>9 DEF AtWork
<1> QED
  BY <1>6, <1>7, <1>8, <1>10 DEF Listed

LEMMA ListDone ==
    ASSUME Listed, NEW w \in Lister, Listings!Done(w)
    PROVE  Listed'
<1>1. /\ list_pc' = [list_pc EXCEPT ![w] = "idle"]
      /\ list' = [list EXCEPT ![w] = Listings!Nothing]
      /\ UNCHANGED <<list_world, policy, thread, watched, muted, still, since,
                     categories, totals>>
  BY DEF Listings!Done, Listings!Goto, Listings!tables
<1>2. "idle" \in ListLabels
  BY DEF ListLabels
<1>3. /\ ListsTyped' /\ TablesTyped' /\ CachesTyped' /\ CachesAge'
      /\ list'[w] = Listings!Nothing /\ list_pc'[w] = "idle"
      /\ \A v \in Lister \ {w} : AtWork(v)'
  BY <1>1, <1>2, ListMoved
<1>4. Listings!Nothing' = Listings!Nothing
  BY DEF Listings!Nothing, Listings!Asking
<1>5. AtWork(w)'
  BY <1>3, <1>4 DEF AtWork
<1> QED
  BY <1>3, <1>5 DEF Listed

LEMMA ListingsNext ==
    ASSUME Listed, Listings!Next
    PROVE  Listed'
<1>0. TablesTyped /\ \A r \in list_world.readers : r \in Reader
  BY ListingFacts DEF Listed, TablesTyped, Listings!ListWorld
<1>1. ASSUME NEW w \in Lister, Listings!Step(w)
      PROVE  Listed'
  BY <1>1, CategoriesLookedUp, TableRead, CategoriesFilled, MarksRead, CountLookedUp, Queried,
     CountWritten, ListDone DEF Listings!Step
<1>2. ASSUME NEW t \in Shown, Listings!CreateThread(t)
      PROVE  Listed'
  <2>1. [thread[t] EXCEPT !.status = "open"] \in Listings!Threads
    BY <1>0 DEF TablesTyped, Listings!Threads, Listings!Status
  <2> QED
    BY <1>2, <2>1, ThreadWritten DEF Listings!CreateThread
<1>3. ASSUME NEW t \in Shown, NEW row \in Listings!Threads, Listings!UpdateThread(t, row)
      PROVE  Listed'
  BY <1>3, ThreadWritten DEF Listings!UpdateThread
<1>4. ASSUME NEW r \in list_world.readers, NEW wanted \in SUBSET Category,
             NEW unwanted \in SUBSET Category, Listings!Mark(r, wanted, unwanted)
      PROVE  Listed'
  BY <1>0, <1>4, MarksWritten
<1> QED
  BY <1>1, <1>2, <1>3, <1>4, ListAsked, PolicySet, ListsAge DEF Listings!Next

LEMMA ListingsTrue ==
    ASSUME Listed
    PROVE  Listings!TypeOK /\ Listings!ListingsSettle /\ Listings!ClosedSoonHidden
<1>1. ASSUME NEW w \in Lister
      PROVE  list[w].kind \in Listings!Kind /\ list[w].rows \subseteq Shown
  <2>1. CASE list_pc[w] = "idle"
    <3>1. list[w] = Listings!Nothing
      BY <2>1 DEF Listed, AtWork
    <3> QED
      BY <3>1 DEF Listings!Nothing, Listings!Asking, Listings!Kind
  <2>2. CASE list_pc[w] # "idle"
    <3>1. list[w] \in Listing
      BY <2>2 DEF Listed, AtWork
    <3> QED
      BY <3>1 DEF Listing
  <2> QED
    BY <2>1, <2>2
<1>2. Listings!TypeOK
  BY <1>1 DEF Listed, TablesTyped, CachesTyped, ListsTyped, ListLabels, Policies, CachedTotal,
     Listings!TypeOK
<1>3. \A w \in Lister : list_pc[w] = "shown" => Answered(w) /\ list[w] \in Listing
  BY DEF Listed, AtWork
<1>4. /\ still >= CategoryTtl => still \in Nat
      /\ Listings!Longest \in Nat
  BY ListingFacts DEF Listed, TablesTyped, Listings!Longest
<1>5. Listings!ListingsSettle
  BY <1>3, <1>4 DEF Listings!ListingsSettle, Answered
<1>6. Listings!ClosedSoonHidden
  BY <1>3 DEF Listings!ClosedSoonHidden, Answered, Within
<1> QED
  BY <1>2, <1>5, <1>6

ReadsSide ==
    /\ side = "preferences" => Preferred
    /\ side = "listings" => Listed

LEMMA ReadsSideHolds == CommunitySpec => []ReadsSide
<1>1. CommunityInit => ReadsSide
  BY PreferencesInitially, ListingsInitially DEF CommunityInit, ReadsSide
<1>2. ReadsSide /\ [CommunityNext]_communityVars => ReadsSide'
  <2>1. Preferred /\ UNCHANGED preferenceVars => Preferred'
    BY DEF preferenceVars, Preferred, PreferencesTyped, OldOrTrue, OneSaves
  <2>2. ASSUME Listed, UNCHANGED listVars
        PROVE  Listed'
    <3>1. TablesTyped' /\ ListsTyped' /\ CachesTyped'
      BY <2>2 DEF listVars, Listed, TablesTyped, ListsTyped, CachesTyped
    <3>2. \A k : TrueTotal(k)' = TrueTotal(k)
      BY <2>2 DEF listVars, TrueTotal, KeyRows, Public, Listings!Live, Listings!In,
         Listings!Sorted
    <3>3. CachesAge'
      BY <2>2, <3>2 DEF listVars, Listed, CachesAge
    <3>4. ASSUME NEW w \in Lister
          PROVE  AtWork(w)'
      BY <2>2, <3>4, AtWorkStays DEF listVars, Listed
    <3> QED
      BY <3>1, <3>3, <3>4 DEF Listed
  <2> QED
    BY <2>1, <2>2, PreferencesNext, ListingsNext
    DEF CommunityNext, communityVars, ReadsSide
<1> QED
  BY <1>1, <1>2, PTL DEF CommunitySpec

(* What a page shows of the preferences settles to what is stored; a list  *)
(* settles to what its reader is entitled to within the minute its         *)
(* categories may be cached, and its total within the half minute that     *)
(* totals may be cached beyond that; and whatever else is written          *)
(* meanwhile, a category that was closed is hidden within that minute.     *)
THEOREM ReadsAlwaysSettle == CommunitySpec => []ReadsSettle
<1>1. ReadsSide => ReadsSettle
  BY PreferencesTrue, ListingsTrue DEF ReadsSide, ReadsSettle
<1> QED
  BY <1>1, ReadsSideHolds, PTL

=============================================================================
