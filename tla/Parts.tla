------------------------------- MODULE Parts -------------------------------
(***************************************************************************)
(* Small modules side by side: a behaviour is one of ApiAccess, of         *)
(* StatusPages, of MonitorHistory, of Statistics or of Settings, while the *)
(* variables of the others keep their initial values.  The behaviours of   *)
(* StatusPages are of two kinds, to keep them few: two pages and requests, *)
(* or two monitors on one page.                                            *)
(***************************************************************************)
EXTENDS ApiAccess

CONSTANTS Page, Listed, Slug, PageHome, MaxChanges,  \* of StatusPages
          MaxThreshold, MaxResults,                  \* of MonitorHistory
          Cleaner, Days, BatchSize, MaxTime          \* of Statistics

VARIABLES part,
          page, slug, place, status, changes, tx, visit,
          mon, hist,
          now, check, clean, request,
          kind, setting, lock, patch

apiVars        == <<role, row, req>>
pageVars       == <<page, slug, place, status, changes, tx, visit>>
historyVars    == <<mon, hist>>
statisticsVars == <<now, check, clean, request>>
settingsVars   == <<kind, setting, lock, patch>>

S == INSTANCE StatusPages WITH Monitor <- Listed, Home <- PageHome
H == INSTANCE MonitorHistory
C == INSTANCE Statistics
P == INSTANCE Settings WITH row <- setting, tx <- patch

ASSUME DaysAssumption  == Days \in Nat \ {0} /\ BatchSize \in Nat \ {0}
ASSUME BoundAssumption == MaxTime \in Nat /\ MaxThreshold \in Nat \ {0} /\ MaxResults \in Nat
ASSUME NoOneAssumption == NoOne \notin Request
ASSUME PagesAssumption == S!PagesAssumption

(* Monitors and pages besides the first one. *)
Others(T)     == T \ {CHOOSE x \in T : TRUE}
OtherMonitors == Others(Listed)
OtherPages    == Others(Page)

OneMonitor ==
  /\ \A m \in OtherMonitors : status'[m] = status[m]
  /\ \A r \in Request : tx'[r].monitor \notin OtherMonitors

(* A page that is always published, and one request at a time, which begins
   before a visit and may end during it. *)
OnePage ==
  /\ \A p \in OtherPages : page'[p] = page[p]
  /\ \A r \in Request : tx'[r].page \notin OtherPages
  /\ \A q, r \in Request : tx'[q].pc # "idle" /\ tx'[r].pc # "idle" => q = r
  /\ \A p \in Page : page'[p] # "hidden"
  /\ \A r \in Request : tx'[r].pc = "insert" => tx'[r].to = "published"
  /\ visit'.pc # "idle" => tx' = tx \/ \A r \in Request : tx'[r].pc = "idle"

PartsInit ==
  /\ part \in {"api", "addresses", "visits", "history", "statistics", "settings"}
  /\ Init /\ S!Init /\ H!Init /\ C!Init /\ P!Init
  /\ part # "api"        => role = [o \in Organization |-> [u \in User |-> "none"]]
  /\ part = "addresses"  => \A m \in OtherMonitors : status[m] = "up"
  /\ part \notin {"addresses", "visits"} => status = [m \in Listed |-> "up"]
  /\ part # "history"    => mon = H!Pending(1, 1)
  /\ part # "settings"   => kind = "page" /\ setting = [name |-> TRUE, published |-> TRUE]

PartsNext ==
  /\ UNCHANGED part
  /\ part = "api" => UNCHANGED <<pageVars, historyVars, statisticsVars, settingsVars>>
  /\ part \in {"addresses", "visits"} =>
       UNCHANGED <<apiVars, historyVars, statisticsVars, settingsVars>>
  /\ part = "history" => UNCHANGED <<apiVars, pageVars, statisticsVars, settingsVars>>
  /\ part = "statistics" => UNCHANGED <<apiVars, pageVars, historyVars, settingsVars>>
  /\ part = "settings" => UNCHANGED <<apiVars, pageVars, historyVars, statisticsVars>>
  /\ \/ part = "api" /\ Next
     \/ part = "addresses" /\ S!Next /\ OneMonitor
     \/ part = "visits" /\ S!Next /\ OnePage
     \/ part = "history" /\ H!Next
     \/ part = "statistics" /\ C!Next
     \/ part = "settings" /\ P!Next

PartsSpec ==
  PartsInit /\ [][PartsNext]_<<part, apiVars, pageVars, historyVars, statisticsVars, settingsVars>>

-----------------------------------------------------------------------------
(* See StatusPages: addresses are unique, pages show what is theirs, and what
   lasts during a visit is shown. *)
PagesInv       == S!PagesInv
AnswersAreTrue == S!AnswersAreTrue

(* See MonitorHistory: the status is a function of the history. *)
StatusFollowsHistory == H!StatusFollowsHistory

(* See Statistics: what is missing from statistics is flagged. *)
AnswersAreComplete == C!AnswersAreComplete

(* See Settings: stored configurations are valid ones, monitors are edited one
   at a time, and other settings lose an update to a concurrent one only. *)
StoredIsAccepted    == P!StoredIsAccepted
UndoneWasConcurrent == P!UndoneWasConcurrent
=============================================================================
