-------------------------------- MODULE MainView --------------------------------
(***************************************************************************)
(* What the consoles tell the gateway about their pictures (web/media.js): *)
(* what they can decode, and which source they look at.  Media.tla models  *)
(* the gateway's registry in detail; here it is what the pages see of it.  *)
(*                                                                         *)
(* Finding out what can be decoded takes a promise, and what is sent while *)
(* the connection is down is lost.  The gateway knows nothing of a console *)
(* that has connected again, and its first plan, without a source, makes   *)
(* the page ask for the dog's camera, whatever it shows.  A plan that      *)
(* names a source changes tiles only (Tiles.tla) and is left out.  Page    *)
(* and gateway learn of a lost connection at once; where the gateway does  *)
(* not, the next connection is another client to it (Media.tla).           *)
(***************************************************************************)
EXTENDS Integers, Sequences

CONSTANTS
  Consoles,
  Shells,     \* the consoles that run in the App
  MaxMail,    \* bound: wishes of a page on the socket
  MaxBlanks,  \* bound: plans without a source on the way to a page
  MaxReports  \* bound: reports of a page under way

ASSUME MainViewAssumption ==
  /\ Shells \subseteq Consoles /\ "nobody" \notin Consoles
  /\ {MaxMail, MaxBlanks, MaxReports} \subseteq Nat \ {0}

VARIABLES
  measured,   \* probeCodecsSync and confirmH265 find H.265
  shownView,  \* viewLayout.main
  layoutDue,  \* applyLayout waits for the next frame of the screen
  reports,    \* calls of reportCaps that wait for confirmH265
  linked,     \* the socket is open
  mail,       \* to the gateway
  blanks,     \* plans without a source, on their way to the page
  knownH265,  \* MediaRegistry: clients_[id].h265
  chosen,     \* clients_[id].selected
  slotHolder  \* full_holder_

pageView == <<measured, shownView, layoutDue, reports>>
registry == <<knownH265, chosen, slotHolder>>
mainViewVars == <<pageView, linked, mail, blanks, registry>>

Views == {"dog_cam", "ptz_vis", "cloud"}
Selectable == {"dog_cam", "ptz_vis"}
Messages == [t : {"media_caps"}, h265 : BOOLEAN]
            \cup [t : {"media_select"}, id : Selectable]

MainViewTypeOK ==
  /\ {measured, layoutDue, linked, knownH265} \subseteq [Consoles -> BOOLEAN]
  /\ shownView \in [Consoles -> Views]
  /\ reports \in [Consoles -> 0..MaxReports]
  /\ blanks \in [Consoles -> 0..MaxBlanks]
  /\ \A c \in Consoles : /\ mail[c] \in Seq(Messages)
                       /\ Len(mail[c]) <= MaxMail + MaxReports
  /\ chosen \in [Consoles -> Selectable \cup {"none"}]
  /\ slotHolder \in Consoles \cup {"nobody"}

(***************************************************************************)
(* initMedia reports at once, before the socket is open.                   *)
(***************************************************************************)
MainViewInit ==
  /\ measured \in [Consoles -> BOOLEAN]
  /\ shownView = [c \in Consoles |-> "dog_cam"]
  /\ layoutDue = [c \in Consoles |-> TRUE]
  /\ reports = [c \in Consoles |-> 1]
  /\ linked = [c \in Consoles |-> FALSE]
  /\ mail = [c \in Consoles |-> <<>>] /\ blanks = [c \in Consoles |-> 0]
  /\ knownH265 = [c \in Consoles |-> FALSE]
  /\ chosen = [c \in Consoles |-> "none"] /\ slotHolder = "nobody"

-------------------------------------------------------------------------------
(***************************************************************************)
(* The page.                                                               *)
(***************************************************************************)
Posts(c, m) ==
  mail' = IF linked[c] THEN [mail EXCEPT ![c] = Append(@, m)] ELSE mail

(***************************************************************************)
(* The bound on wishes leaves room for the reports under way.              *)
(***************************************************************************)
Selects(c, id) ==
  /\ Len(mail[c]) + reports[c] < MaxMail + MaxReports
  /\ Posts(c, [t |-> "media_select", id |-> id])

(***************************************************************************)
(* A browser never reports H.265, whatever it measures (webH265Ok).        *)
(***************************************************************************)
CanH265(c) == measured[c] /\ c \in Shells

reportCaps(c) ==
  /\ reports[c] > 0
  /\ reports' = [reports EXCEPT ![c] = @ - 1]
  /\ Posts(c, [t |-> "media_caps", h265 |-> CanH265(c)])
  /\ UNCHANGED <<measured, shownView, layoutDue, linked, blanks, registry>>

applyView(c, v) ==
  /\ shownView' = [shownView EXCEPT ![c] = v]
  /\ layoutDue' = [layoutDue EXCEPT ![c] = TRUE]
  /\ UNCHANGED <<measured, reports, linked, mail, blanks, registry>>

(***************************************************************************)
(* onLayout: a browser does not ask for the ball, of which it could see    *)
(* the small stream only.                                                  *)
(***************************************************************************)
AsksFor(c) ==
  shownView[c] = "dog_cam" \/ (shownView[c] = "ptz_vis" /\ c \in Shells)

onLayout(c) ==
  /\ layoutDue[c] /\ layoutDue' = [layoutDue EXCEPT ![c] = FALSE]
  /\ IF AsksFor(c) THEN Selects(c, shownView[c]) ELSE UNCHANGED mail
  /\ UNCHANGED <<measured, shownView, reports, linked, blanks, registry>>

(***************************************************************************)
(* renderMediaPanel of a plan without a source.                            *)
(***************************************************************************)
onBlankPlan(c) ==
  /\ blanks[c] > 0
  /\ blanks' = [blanks EXCEPT ![c] = @ - 1]
  /\ Selects(c, "dog_cam")
  /\ UNCHANGED <<pageView, linked, registry>>

(***************************************************************************)
(* A source is picked in the media panel.                                  *)
(***************************************************************************)
selectMain(c, id) ==
  /\ linked[c] /\ Selects(c, id)
  /\ UNCHANGED <<pageView, linked, blanks, registry>>

-------------------------------------------------------------------------------
(***************************************************************************)
(* SendMediaPlan to some consoles; a plan beyond the bound is like those   *)
(* on the way.                                                             *)
(***************************************************************************)
SendPlans(to) ==
  blanks' = [c \in Consoles |->
               CASE ~linked'[c] -> 0
                 [] linked'[c] /\ c \in to /\ chosen'[c] = "none"
                      /\ blanks[c] < MaxBlanks -> blanks[c] + 1
                 [] OTHER -> blanks[c]]

(***************************************************************************)
(* Select: the ball's main stream is H.265, the dog's is H.264.  Who       *)
(* cannot decode it gives the slot back; the first to ask has it.          *)
(***************************************************************************)
Decodes(c, id) == id = "dog_cam" \/ knownH265[c]

Select(c, id) ==
  /\ chosen' = [chosen EXCEPT ![c] = id]
  /\ slotHolder' =
       CASE ~Decodes(c, id) -> IF slotHolder = c THEN "nobody" ELSE slotHolder
         [] slotHolder = "nobody" -> c
         [] OTHER -> slotHolder

TakeMail(c) ==
  /\ mail[c] # <<>>
  /\ mail' = [mail EXCEPT ![c] = Tail(@)]
  /\ UNCHANGED <<pageView, linked>>
  /\ LET m == Head(mail[c])
     IN  \/ /\ m.t = "media_caps"
            /\ knownH265' = [knownH265 EXCEPT ![c] = m.h265]
            /\ UNCHANGED <<chosen, slotHolder>>
            /\ SendPlans({c})
         \/ /\ m.t = "media_select"
            /\ Select(c, m.id) /\ UNCHANGED knownH265
            /\ SendPlans(Consoles)

-------------------------------------------------------------------------------
(***************************************************************************)
(* The connection.  On connecting the gateway sends a plan, and the page   *)
(* reports again (onLinkOpen).                                             *)
(***************************************************************************)
Connects(c) ==
  /\ ~linked[c] /\ linked' = [linked EXCEPT ![c] = TRUE]
  /\ UNCHANGED <<measured, shownView, layoutDue, mail, registry>>
  /\ SendPlans({c})

(***************************************************************************)
(* Mutant: capabilities are reported when the page is loaded, only.        *)
(***************************************************************************)
LinkOpensSilently(c) == Connects(c) /\ UNCHANGED reports

LinkOpens(c) ==
  /\ reports[c] < MaxReports /\ reports' = [reports EXCEPT ![c] = @ + 1]
  /\ Connects(c)

(***************************************************************************)
(* OnDisconnect: Forget, and plans for the others if the slot was his.     *)
(***************************************************************************)
LinkBreaks(c) ==
  /\ linked[c] /\ linked' = [linked EXCEPT ![c] = FALSE]
  /\ mail' = [mail EXCEPT ![c] = <<>>]
  /\ knownH265' = [knownH265 EXCEPT ![c] = FALSE]
  /\ chosen' = [chosen EXCEPT ![c] = "none"]
  /\ slotHolder' = IF slotHolder = c THEN "nobody" ELSE slotHolder
  /\ SendPlans(IF slotHolder = c THEN Consoles ELSE {})
  /\ UNCHANGED pageView

-------------------------------------------------------------------------------
MainViewNext ==
  \E c \in Consoles :
    \/ reportCaps(c) \/ onLayout(c) \/ onBlankPlan(c)
    \/ \E v \in Views : applyView(c, v)
    \/ \E id \in Selectable : selectMain(c, id)
    \/ TakeMail(c) \/ LinkOpens(c) \/ LinkBreaks(c)

(***************************************************************************)
(* Promises are kept, frames drawn, messages arrive.  Nobody promises a    *)
(* connection.                                                             *)
(***************************************************************************)
MainViewFairness ==
  \A c \in Consoles :
    /\ WF_mainViewVars(reportCaps(c)) /\ WF_mainViewVars(onLayout(c))
    /\ WF_mainViewVars(onBlankPlan(c)) /\ WF_mainViewVars(TakeMail(c))

MainViewSpec ==
  MainViewInit /\ [][MainViewNext]_mainViewVars /\ MainViewFairness

-------------------------------------------------------------------------------
(***************************************************************************)
(* media.js:496: a console that stays connected is known to the gateway    *)
(* for what it can decode, however often it has connected before and       *)
(* whenever its promises are kept.                                         *)
(***************************************************************************)
CapsAreKnown ==
  \A c \in Consoles : <>[]linked[c] => <>[](knownH265[c] = CanH265(c))

(***************************************************************************)
(* media.js:319: a desktop that looks at the ball leaves the full-rate     *)
(* slot to others.                                                         *)
(***************************************************************************)
BallLeavesSlot ==
  \A c \in Consoles \ Shells :
    <>[](linked[c] /\ shownView[c] = "ptz_vis") => []<>(slotHolder # c)
===============================================================================
