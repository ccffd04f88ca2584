---------------------------- MODULE SettingsEditor ----------------------------
(***************************************************************************)
(* The settings page (SettingsPage.tsx, settings-model.ts) inside the web  *)
(* interface of WebAccess: the settings query, the editor with its copy    *)
(* of what the server had, what the user types, the conflict notice, and a *)
(* save, which may need the password first.                                *)
(*                                                                         *)
(* A settings document is a model value; the documents of Moved differ     *)
(* from the others in the logger's address.  What is typed spells a        *)
(* document as the server would (plain), spells it otherwise, or is no     *)
(* valid document at all.                                                  *)
(***************************************************************************)
EXTENDS WebAccess

CONSTANTS
  Docs, Moved,
  Respelt,        \* documents the user may also spell in another way
  None,
  MaxEdits        \* bound: texts typed and saves of others, per editor

ASSUME DocsAssumption == Docs # {} /\ Moved \subseteq Docs /\ Respelt \subseteq Docs /\ None \notin Docs
ASSUME MaxEditsAssumption == MaxEdits \in Nat

VARIABLES
  stored,       \* server: the settings
  confirmed,    \* server: a recent confirmation of the password
  query,        \* settingsQuery: data, isError, and the GET in flight
  ed,           \* the mounted SettingsEditor, or Unmounted
  put,          \* the save in flight
  typed,        \* history: unsaved text of the user
  dubious,      \* history: another session saved, or a save whose result no editor learnt
  edits

editor == <<query, ed, put, typed, dubious, edits>>
vars == <<access, stored, confirmed, editor>>

Texts == [doc : Docs, plain : {TRUE}] \cup [doc : Respelt \cup {None}, plain : {FALSE}]

SettingsToValues(d) == [doc |-> d, plain |-> TRUE]
ValuesToSettings(v) == v.doc
ValidateSettings(v) == v.doc # None
LoggerIdentityChanged(v, original) == (v.doc \in Moved) # (original \in Moved)
SameSettings(a, b) == SettingsToValues(a) = SettingsToValues(b)

Dirty(e) == e.values # SettingsToValues(e.original)

Unmounted == [on |-> FALSE, original |-> None, values |-> SettingsToValues(None),
              conflict |-> None, saving |-> FALSE]
Mounted(d) == [on |-> TRUE, original |-> d, values |-> SettingsToValues(d),
               conflict |-> None, saving |-> FALSE]
NoQuery == [data |-> None, failed |-> FALSE, ask |-> "none", answer |-> None]
NoPut == [phase |-> "none", doc |-> None, token |-> "none", mine |-> FALSE]

SInit ==
  /\ Init
  /\ stored \in Docs /\ confirmed = FALSE
  /\ query = NoQuery /\ ed = Unmounted /\ put = NoPut
  /\ typed = None /\ dubious = FALSE /\ edits = 0

(* A text the user has neither saved nor given up. *)
Unsaved(e, t) == IF e.on /\ Dirty(e) THEN t ELSE None

-----------------------------------------------------------------------------
(* The gate takes the page away, with the editor; a load of the document    *)
(* forgets everything but the server.                                       *)
Within(Step) ==
  /\ Step
  /\ LET there == Shown' = "page" /\ path' = "/settings"
         gone == boot'.data = "none"
     IN  /\ query' = IF gone THEN NoQuery ELSE query
         /\ ed' = IF there THEN ed ELSE Unmounted
         /\ typed' = IF there THEN typed ELSE None
         /\ put' = IF gone THEN NoPut
                   ELSE [put EXCEPT !.mine = there /\ @,
                                    !.token = IF token' = "old" THEN Aged(@) ELSE @]
         /\ dubious' = IF gone THEN put.phase # "none" ELSE dubious \/ (put.mine /\ ~there)
         /\ edits' = IF there THEN edits ELSE 0
  /\ confirmed' = (confirmed /\ alive')
  /\ UNCHANGED stored

AccessStep == Within(AccessNext)

OnSettings == Shows("/settings")

(* The query begins with the page; focus and the retry button repeat it. *)
AskSettings ==
  /\ OnSettings /\ query.ask = "none"
  /\ events' = IF query.data # None \/ query.failed THEN events + 1 ELSE events
  /\ events' <= MaxEvents
  /\ query' = [query EXCEPT !.ask = "asked"]
  /\ UNCHANGED <<server, place, queries, memory, ask, post, form, stored, confirmed,
                 ed, put, typed, dubious, edits>>

ServeSettings ==
  /\ query.ask = "asked"
  /\ \E r \in {IF alive THEN "ok" ELSE "401", "failed"} :
       query' = [query EXCEPT !.ask = r, !.answer = IF r = "ok" THEN stored ELSE None]
  /\ UNCHANGED <<access, stored, confirmed, ed, put, typed, dubious, edits>>

(* With an error the page shows it instead of the editor, data or not. *)
ReceiveSettings ==
  /\ query.ask \in {"ok", "failed"}
  /\ \/ /\ query.ask = "ok"
        /\ query' = [data |-> query.answer, failed |-> FALSE, ask |-> "none", answer |-> None]
        /\ UNCHANGED <<ed, put, typed, dubious>>
     \/ /\ query.ask = "failed"
        /\ query' = [query EXCEPT !.failed = TRUE, !.ask = "none"]
        /\ ed' = Unmounted /\ typed' = None /\ put' = [put EXCEPT !.mine = FALSE]
        /\ dubious' = (dubious \/ put.mine)
  /\ UNCHANGED <<access, stored, confirmed, edits>>

Leave ==      \* the handler of a 401
  /\ ToLogin
  /\ query' = NoQuery /\ ed' = Unmounted /\ put' = NoPut /\ typed' = None /\ edits' = 0
  /\ dubious' = FALSE
  /\ UNCHANGED <<server, events, stored, confirmed>>

SettingsUnauthorized == query.ask = "401" /\ Leave

MountEditor ==
  /\ OnSettings /\ ~ed.on /\ query.data # None /\ ~query.failed
  /\ ed' = Mounted(query.data)
  /\ UNCHANGED <<access, stored, confirmed, query, put, typed, dubious, edits>>

OverwritingEffect ==       \* Mutant: what the server has replaces what is typed
  /\ ed.on /\ ~SameSettings(query.data, ed.original)
  /\ ed' = Mounted(query.data)
  /\ UNCHANGED <<access, stored, confirmed, query, put, typed, dubious, edits>>

SilentEffect ==       \* Mutant: edits are kept without a notice
  /\ ed.on /\ ~SameSettings(query.data, ed.original) /\ ~Dirty(ed) /\ ~ed.saving
  /\ ed' = Mounted(query.data)
  /\ UNCHANGED <<access, stored, confirmed, query, put, typed, dubious, edits>>

(* The effect on [dirty, initial, original, saving]. *)
FollowServer ==
  /\ ed.on /\ ~SameSettings(query.data, ed.original)
  /\ IF Dirty(ed) \/ ed.saving
     THEN ed.conflict # query.data /\ ed' = [ed EXCEPT !.conflict = query.data]
     ELSE ed' = Mounted(query.data)
  /\ UNCHANGED <<access, stored, confirmed, query, put, typed, dubious, edits>>

-----------------------------------------------------------------------------
(* The user.  Fields stay open while a save runs. *)

TypeText(v) ==
  /\ ed.on /\ v # ed.values
  /\ edits < MaxEdits /\ edits' = edits + 1
  /\ ed' = [ed EXCEPT !.values = v]
  /\ typed' = Unsaved(ed', v)
  /\ UNCHANGED <<access, stored, confirmed, query, put, dubious>>

LoadServerCopy ==
  /\ ed.on /\ ed.conflict # None /\ ~ed.saving
  /\ ed' = Mounted(ed.conflict) /\ typed' = None
  /\ UNCHANGED <<access, stored, confirmed, query, put, dubious, edits>>

KeepMyEdits ==
  /\ ed.on /\ ed.conflict # None /\ ~ed.saving
  /\ ed' = [ed EXCEPT !.original = ed.conflict, !.conflict = None]
  /\ typed' = Unsaved(ed', typed)
  /\ UNCHANGED <<access, stored, confirmed, query, put, dubious, edits>>

(* The values of this moment are those that will be sent.  One save at a    *)
(* time also after the editor was mounted anew (a bound of the model).      *)
SubmitSettings ==
  /\ ed.on /\ ~ed.saving /\ put.phase = "none"
  /\ ValidateSettings(ed.values)
  /\ ed' = [ed EXCEPT !.saving = TRUE]
  /\ put' = [phase |-> IF LoggerIdentityChanged(ed.values, ed.original) THEN "confirm" ELSE "put",
             doc |-> ValuesToSettings(ed.values), token |-> token, mine |-> TRUE]
  /\ UNCHANGED <<access, stored, confirmed, query, typed, dubious, edits>>

-----------------------------------------------------------------------------
(* The save.  POST /auth/confirm-password keeps its 401 to itself: it is a  *)
(* wrong password, or the session is gone.                                  *)

Refused == [put EXCEPT !.phase = "refused", !.token = "none"]

ServeConfirm ==
  /\ put.phase = "confirm"
  /\ \/ /\ alive /\ put.token = "current" /\ confirmed' = TRUE
        /\ put' \in {[put EXCEPT !.phase = "put", !.token = token], Refused}
     \/ put' = Refused /\ UNCHANGED confirmed
  /\ UNCHANGED <<access, stored, query, ed, typed, dubious, edits>>

Authorized == stored \in Moved <=> put.doc \in Moved

ServePut ==
  /\ put.phase = "put"
  /\ \/ /\ alive /\ put.token = "current" /\ (Authorized \/ confirmed)
        /\ stored' = put.doc /\ confirmed' = (confirmed /\ Authorized)
        /\ \/ put' = [put EXCEPT !.phase = "saved", !.token = "none"] /\ UNCHANGED dubious
           \/ put' = Refused /\ dubious' = TRUE
     \/ /\ put' = IF alive THEN Refused ELSE [put EXCEPT !.phase = "401", !.token = "none"]
        /\ confirmed' \in {confirmed, confirmed /\ Authorized}
        /\ UNCHANGED <<stored, dubious>>
  /\ UNCHANGED <<access, query, ed, typed, edits>>

SaveRefused ==
  /\ put.phase = "refused"
  /\ put' = NoPut
  /\ ed' = IF put.mine THEN [ed EXCEPT !.saving = FALSE] ELSE ed
  /\ UNCHANGED <<access, stored, confirmed, query, typed, dubious, edits>>

SaveUnauthorized == put.phase = "401" /\ Leave

(* The answer goes to the cache and to the form, over anything typed since; *)
(* in the same tick the query is asked again, a GET in flight being dropped. *)
SaveDone ==
  /\ put.phase = "saved"
  /\ query' = [data |-> put.doc, failed |-> FALSE,
               ask |-> IF OnSettings THEN "asked" ELSE query.ask,
               answer |-> IF OnSettings THEN None ELSE query.answer]
  /\ put' = [put EXCEPT !.phase = "refetch"]
  /\ ed' = IF put.mine THEN [Mounted(put.doc) EXCEPT !.saving = TRUE] ELSE ed
  /\ typed' = IF put.mine THEN None ELSE typed
  /\ UNCHANGED <<access, stored, confirmed, dubious, edits>>

(* invalidateQueries waits for the refetch and does not mind its result. *)
SaveSettled ==
  /\ put.phase = "refetch" /\ query.ask = "none"
  /\ put' = NoPut
  /\ ed' = IF put.mine THEN [ed EXCEPT !.saving = FALSE] ELSE ed
  /\ UNCHANGED <<access, stored, confirmed, query, typed, dubious, edits>>

OtherSaves ==
  /\ ed.on      \* a new page begins with whatever is stored
  /\ edits < MaxEdits /\ edits' = edits + 1
  /\ \E d \in Docs \ {stored} : stored' = d
  /\ dubious' = TRUE
  /\ UNCHANGED <<access, confirmed, query, ed, put, typed>>

EditorNext ==
  \/ AskSettings \/ ServeSettings \/ ReceiveSettings \/ SettingsUnauthorized \/ MountEditor
  \/ FollowServer \/ (\E v \in Texts : TypeText(v)) \/ LoadServerCopy \/ KeepMyEdits
  \/ SubmitSettings \/ ServeConfirm \/ ServePut \/ SaveRefused \/ SaveUnauthorized
  \/ SaveDone \/ SaveSettled \/ OtherSaves

Next == AccessStep \/ EditorNext

Spec == SInit /\ [][Next]_vars

(* Requests are answered or fail, the browser runs the handlers of what has *)
(* arrived, draws, and runs effects; the countdown's interval fires.        *)
FairSpec ==
  /\ Spec
  /\ WF_vars(Within(\/ ServeBoot \/ ReceiveBoot \/ ServeSession \/ ReceiveSession
                    \/ GateRedirect \/ LeaveClosedWizard))
  /\ WF_vars(Within(\/ ServeLogin \/ ServeBootstrap \/ ServeLogout
                    \/ ReceiveLogin \/ ReceiveBootstrap \/ ReceiveLogout \/ Draw \/ Countdown))
  /\ WF_vars(\/ (AskSettings /\ query.data = None /\ ~query.failed)
             \/ ServeSettings \/ ReceiveSettings \/ SettingsUnauthorized
             \/ MountEditor \/ FollowServer)
  /\ WF_vars(\/ ServeConfirm \/ ServePut \/ SaveRefused \/ SaveUnauthorized
             \/ SaveDone \/ SaveSettled)

-----------------------------------------------------------------------------
(* Types of the state of both pages, of their requests and of the server. *)
TypeOK ==
  /\ open \in BOOLEAN /\ alive \in BOOLEAN
  /\ path \in Paths /\ redirect \in Private
  /\ boot \in [data : {"none", "open", "closed"}, failed : BOOLEAN]
  /\ sess \in {"pending", "ok", "anonymous", "unavailable", "removed"}
  /\ token \in {"none", "current", "old"} /\ cause \in {"none", "own", "lost", "other"}
  /\ ask.boot \in {"none", "asked", "open", "closed", "failed"}
  /\ ask.sess \in {"none", "asked", "ok", "stale", "401", "failed"}
  /\ post.kind \in {"none", "login", "bootstrap", "logout"} /\ post.count \in 0..2
  /\ form.step \in 0..LastStep /\ form.bad \subseteq 0..(LastStep - 1)
  /\ form.remaining \in 0..RetryAfter
  /\ stored \in Docs /\ confirmed \in BOOLEAN
  /\ query.data \in Docs \cup {None} /\ query.answer \in Docs \cup {None}
  /\ ed.values \in Texts \cup {SettingsToValues(None)}
  /\ ed.original \in Docs \cup {None} /\ ed.conflict \in Docs \cup {None}
  /\ put.phase \in {"none", "confirm", "put", "saved", "refused", "401", "refetch"}
  /\ typed \in Texts \cup {None}

(* No page is left loading: the redirects between the home page, the login  *)
(* and set-up come to an end, whoever logs in, out or sets up meanwhile.    *)
(* The set-up page without a session may wait for a query that was removed. *)
AccessSettles == (Shown = "loading") ~> (Shown # "loading" \/ sess = "removed")

(* Two submit events of one tick send one login or one set-up. *)
OneSubmission == post.count <= 1

(* After any answer, or none, the forms can be used again. *)
FormUsable == (form.started \/ form.remaining > 0) ~> (~form.started /\ form.remaining = 0)

(* Who loses the race to set Helio up is taken from the wizard, also when   *)
(* the status cannot be fetched: its form goes with the page.               *)
LoserLeavesWizard == form.closing ~> ~form.closing

(* Fetching the session replaces the token; when this page did it, the new  *)
(* token is on its way.  Only other tabs and lost answers leave an old one. *)
TokenReplaced ==
  token = "old" /\ cause = "own" => ask.sess \in {"ok", "stale"} \/ post.phase = "ok"

(* What the user typed stays on the page, as long as there is an editor,    *)
(* until it is saved or given up; typing during a save is the exception.    *)
EditsKept == typed # None => ed.on /\ ed.values = typed

(* "As configurações foram alteradas em outra sessão": once no save runs,   *)
(* the notice is not about a save of this page, unless the editor that      *)
(* began the save was taken away before its answer (the effect on initial,  *)
(* original and saving of SettingsPage.tsx cannot tell that one from        *)
(* another session's).                                                      *)
ConflictIsForeign == ed.on /\ ed.conflict # None /\ ~ed.saving => dubious

(* A change the page has learnt of is adopted or announced. *)
ChangeNoticed ==
  (ed.on /\ query.data # ed.original)
    ~> (~ed.on \/ query.data = ed.original \/ ed.conflict = query.data)

(* Every save ends, whatever fails, and the button works again. *)
SaveEnds == ed.saving ~> ~ed.saving
=============================================================================
