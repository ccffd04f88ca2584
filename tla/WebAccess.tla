------------------------------ MODULE WebAccess ------------------------------
(***************************************************************************)
(* One browser tab of the web interface: the gate in routes/__root.tsx,    *)
(* the login form, the set-up wizard, the logout button, the memory of the *)
(* CSRF token and the handler of 401 answers.  Every navigation loads the  *)
(* document again, so that nothing but the cookie outlives it.             *)
(*                                                                         *)
(* The server is here as the tab sees it: whether set-up is open, whether  *)
(* the session of the cookie is alive, and one CSRF token per session,     *)
(* which GET /auth/session replaces.  Tokens are "current" or "old".       *)
(* Other tabs and browsers act through the Other... actions.               *)
(***************************************************************************)
EXTENDS Naturals

CONSTANTS
  LastStep,       \* the wizard's review step (4)
  RetryAfter,     \* seconds a 429 asks to wait
  MaxEvents       \* bound: steps of others, visits and refocusing by the user

ASSUME LastStepAssumption == LastStep \in Nat \ {0}
ASSUME RetryAfterAssumption == RetryAfter \in Nat \ {0}
ASSUME MaxEventsAssumption == MaxEvents \in Nat

VARIABLES
  open,         \* server: no account yet
  alive,        \* server: the cookie's session is valid
  path,         \* window.location.pathname
  redirect,     \* ?redirect= of the login page
  boot,         \* bootstrapStatusQuery: data and isError
  sess,         \* sessionQuery
  token,        \* authMemory
  cause,        \* history: who made the token old
  ask,          \* GETs of the two queries: not sent, asked, or the answer on its way
  post,         \* POST of this page: kind, phase, token sent, how many in flight
  form,         \* state of the login form or the wizard
  events

server == <<open, alive>>
place == <<path, redirect>>
queries == <<boot, sess>>
memory == <<token, cause>>
access == <<open, alive, path, redirect, boot, sess, token, cause, ask, post, form, events>>

Private == {"/", "/settings"}
Paths == Private \cup {"/login", "/bootstrap"}
NoPost == [kind |-> "none", phase |-> "none", token |-> "none", count |-> 0]
FreshForm == [started |-> FALSE, pending |-> FALSE, step |-> 0, bad |-> {0}, remaining |-> 0,
              closing |-> FALSE]
NoBoot == [data |-> "none", failed |-> FALSE]

-----------------------------------------------------------------------------
(* The gate: auth-gate.ts and routes/__root.tsx. *)

(* A candidate outside the application, or one of the two open pages,       *)
(* becomes the home page.                                                   *)
SafeRedirectTarget(candidate) == IF candidate \in Private THEN candidate ELSE "/"

NeedsSession == boot.data = "closed" /\ path # "/login"

Authenticated ==       \* classifySessionResult
  CASE ~NeedsSession -> "no"
    [] NeedsSession /\ sess = "ok" -> "yes"
    [] NeedsSession /\ sess = "anonymous" -> "no"
    [] OTHER -> "unknown"

GuardedLogin ==       \* Mutant: the login page too wants a session
  CASE boot.data = "none" -> "loading"
    [] boot.data = "open" -> IF path = "/bootstrap" THEN "render" ELSE "/bootstrap"
    [] boot.data = "closed" /\ Authenticated = "unknown" -> "loading"
    [] boot.data = "closed" /\ Authenticated = "no" -> "/login"
    [] OTHER -> IF path = "/bootstrap" THEN "/" ELSE "render"

ResolveAppAccess ==
  CASE boot.data = "none" -> "loading"
    [] boot.data = "open" -> IF path = "/bootstrap" THEN "render" ELSE "/bootstrap"
    [] boot.data = "closed" /\ path = "/login" -> "render"
    [] boot.data = "closed" /\ path # "/login" /\ Authenticated = "unknown" -> "loading"
    [] boot.data = "closed" /\ path # "/login" /\ Authenticated = "no" -> "/login"
    [] OTHER -> IF path = "/bootstrap" THEN "/" ELSE "render"

(* What RootLayout shows. *)
Shown ==
  CASE boot.failed -> "error"
    [] ~boot.failed /\ NeedsSession /\ sess = "unavailable" -> "unavailable"
    [] OTHER -> IF ResolveAppAccess = "render" THEN "page" ELSE "loading"

Shows(p) == Shown = "page" /\ path = p

-----------------------------------------------------------------------------
(* Page loads and the token. *)

Load(p, r) ==
  /\ path' = p /\ redirect' = r
  /\ boot' = NoBoot /\ sess' = "pending"
  /\ token' = "none" /\ cause' = "none"
  /\ ask' = [boot |-> "asked", sess |-> "none"]
  /\ post' = NoPost /\ form' = FreshForm

(* loginRedirect: the home page is not named in the address. *)
ToLogin == Load("/login", SafeRedirectTarget(path))

(* The unauthorized handler: the two open pages are not left. *)
Unauthorized == IF path \in Private THEN ToLogin
                ELSE /\ token' = "none" /\ cause' = "none"
                     /\ UNCHANGED place

Aged(t) == IF t = "current" THEN "old" ELSE t

(* The session has another token, or is gone. *)
AgeTokens(why) ==
  /\ token' = Aged(token)
  /\ cause' = IF token = "current" THEN why ELSE cause
  /\ post' = [post EXCEPT !.token = Aged(post.token)]

Init ==
  /\ open \in BOOLEAN /\ alive \in BOOLEAN /\ (open => ~alive)
  /\ path \in Paths /\ redirect = "/"
  /\ boot = NoBoot /\ sess = "pending"
  /\ token = "none" /\ cause = "none"
  /\ ask = [boot |-> "asked", sess |-> "none"]
  /\ post = NoPost /\ form = FreshForm
  /\ events = 0

-----------------------------------------------------------------------------
(* GET /bootstrap/status and GET /auth/session, and the redirects.          *)
(* "failed" is the result after the retries of query-client.ts.             *)

ServeBoot ==
  /\ ask.boot = "asked"
  /\ \E a \in {IF open THEN "open" ELSE "closed", "failed"} : ask' = [ask EXCEPT !.boot = a]
  /\ UNCHANGED <<server, place, queries, memory, post, form, events>>

(* Once the session is needed its query starts, unless it has data. *)
ReceiveBoot ==
  /\ ask.boot \in {"open", "closed", "failed"}
  /\ boot' = IF ask.boot = "failed" THEN [boot EXCEPT !.failed = TRUE]
             ELSE [data |-> ask.boot, failed |-> FALSE]
  /\ ask' = [boot |-> "none",
             sess |-> IF ask.boot = "closed" /\ path # "/login" /\ sess = "pending"
                        /\ ask.sess = "none" THEN "asked" ELSE ask.sess]
  /\ UNCHANGED <<server, place, sess, memory, post, form, events>>

(* The answer may be lost after the server has replaced the token. *)
ServeSession ==
  /\ ask.sess = "asked"
  /\ \/ /\ alive
        /\ \E lost \in BOOLEAN :
             /\ ask' = [ask EXCEPT !.sess = IF lost THEN "failed" ELSE "ok"]
             /\ AgeTokens(IF lost THEN "lost" ELSE "own")
     \/ /\ \/ ask' = [ask EXCEPT !.sess = "failed"]
           \/ ~alive /\ ask' = [ask EXCEPT !.sess = "401"]
        /\ UNCHANGED <<memory, post>>
  /\ UNCHANGED <<server, place, queries, form, events>>

TokenKept ==       \* Mutant: a token that is there is kept
  /\ sess' = "ok"
  /\ IF token = "none" THEN token' = "current" /\ cause' = "none" ELSE UNCHANGED memory

SessionOk ==
  /\ sess' = "ok"
  /\ token' = IF ask.sess = "ok" THEN "current" ELSE "old"
  /\ cause' = IF ask.sess = "ok" THEN "none" ELSE "other"

(* The handler removes the query while it is being fetched.  On the set-up  *)
(* page, which is not left, react-query decides whether the page still      *)
(* learns of the 401 or waits for ever: both are allowed here.              *)
ReceiveSession ==
  /\ ask.sess \in {"ok", "stale", "failed", "401"}
  /\ \/ /\ ask.sess \in {"ok", "stale"}
        /\ SessionOk
        /\ ask' = [ask EXCEPT !.sess = "none"]
        /\ UNCHANGED <<place, boot, post, form>>
     \/ /\ ask.sess = "failed"
        /\ sess' = "unavailable" /\ ask' = [ask EXCEPT !.sess = "none"]
        /\ UNCHANGED <<place, boot, memory, post, form>>
     \/ /\ ask.sess = "401"
        /\ Unauthorized
        /\ path \notin Private =>
             /\ sess' \in {"anonymous", "removed"} /\ ask' = [ask EXCEPT !.sess = "none"]
             /\ UNCHANGED <<boot, post, form>>
  /\ UNCHANGED <<server, events>>

(* The effect of RootLayout. *)
GateRedirect ==
  /\ ResolveAppAccess \in {"/", "/bootstrap", "/login"}
  /\ IF ResolveAppAccess = "/login" THEN ToLogin ELSE Load(ResolveAppAccess, "/")
  /\ UNCHANGED <<server, events>>

(* The retry button; it is there as often as it is needed. *)
RetrySession ==
  /\ Shown = "unavailable" /\ ask.sess = "none"
  /\ events < MaxEvents /\ events' = events + 1
  /\ ask' = [ask EXCEPT !.sess = "asked"]
  /\ UNCHANGED <<server, place, queries, memory, post, form>>

(* Coming back to the window refetches what is older than staleTime. *)
Focus ==
  /\ events < MaxEvents /\ events' = events + 1
  /\ \/ ask.boot = "none" /\ ask' = [ask EXCEPT !.boot = "asked"]
     \/ /\ NeedsSession /\ sess \in {"ok", "anonymous", "unavailable"} /\ ask.sess = "none"
        /\ ask' = [ask EXCEPT !.sess = "asked"]
  /\ UNCHANGED <<server, place, queries, memory, post, form>>

Visit(p) ==
  /\ events < MaxEvents /\ events' = events + 1
  /\ Load(p, "/")
  /\ UNCHANGED server

-----------------------------------------------------------------------------
(* Forms.  pending is what the page has drawn of mutation.isPending: it     *)
(* disables the buttons; the second submit event of one tick precedes it.   *)

Send(kind) ==
  post' = [kind |-> kind, phase |-> "asked", token |-> token, count |-> post.count + 1]

Draw ==
  /\ post.kind # "logout"
  /\ form.pending # (post.phase # "none" \/ form.closing)
  /\ form' = [form EXCEPT !.pending = ~@]
  /\ UNCHANGED <<server, place, queries, memory, ask, post, events>>

SubmitLogin ==
  /\ Shows("/login") /\ ~form.pending
  /\ ~form.started /\ form.remaining = 0
  /\ Send("login") /\ form' = [form EXCEPT !.started = TRUE]
  /\ UNCHANGED <<server, place, queries, memory, ask, events>>

Countdown ==
  /\ form.remaining > 0
  /\ form' = [form EXCEPT !.remaining = @ - 1]
  /\ UNCHANGED <<server, place, queries, memory, ask, post, events>>

(* The wizard: bad are the steps with a field validateStep finds wrong. *)
TypeField ==
  /\ Shows("/bootstrap") /\ form.step < LastStep
  /\ form' = [form EXCEPT !.bad = IF form.step \in @ THEN @ \ {form.step} ELSE @ \cup {form.step}]
  /\ UNCHANGED <<server, place, queries, memory, ask, post, events>>

Advance ==
  /\ Shows("/bootstrap") /\ ~form.pending
  /\ form.step < LastStep /\ form.step \notin form.bad
  /\ form' = [form EXCEPT !.step = @ + 1]
  /\ UNCHANGED <<server, place, queries, memory, ask, post, events>>

Back ==
  /\ Shows("/bootstrap") /\ ~form.pending /\ form.step > 0
  /\ form' = [form EXCEPT !.step = @ - 1]
  /\ UNCHANGED <<server, place, queries, memory, ask, post, events>>

FirstBad == CHOOSE s \in form.bad : \A t \in form.bad : s <= t

(* submit looks at every step again; the reference guards what is sent. *)
SubmitWizard ==
  /\ Shows("/bootstrap") /\ ~form.pending /\ form.step = LastStep
  /\ \/ /\ form.bad # {}
        /\ form' = [form EXCEPT !.step = FirstBad]
        /\ UNCHANGED post
     \/ /\ form.bad = {} /\ ~form.started
        /\ form' = [form EXCEPT !.started = TRUE]
        /\ Send("bootstrap")
  /\ UNCHANGED <<server, place, queries, memory, ask, events>>

(* AppShell.endSession: started is loggingOut. *)
SubmitLogout ==
  /\ Shown = "page" /\ path \in Private /\ ~form.started
  /\ form' = [form EXCEPT !.started = TRUE]
  /\ Send("logout")
  /\ UNCHANGED <<server, place, queries, memory, ask, events>>

-----------------------------------------------------------------------------
(* The server's answers to the forms.  "refused" stands for the answers and *)
(* the lost ones that only change the message shown.                        *)

Answered(a) == post' = [post EXCEPT !.phase = a, !.token = "none"]

Refuse == Answered("refused") /\ UNCHANGED <<alive, memory>>

(* A new session replaces that of the cookie, if the answer arrives. *)
NewSession ==
  /\ alive' = TRUE
  /\ post' = [post EXCEPT !.phase = "ok", !.token = "current"]
  /\ token' = Aged(token) /\ cause' = IF token = "current" THEN "own" ELSE cause

ServeLogin ==
  /\ post.kind = "login" /\ post.phase = "asked"
  /\ \/ ~open /\ NewSession
     \/ Answered("429") /\ UNCHANGED <<alive, memory>>
     \/ Refuse
  /\ UNCHANGED <<open, place, queries, ask, form, events>>

(* A 503 comes after the account was created, without a cookie. *)
ServeBootstrap ==
  /\ post.kind = "bootstrap" /\ post.phase = "asked"
  /\ \/ open /\ NewSession /\ open' = FALSE
     \/ open /\ Refuse /\ open' \in BOOLEAN
     \/ Answered("422") /\ UNCHANGED <<alive, memory, open>>
     \/ ~open /\ Answered("409") /\ UNCHANGED <<alive, memory, open>>
     \/ ~open /\ Refuse /\ UNCHANGED open
  /\ UNCHANGED <<place, queries, ask, form, events>>

ServeLogout ==
  /\ post.kind = "logout" /\ post.phase = "asked"
  /\ \/ /\ alive /\ post.token = "current" /\ alive' = FALSE
        /\ \E r \in {"ok", "refused"} :
             /\ Answered(r)
             /\ token' = Aged(token) /\ cause' = IF r = "ok" THEN "own" ELSE "lost"
     \/ Refuse
     \/ ~alive /\ Answered("401") /\ UNCHANGED <<alive, memory>>
  /\ UNCHANGED <<open, place, queries, ask, form, events>>

-----------------------------------------------------------------------------
(* What the page does with them; an answer comes after the tick in which    *)
(* the request was sent and drawn.                                          *)

Arrived(kind) == post.kind = kind /\ post.phase \notin {"none", "asked"} /\ (form.pending \/ kind = "logout")

ReceiveLogin ==
  /\ Arrived("login")
  /\ \/ /\ post.phase = "ok"
        /\ Load(SafeRedirectTarget(redirect), "/")
     \/ /\ post.phase # "ok"
        /\ form' = [form EXCEPT !.started = FALSE,      \* on this page a 401 has no token to forget
                                !.remaining = IF post.phase = "429" THEN RetryAfter ELSE @]
        /\ post' = NoPost
        /\ UNCHANGED <<place, queries, memory, ask>>
  /\ UNCHANGED <<server, events>>

(* Any error but 409: a field of one of the steps is shown, or a text. *)
WizardError ==
  /\ \E s \in IF post.phase = "422" THEN 0..LastStep ELSE {form.step} :
       form' = [form EXCEPT !.started = FALSE,
                            !.step = IF s = LastStep THEN form.step ELSE s]
  /\ post' = NoPost
  /\ UNCHANGED <<place, queries, memory, ask>>

(* On a 409 the status is fetched again before the page is left. *)
ReceiveBootstrap ==
  /\ Arrived("bootstrap")
  /\ \/ /\ post.phase = "ok"
        /\ Load("/", "/")
     \/ /\ post.phase = "409"
        /\ form' = [form EXCEPT !.started = FALSE, !.closing = TRUE]
        /\ ask' = [ask EXCEPT !.boot = "asked"]
        /\ post' = NoPost
        /\ UNCHANGED <<place, queries, memory>>
     \/ post.phase \notin {"ok", "409"} /\ WizardError
  /\ UNCHANGED <<server, events>>

(* onBootstrapClosed, whatever became of the status. *)
LeaveClosedWizard ==
  /\ form.closing /\ ask.boot = "none"
  /\ Load("/login", "/")
  /\ UNCHANGED <<server, events>>

(* 401 leaves through the handler; a refusal lets the button work again. *)
ReceiveLogout ==
  /\ Arrived("logout")
  /\ \/ post.phase \in {"ok", "401"} /\ ToLogin
     \/ /\ post.phase \notin {"ok", "401"}
        /\ form' = [form EXCEPT !.started = FALSE] /\ post' = NoPost
        /\ UNCHANGED <<place, queries, memory, ask>>
  /\ UNCHANGED <<server, events>>

-----------------------------------------------------------------------------
(* Other tabs of this browser, other browsers, and time. *)

StaleAnswer == [ask EXCEPT !.sess = IF @ = "ok" THEN "stale" ELSE @]

OtherLoads ==       \* another tab asks for the session
  /\ alive
  /\ AgeTokens("other") /\ ask' = StaleAnswer
  /\ UNCHANGED server

OtherLogsIn ==
  /\ ~open /\ alive' = TRUE
  /\ AgeTokens("other") /\ ask' = StaleAnswer
  /\ UNCHANGED open

SessionEnds ==      \* logout in another tab, or expiry
  /\ alive /\ alive' = FALSE
  /\ AgeTokens("other") /\ ask' = StaleAnswer
  /\ UNCHANGED open

OtherBootstraps ==      \* in this browser (with a cookie) or in another one
  /\ open /\ open' = FALSE /\ alive' \in BOOLEAN
  /\ UNCHANGED <<memory, post, ask>>

Other ==
  /\ events < MaxEvents /\ events' = events + 1
  /\ OtherLoads \/ OtherLogsIn \/ SessionEnds \/ OtherBootstraps
  /\ UNCHANGED <<place, queries, form>>

AccessNext ==
  \/ ServeBoot \/ ReceiveBoot \/ ServeSession \/ ReceiveSession \/ GateRedirect
  \/ RetrySession \/ Focus \/ (\E p \in Paths : Visit(p))
  \/ Draw \/ SubmitLogin \/ Countdown \/ TypeField \/ Advance \/ Back \/ SubmitWizard
  \/ SubmitLogout \/ ServeLogin \/ ServeBootstrap \/ ServeLogout
  \/ ReceiveLogin \/ ReceiveBootstrap \/ LeaveClosedWizard \/ ReceiveLogout \/ Other
=============================================================================
