--------------------------- MODULE OperatorLogin ---------------------------
(***************************************************************************)
(* Login of operators by magic links (cockpit/tokens.py, auth_backends.py,  *)
(* routes/auth.py, cli/cockpit.py).  A request waits for its approval, by   *)
(* the command line or, when the cockpit approves by itself, at once; the   *)
(* approval mints a token, marks the request as fulfilled and mails a link. *)
(*                                                                          *)
(* Every commit is a step: the web server, which runs one handler at a time *)
(* on its event loop, and the command line see each other's rows between    *)
(* them, and either may end between two of them.                            *)
(***************************************************************************)
EXTENDS Integers, Sequences, FiniteSets

CONSTANTS
    User,
    MaxRequests,   \* bound on login requests
    MaxTokens,     \* bound on tokens
    TTL,           \* TOKEN_TTL_MINUTES, in ticks
    Window,        \* LOGIN_WINDOW_SECONDS, in ticks
    MaxAttempts,   \* LOGIN_MAX_ATTEMPTS
    MaxTime,       \* bound on the clock
    MaxLoginRestarts,   \* bound on restarts of the cockpit and aborted commands
    AutoApprove    \* cockpit_auto_approve_login

ASSUME LoginAssumption ==
    /\ MaxRequests \in Nat /\ MaxTokens \in Nat /\ TTL \in Nat /\ Window \in Nat
    /\ MaxAttempts \in Nat \ {0} /\ MaxTime \in Nat /\ MaxLoginRestarts \in Nat
    /\ AutoApprove \in BOOLEAN

VARIABLES
    disabled,  \* the disabled users
    requests,  \* the rows of login_requests
    tokens,    \* the rows of login_tokens
    proc,      \* what the web server and the command line are in the middle of
    outbox,    \* tokens whose link is being mailed
    links,     \* tokens whose link has arrived
    sessions,  \* the number of sessions started by each user
    hits,      \* the rate limiter's deque, of one client
    cleaning,  \* the startup thread has not cleaned up yet
    now,
    loginRestarts,
    allowed,   \* history variable: when posts were allowed
    doubled,   \* history variable: users of whom one request was approved twice at once
    stuck      \* history variable: users with a request that only the command line can fulfil

rows == <<requests, tokens>>
history == <<allowed, doubled, stuck>>
loginVars == <<disabled, rows, proc, outbox, links, sessions, hits, cleaning, now, loginRestarts, history>>

Process == {"web", "cli"}
Resting == [pc |-> "idle", id |-> 0]   \* id: a user, request or token, by the step
Step(p, pc, id) == proc' = [proc EXCEPT ![p] = [pc |-> pc, id |-> id]]

PendingOf(u) == {r \in DOMAIN requests : requests[r] = [user |-> u, st |-> "pending"]}
FirstPending(u) == CHOOSE r \in PendingOf(u) : \A s \in PendingOf(u) : r <= s
Expired(t) == now > tokens[t].expires

-----------------------------------------------------------------------------
(* The rate limiter.                                                        *)

\* s from its first element in fresh on
From(s, fresh) ==
    IF fresh = {} THEN <<>>
    ELSE SubSeq(s, CHOOSE i \in fresh : \A j \in fresh : i <= j, Len(s))

\* Faulty variant: a hit that is exactly one window old is dropped
RecentOpen(s) == From(s, {i \in DOMAIN s : now - s[i] < Window})

\* the hits that popleft leaves
Recent(s) == From(s, {i \in DOMAIN s : now - s[i] <= Window})

-----------------------------------------------------------------------------
(* Requests.                                                                *)

\* login_post: allow, and the look at the user and at pending requests
PostLogin(u) ==
    /\ proc["web"] = Resting
    /\ IF Len(Recent(hits)) >= MaxAttempts
       THEN hits' = Recent(hits) /\ UNCHANGED <<proc, allowed>>
       ELSE /\ hits' = Append(Recent(hits), now)
            /\ allowed' = Append(allowed, now)
            /\ IF u \in disabled \/ PendingOf(u) # {} THEN UNCHANGED proc
               ELSE Len(requests) < MaxRequests /\ Step("web", "creating", u)
    /\ UNCHANGED <<disabled, rows, outbox, links, sessions, cleaning, now, loginRestarts, doubled, stuck>>

\* kai cockpit request create
RequestCreate(u) ==
    /\ proc["cli"] = Resting
    /\ u \notin disabled /\ PendingOf(u) = {} /\ Len(requests) < MaxRequests
    /\ Step("cli", "creating", u)
    /\ stuck' = stuck \cup {u}
    /\ UNCHANGED <<disabled, rows, outbox, links, sessions, hits, cleaning, now, loginRestarts,
                   allowed, doubled>>

\* create_login_request commits its row; the web server goes on to approve it
CreateRequest(p) ==
    /\ proc[p].pc = "creating" /\ Len(requests) < MaxRequests
    /\ LET u == proc[p].id
       IN  /\ requests' = Append(requests, [user |-> u, st |-> "pending"])
           /\ IF p = "web" /\ AutoApprove THEN Step(p, "approving", u)
              ELSE proc' = [proc EXCEPT ![p] = Resting]
    /\ UNCHANGED <<disabled, tokens, outbox, links, sessions, hits, cleaning, now, loginRestarts, history>>

-----------------------------------------------------------------------------
(* Approval.                                                                *)

\* kai cockpit request approve
RequestApprove(u) ==
    /\ proc["cli"] = Resting
    /\ u \notin disabled
    /\ Step("cli", "approving", u)
    /\ UNCHANGED <<disabled, rows, outbox, links, sessions, hits, cleaning, now, loginRestarts, history>>

\* initiate_login finds the pending request, or raises when the other process was faster
FindRequest(p) ==
    /\ proc[p].pc = "approving"
    /\ LET u == proc[p].id
       IN  IF PendingOf(u) = {}
           THEN /\ proc' = [proc EXCEPT ![p] = Resting]
                /\ doubled' = doubled
           ELSE /\ Step(p, "minting", FirstPending(u))
                /\ doubled' = IF \E q \in Process \ {p} :
                                  \/ proc[q] = [pc |-> "minting", id |-> FirstPending(u)]
                                  \/ proc[q].pc = "fulfilling"
                                     /\ tokens[proc[q].id].request = FirstPending(u)
                              THEN doubled \cup {u} ELSE doubled
    /\ UNCHANGED <<disabled, rows, outbox, links, sessions, hits, cleaning, now, loginRestarts,
                   allowed, stuck>>

\* create_login_token
Mint(p) ==
    /\ proc[p].pc = "minting" /\ Len(tokens) < MaxTokens
    /\ LET r == proc[p].id
       IN  tokens' = Append(tokens, [user |-> requests[r].user, request |-> r,
                                     expires |-> now + TTL, st |-> "live"])
    /\ Step(p, "fulfilling", Len(tokens'))
    /\ UNCHANGED <<disabled, requests, outbox, links, sessions, hits, cleaning, now, loginRestarts, history>>

\* Faulty variant: the request stays pending
FulfillNothing(p) ==
    /\ proc[p].pc = "fulfilling"
    /\ proc' = [proc EXCEPT ![p] = Resting]
    /\ outbox' = outbox \cup {proc[p].id}
    /\ UNCHANGED <<disabled, rows, links, sessions, hits, cleaning, now, loginRestarts, history>>

\* fulfill_request; then the link is mailed, by the web server in the background
Fulfill(p) ==
    /\ proc[p].pc = "fulfilling"
    /\ requests' = [requests EXCEPT ![tokens[proc[p].id].request].st = "fulfilled"]
    /\ proc' = [proc EXCEPT ![p] = Resting]
    /\ outbox' = outbox \cup {proc[p].id}
    /\ UNCHANGED <<disabled, tokens, links, sessions, hits, cleaning, now, loginRestarts, history>>

\* send_magic_link, which may fail
SendMagicLink(t) ==
    /\ t \in outbox
    /\ outbox' = outbox \ {t}
    /\ links' \in {links, links \cup {t}}
    /\ UNCHANGED <<disabled, rows, proc, sessions, hits, cleaning, now, loginRestarts, history>>

-----------------------------------------------------------------------------
(* Sessions, users and restarts.                                            *)

\* what consume_login_token accepts
Usable(t) == tokens[t].st = "live" /\ ~Expired(t)

\* Faulty variant: the token is not marked
ConsumeAgain(t) ==
    /\ proc["web"] = Resting
    /\ t \in links /\ Usable(t)
    /\ sessions' = [sessions EXCEPT ![tokens[t].user] = @ + 1]
    /\ UNCHANGED <<disabled, rows, proc, outbox, links, hits, cleaning, now, loginRestarts, history>>

\* login_auth, with consume_login_token all in one handler
Consume(t) ==
    /\ proc["web"] = Resting
    /\ t \in links /\ Usable(t)
    /\ tokens' = [tokens EXCEPT ![t].st = "consumed"]
    /\ sessions' = [sessions EXCEPT ![tokens[t].user] = @ + 1]
    /\ UNCHANGED <<disabled, requests, proc, outbox, links, hits, cleaning, now, loginRestarts, history>>

\* kai cockpit user disable
Disable(u) ==
    /\ u \notin disabled /\ proc["cli"] = Resting
    /\ disabled' = disabled \cup {u}
    /\ UNCHANGED <<rows, proc, outbox, links, sessions, hits, cleaning, now, loginRestarts, history>>

\* the user of a request that a process was creating or approving
UserOf(p) ==
    CASE proc[p].pc \in {"creating", "approving"} -> {proc[p].id}
      [] proc[p].pc = "minting" -> {requests[proc[p].id].user}
      [] proc[p].pc = "fulfilling" -> {tokens[proc[p].id].user}
      [] OTHER -> {}

\* the cockpit ends and starts again, with an empty limiter and a thread that cleans up
CockpitRestarts ==
    /\ loginRestarts < MaxLoginRestarts
    /\ loginRestarts' = loginRestarts + 1
    /\ proc' = [proc EXCEPT !["web"] = Resting]
    /\ outbox' = {} /\ hits' = <<>> /\ allowed' = <<>> /\ cleaning' = TRUE
    /\ stuck' = stuck \cup UserOf("web")
    /\ UNCHANGED <<disabled, rows, links, sessions, now, doubled>>

\* a command ends before it is done
CommandAborts ==
    /\ loginRestarts < MaxLoginRestarts /\ proc["cli"] # Resting
    /\ loginRestarts' = loginRestarts + 1
    /\ proc' = [proc EXCEPT !["cli"] = Resting]
    /\ UNCHANGED <<disabled, rows, outbox, links, sessions, hits, cleaning, now, history>>

\* cleanup_expired_tokens
CleanUp ==
    /\ cleaning
    /\ cleaning' = FALSE
    /\ tokens' = [t \in DOMAIN tokens |-> IF tokens[t].st = "live" /\ Expired(t)
                                          THEN [tokens[t] EXCEPT !.st = "deleted"] ELSE tokens[t]]
    /\ UNCHANGED <<disabled, requests, proc, outbox, links, sessions, hits, now, loginRestarts, history>>

Tick ==
    /\ now < MaxTime
    /\ now' = now + 1
    /\ UNCHANGED <<disabled, rows, proc, outbox, links, sessions, hits, cleaning, loginRestarts, history>>

-----------------------------------------------------------------------------
LoginInit ==
    /\ disabled = {} /\ requests = <<>> /\ tokens = <<>>
    /\ proc = [p \in Process |-> Resting]
    /\ outbox = {} /\ links = {} /\ sessions = [u \in User |-> 0]
    /\ hits = <<>> /\ cleaning = TRUE /\ now = 0 /\ loginRestarts = 0
    /\ allowed = <<>> /\ doubled = {} /\ stuck = {}

LoginNext ==
    \/ \E u \in User : PostLogin(u) \/ RequestCreate(u) \/ RequestApprove(u) \/ Disable(u)
    \/ \E p \in Process : CreateRequest(p) \/ FindRequest(p) \/ Mint(p) \/ Fulfill(p)
    \/ \E t \in DOMAIN tokens : SendMagicLink(t) \/ Consume(t)
    \/ CockpitRestarts \/ CommandAborts \/ CleanUp \/ Tick

LoginSpec == LoginInit /\ [][LoginNext]_loginVars

-----------------------------------------------------------------------------
(* Properties.                                                              *)

\* A user starts no more sessions than requests of theirs were approved: tokens are used once
\* and in time, a request yields one, and an interrupted approval yields none.  Only two
\* approvals of one request at the same time (web and command line) break this.
SessionsAreApproved ==
    \A u \in User \ doubled :
        sessions[u] <= Cardinality({r \in DOMAIN requests : requests[r].user = u
                                                            /\ requests[r].st = "fulfilled"})

\* A cockpit that approves requests by itself leaves none pending, which would make it ignore
\* all later ones of that user; only a request of the command line, or one that a restart
\* interrupted, stays.
NobodyIsLockedOut ==
    AutoApprove /\ proc["web"] = Resting => \A u \in User \ stuck : PendingOf(u) = {}

\* However posts, refusals and pruning alternate, no closed interval of one window holds more
\* allowed posts than the limit (LoginRateLimiter.allow).
WindowsAreLimited ==
    \A i \in DOMAIN allowed :
        Cardinality({j \in DOMAIN allowed : allowed[j] - allowed[i] \in 0..Window}) <= MaxAttempts
=============================================================================
