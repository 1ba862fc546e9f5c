------------------------------- MODULE HttpServer -------------------------------
(***************************************************************************)
(* The HTTP front of the Python gateway (abir_guard/mcp_http.py): the rate *)
(* limiter and the audit list, shared by the threads that serve one        *)
(* socket.  is_allowed reads the clock before it takes its lock, so a      *)
(* thread that waited prunes and stamps with an old reading; _log_audit    *)
(* has no lock at all.  What the vault does is in PyGateway.               *)
(***************************************************************************)
EXTENDS Integers, Sequences, FiniteSets, SequencesExt, Vectors

CONSTANTS
    Servers,        \* threads in serve_forever
    Clients,        \* addresses after _get_client_ip
    MaxPerWindow,   \* max_requests
    Window,
    LastSecond,     \* bound: the last time the clock shows
    MaxPosts        \* bound: requests received

ASSUME LimiterAssumption ==
    /\ IsFiniteSet(Servers)
    /\ MaxPerWindow \in Nat /\ Window \in Nat \ {0} /\ LastSecond \in Nat

VARIABLES
    second,      \* time.time()
    requests,    \* RateLimiter._requests: the stamps of each client
    serving,     \* what each thread is doing
    chain,       \* McpHttpHandler.audit_log: of each entry, the entry whose hash it carries
    refusals,    \* history: the clients that were refused, and their clock readings
    admitted,    \* history: who was admitted, and when the lock was held
    posts

httpVars == <<second, requests, serving, chain, refusals, admitted, posts>>

Waiting == [step |-> "waiting"]

-------------------------------------------------------------------------------
HttpInit ==
    /\ second = 0
    /\ requests = [c \in Clients |-> <<>>]
    /\ serving = [s \in Servers |-> Waiting]
    /\ chain = <<>>
    /\ refusals = {}
    /\ admitted = <<>>
    /\ posts = 0

In(s, step) == serving[s].step = step
Becomes(s, state) == serving' = [serving EXCEPT ![s] = state]

\* do_POST up to the clock reading of is_allowed
Receive(s, c) ==
    /\ In(s, "waiting") /\ posts < MaxPosts
    /\ posts' = posts + 1
    /\ Becomes(s, [step |-> "limiting", client |-> c, now |-> second, after |-> 0])
    /\ UNCHANGED <<second, requests, chain, refusals, admitted>>

Recent(c, now) == retain(requests[c], {t \in ToSet(requests[c]) : t <= now - Window})

Refuse(s) ==
    /\ Becomes(s, [serving[s] EXCEPT !.step = "logging", !.now = 0])
    /\ refusals' = refusals \union {[client |-> serving[s].client, now |-> serving[s].now]}
    /\ UNCHANGED admitted

Admit(s) ==
    /\ Becomes(s, [serving[s] EXCEPT !.step = "checking", !.now = 0])
    /\ admitted' = Append(admitted, [client |-> serving[s].client, at |-> second])
    /\ UNCHANGED refusals

\* the section under the lock
Mutant_CountsRefused(s) ==
    LET c == serving[s].client
        now == serving[s].now
        recent == Recent(c, now)
    IN  /\ In(s, "limiting")
        /\ requests' = [requests EXCEPT ![c] = Append(recent, now)]
        /\ \/ Len(recent) >= MaxPerWindow /\ Refuse(s)
           \/ Len(recent) < MaxPerWindow /\ Admit(s)
        /\ UNCHANGED <<second, chain, posts>>
is_allowed(s) ==
    LET c == serving[s].client
        now == serving[s].now
        recent == Recent(c, now)
    IN  /\ In(s, "limiting")
        /\ \/ /\ Len(recent) >= MaxPerWindow
              /\ requests' = [requests EXCEPT ![c] = recent]
              /\ Refuse(s)
           \/ /\ Len(recent) < MaxPerWindow
              /\ requests' = [requests EXCEPT ![c] = Append(recent, now)]
              /\ Admit(s)
        /\ UNCHANGED <<second, chain, posts>>

\* a wrong key, a body that is too large or no JSON, or what McpServer.handle answers:
\* each is logged
Check(s) ==
    /\ In(s, "checking")
    /\ Becomes(s, [serving[s] EXCEPT !.step = "logging"])
    /\ UNCHANGED <<second, requests, chain, refusals, admitted, posts>>

\* a Content-Length that is no number or a body that is not UTF-8: the handler raises
\* and the connection is closed
Raises(s) ==
    /\ In(s, "checking")
    /\ Becomes(s, Waiting)
    /\ UNCHANGED <<second, requests, chain, refusals, admitted, posts>>

\* _log_audit reads the last entry, and then appends one that carries its hash
ReadEntry(s) ==
    /\ In(s, "logging")
    /\ Becomes(s, [serving[s] EXCEPT !.step = "appending", !.after = Len(chain)])
    /\ UNCHANGED <<second, requests, chain, refusals, admitted, posts>>

AppendEntry(s) ==
    /\ In(s, "appending")
    /\ chain' = Append(chain, serving[s].after)
    /\ Becomes(s, [serving[s] EXCEPT !.step = "replying"])
    /\ UNCHANGED <<second, requests, refusals, admitted, posts>>

Respond(s) ==
    /\ In(s, "replying")
    /\ Becomes(s, Waiting)
    /\ UNCHANGED <<second, requests, chain, refusals, admitted, posts>>

NextSecond ==
    /\ second < LastSecond
    /\ second' = second + 1
    /\ UNCHANGED <<requests, serving, chain, refusals, admitted, posts>>

HttpNext ==
    \/ \E s \in Servers :
          \/ \E c \in Clients : Receive(s, c)
          \/ is_allowed(s) \/ Check(s) \/ Raises(s)
          \/ ReadEntry(s) \/ AppendEntry(s) \/ Respond(s)
    \/ NextSecond

HttpSpec == HttpInit /\ [][HttpNext]_httpVars

-------------------------------------------------------------------------------
AdmittedIn(c, from, to) ==
    Cardinality({i \in DOMAIN admitted :
                    admitted[i].client = c /\ admitted[i].at \in from..to})

\* "requests per minute per IP" (mcp_http.py:27), as far as the early reading of the clock
\* lets it hold: in no window is a client admitted more often than the limit and one late
\* request of each thread, whose old stamp is pruned too early; and a client told to retry
\* after a window had used its limit since a window before it asked.
RateLimited ==
    /\ \A c \in Clients, from \in 0..LastSecond :
          AdmittedIn(c, from, from + Window - 1) <= MaxPerWindow + Cardinality(Servers)
    /\ \A r \in refusals : AdmittedIn(r.client, r.now - Window + 1, second) >= MaxPerWindow
===============================================================================
