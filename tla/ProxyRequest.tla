------------------------------ MODULE ProxyRequest ------------------------------
(***************************************************************************)
(* A request on /mcp, from its bearer token to the answer: AuthMiddleware, *)
(* the reverse proxy and the logging of bodies on both ways.               *)
(*                                                                         *)
(* The middleware lays the headers mapped from the user's claims, then the *)
(* fixed ones, over those the client sent.  The reverse proxy then takes   *)
(* headers away, those that the Connection header names and some that it   *)
(* always removes, and sets Authorization to the bearer token.  A JWT's    *)
(* claims are mapped at every request, those of a self-issued token were   *)
(* mapped when it was issued.                                              *)
(*                                                                         *)
(* LogHttpRequest reads the client's body to its end before anything is    *)
(* sent, and LogHttpResponse the upstream's before anything is passed on.  *)
(* Both read what there is and ignore why the reading stopped.             *)
(***************************************************************************)
EXTENDS Integers, Functions

CONSTANTS Users,
          Claims,         \* [Users -> [claims of string value -> their value]]
          Headers,        \* canonical header names
          Authorization,  \* one of them
          Stripped,       \* those httputil.ReverseProxy never passes on: its list
                          \* of hop-by-hop headers and, as Rewrite is set,
                          \* Forwarded and X-Forwarded-For, -Host and -Proto
          Bearer,         \* the value "Bearer " and the token of the request
          Own,            \* any other value the client sends for a header
          Deployments,    \* [behavior, mapping, fixed]: the configurations
          None,           \* no token
          MaxParts        \* bound: the parts of a body

Partial(S, T) == UNION {[D -> T] : D \in SUBSET S}
ClaimValues == UNION {Range(Claims[u]) : u \in Users}

ASSUME ProxyAssumption ==
    /\ Authorization \in Headers
    /\ Stripped \subseteq Headers \ {Authorization}
    /\ \A d \in Deployments : /\ d.behavior \in {"proxy", "self_issued"}
                              /\ Range(d.mapping) \subseteq Headers
                              /\ DOMAIN d.fixed \subseteq Headers
    /\ MaxParts \in Nat

VARIABLES deployed,  \* the configuration
          token,     \* the token the client holds, or None
          req        \* where its request is

vars == <<deployed, token, req>>

(***************************************************************************)
(* The headers a mapping makes of a user's claims.  Claims mapped to the   *)
(* same header overwrite each other in the order of a Go map, which is     *)
(* any.                                                                    *)
(***************************************************************************)
SourcesOf(d, u, h) == {c \in DOMAIN Claims[u] \cap DOMAIN d.mapping : d.mapping[c] = h}
MappedNames(d, u) == {h \in Headers : SourcesOf(d, u, h) # {}}
Mapped(d, u) == {f \in [MappedNames(d, u) -> ClaimValues] :
                    \A h \in DOMAIN f : \E c \in SourcesOf(d, u, h) : f[h] = Claims[u][c]}

\* A token, with the configuration it was issued under (history).  A JWT has no
\* headers of its own.
NoHeaders == [h \in {} |-> None]
Issued(u, d) ==
    {[user |-> u, under |-> d, si |-> d.behavior = "self_issued", headers |-> f, live |-> TRUE] :
        f \in IF d.behavior = "self_issued" THEN Mapped(d, u) ELSE {NoHeaders}}

(***************************************************************************)
(* Where the request is: its body on the way to the proxy; with the        *)
(* upstream; the upstream's answer on its way; answered, and then over.    *)
(* A body has size parts, of which got have been read.  chunked: its       *)
(* length was not declared.  broke: the sender broke off before the end.   *)
(* late: the request's context is done.  by and under are history: the     *)
(* token and the configuration that let the request in.                    *)
(***************************************************************************)
Idle == [stage |-> "idle"]
Sizes == 0..MaxParts
Values == ClaimValues \cup {Bearer, Own} \cup UNION {Range(d.fixed) : d \in Deployments}

TypeOK ==
    /\ deployed \in Deployments
    /\ \/ token = None
       \/ \E u \in Users, d \in Deployments : \E i \in Issued(u, d) :
              token \in {i, [i EXCEPT !.live = FALSE]}
    /\ \/ req = Idle
       \/ /\ req.stage \in {"upload", "sent"}
          /\ DOMAIN req = {"stage", "by", "under", "headers", "nominated", "chunked",
                           "size", "got", "broke", "late"}
          /\ req.headers \in Partial(Headers, Values)
          /\ req.size \in Sizes /\ req.got \in 0..req.size
          /\ {req.chunked, req.broke, req.late} \subseteq BOOLEAN
       \/ req \in [stage : {"body"}, chunked : BOOLEAN, size : Sizes, got : Sizes,
                   late : BOOLEAN]
       \/ req \in [stage : {"answered"}, status : {"401", "502"}]
       \/ req \in [stage : {"answered"}, status : {"upstream"}, chunked : BOOLEAN,
                   size : Sizes, got : Sizes, why : {"end", "broke", "late"}]

Init == deployed \in Deployments /\ token = None /\ req = Idle

Free == req.stage \in {"idle", "answered"}
Answer(status) == req' = [stage |-> "answered", status |-> status]
Upstream(got, why) ==
    req' = [stage |-> "answered", status |-> "upstream", chunked |-> req.chunked,
            size |-> req.size, got |-> got, why |-> why]
--------------------------------------------------------------------------------
\* A user signs in: the client holds another token.
Login(u) == /\ token' \in Issued(u, deployed)
            /\ UNCHANGED <<deployed, req>>

\* Mutant: a refresh maps the claims anew.
Refresh_Remaps ==
    /\ token # None
    /\ token.si = (deployed.behavior = "self_issued")
    /\ token' \in {[token EXCEPT !.live = TRUE, !.headers = f] :
                      f \in IF token.si THEN Mapped(deployed, token.user) ELSE {NoHeaders}}
    /\ UNCHANGED <<deployed, req>>

\* A refresh, under the behavior the token was issued under: a self-issued token
\* keeps its headers.
Refresh == /\ token # None
           /\ token.si = (deployed.behavior = "self_issued")
           /\ token' = [token EXCEPT !.live = TRUE]
           /\ UNCHANGED <<deployed, req>>

Expire == /\ token # None
          /\ token' = [token EXCEPT !.live = FALSE]
          /\ UNCHANGED <<deployed, req>>

\* resolveToken: the headers of a live token.
Resolved == IF token.si THEN {token.headers} ELSE Mapped(deployed, token.user)

\* Setting the headers of one map after those of another.
Over(top, below) == [h \in DOMAIN top \cup DOMAIN below |->
                        IF h \in DOMAIN top THEN top[h] ELSE below[h]]

\* The order in which the middleware lays headers over the client's.
\* Mutant: the mapped headers after the fixed ones.
Inject_MappedLast(mapped, own) == Over(mapped, Over(deployed.fixed, own))
Inject(mapped, own) == Over(deployed.fixed, Over(mapped, own))

\* What the reverse proxy makes of them: whoever set a header that it removes.
Outgoing(headers, nominated) ==
    Over([h \in {Authorization} |-> Bearer],
         Restrict(headers, DOMAIN headers \ (nominated \cup Stripped)))

Enter(own, nominated, chunked, size) ==
    \E mapped \in Resolved :
        req' = [stage |-> "upload", by |-> token, under |-> deployed,
                headers |-> Outgoing(Inject(mapped, own), nominated),
                nominated |-> nominated, chunked |-> chunked, size |-> size,
                got |-> 0, broke |-> FALSE, late |-> FALSE]

\* extractBearerToken: the request presents its token, and by the right scheme.
Presented(own) == Authorization \in DOMAIN own /\ own[Authorization] = Bearer

\* That token decrypts and has not expired.
Live == IF token = None THEN FALSE ELSE token.live

\* Mutant: the request goes on whatever the middleware answered.
Refuse_GoesOn(own, nominated, chunked, size) ==
    /\ token # None /\ ~ (Live /\ Presented(own))
    /\ Enter(own, nominated, chunked, size)

\* No bearer token, or one that is no token of the proxy's or has expired: 401,
\* and the chain of handlers ends.
Refuse(own, nominated, chunked, size) ==
    /\ ~ (Live /\ Presented(own))
    /\ Answer("401")

\* The middleware lets the request in.
Admit(own, nominated, chunked, size) ==
    /\ Live /\ Presented(own)
    /\ Enter(own, nominated, chunked, size)

\* The client sends a request with headers of its own, which may lack the bearer
\* token.
Arrive ==
    /\ Free
    /\ \E names \in SUBSET Headers, credential \in {Bearer, Own},
          nominated \in SUBSET Headers, chunked \in BOOLEAN, size \in Sizes :
         LET own == [h \in names |-> IF h = Authorization THEN credential ELSE Own] IN
         \/ Refuse(own, nominated, chunked, size)
         \/ Admit(own, nominated, chunked, size)
    /\ UNCHANGED <<deployed, token>>

UploadPart == /\ req.stage = "upload" /\ req.got < req.size
              /\ req' = [req EXCEPT !.got = @ + 1]
              /\ UNCHANGED <<deployed, token>>

\* The body that was read takes the place of the one that was there.
Send(got, broke) == req' = [req EXCEPT !.stage = "sent", !.got = got, !.broke = broke]

\* Mutant: what was read for the log is not put back.
UploadEnds_Consumed == /\ req.stage = "upload" /\ req.got = req.size
                       /\ IF req.chunked \/ req.size = 0 THEN Send(0, FALSE)
                                                         ELSE Answer("502")
                       /\ UNCHANGED <<deployed, token>>
UploadEnds == /\ req.stage = "upload" /\ req.got = req.size
              /\ Send(req.got, FALSE)
              /\ UNCHANGED <<deployed, token>>

\* The client's body breaks off.  A broken connection ends the request's context,
\* and a body shorter than it was declared makes the transport fail; but a chunked
\* body with a malformed chunk is sent as if it had ended there.
UploadBreaks == /\ req.stage = "upload" /\ req.got < req.size
                /\ \/ req.chunked /\ Send(req.got, TRUE)
                   \/ Answer("502")
                /\ UNCHANGED <<deployed, token>>

\* The 30 seconds are over, or the client has gone.  Nobody looks at the
\* context while the client's body is read.
ContextDone == /\ req.stage \in {"upload", "sent", "body"} /\ ~ req.late
               /\ req' = [req EXCEPT !.late = TRUE]
               /\ UNCHANGED <<deployed, token>>

\* The upstream cannot be reached or breaks off before its status line.
UpstreamFails == /\ req.stage = "sent"
                 /\ Answer("502")
                 /\ UNCHANGED <<deployed, token>>

\* The transport gives up when the context is done.
SendCancelled == /\ req.stage = "sent" /\ req.late
                 /\ Answer("502")
                 /\ UNCHANGED <<deployed, token>>

\* The upstream's status line and headers.
UpstreamAnswers ==
    /\ req.stage = "sent"
    /\ \E chunked \in BOOLEAN, size \in Sizes :
         req' = [stage |-> "body", chunked |-> chunked, size |-> size, got |-> 0,
                 late |-> req.late]
    /\ UNCHANGED <<deployed, token>>

AnswerPart == /\ req.stage = "body" /\ req.got < req.size
              /\ req' = [req EXCEPT !.got = @ + 1]
              /\ UNCHANGED <<deployed, token>>

\* Mutant: the body that was read for the log is not put back.
AnswerEnds_Consumed == /\ req.stage = "body" /\ req.got = req.size
                       /\ Upstream(0, "end")
                       /\ UNCHANGED <<deployed, token>>

\* What was read is passed on with the upstream's status and headers: when the
\* answer has ended ...
AnswerEnds == /\ req.stage = "body" /\ req.got = req.size
              /\ Upstream(req.got, "end")
              /\ UNCHANGED <<deployed, token>>

\* ... when the upstream has broken it off ...
AnswerBreaks == /\ req.stage = "body" /\ req.got < req.size
                /\ Upstream(req.got, "broke")
                /\ UNCHANGED <<deployed, token>>

\* Mutant: the reading does not see the context.
AnswerCancelled_Detached == /\ req.stage = "body" /\ req.late /\ req.got = req.size
                            /\ Upstream(req.got, "late")
                            /\ UNCHANGED <<deployed, token>>
\* ... and when the context is done.
AnswerCancelled == /\ req.stage = "body" /\ req.late
                   /\ Upstream(req.got, "late")
                   /\ UNCHANGED <<deployed, token>>

\* A restart, perhaps with another configuration.  Requests are lost, tokens
\* are not.
Redeploy(d) == /\ deployed' = d
               /\ req' = Idle
               /\ UNCHANGED token

Next == \/ \E u \in Users : Login(u)
        \/ Refresh \/ Expire
        \/ Arrive
        \/ UploadPart \/ UploadEnds \/ UploadBreaks
        \/ ContextDone
        \/ UpstreamFails \/ SendCancelled \/ UpstreamAnswers
        \/ AnswerPart \/ AnswerEnds \/ AnswerBreaks \/ AnswerCancelled
        \/ \E d \in Deployments : Redeploy(d)

Spec == Init /\ [][Next]_vars

\* The deadline passes, and who waits for the upstream is told.
FairSpec == Spec /\ WF_vars(ContextDone)
                 /\ WF_vars(SendCancelled) /\ WF_vars(AnswerCancelled)
--------------------------------------------------------------------------------
\* The names that a request's token gives a value to: under the configuration it
\* was issued under, or for a JWT under the one in force.
MappingOf(r) == IF r.by.si THEN r.by.under ELSE r.under

(***************************************************************************)
(* HeadersVouched: whatever goes upstream has a token that was live when   *)
(* it was let in and carries that token, the client's own, as its bearer,  *)
(* even where the configuration sets Authorization (the README's "No token *)
(* passthrough" is not what the code does); a fixed header has its         *)
(* configured value; a header some claim of the user is mapped to has the  *)
(* value of such a claim, never one the client sent; and such a header is  *)
(* missing only if the client called it hop-by-hop or the reverse proxy    *)
(* passes it on for nobody, in which case it does not reach the upstream   *)
(* at all.  Where no claim is carried, the client's own value passes.      *)
(***************************************************************************)
HeadersVouched ==
    req.stage \in {"upload", "sent"} =>
        /\ req.by.live
        /\ req.headers[Authorization] = Bearer
        /\ \A h \in DOMAIN req.headers \ {Authorization} :
             LET sources == SourcesOf(MappingOf(req), req.by.user, h) IN
             IF h \in DOMAIN req.under.fixed THEN req.headers[h] = req.under.fixed[h]
             ELSE IF sources # {}
                  THEN \E c \in sources : req.headers[h] = Claims[req.by.user][c]
                  ELSE req.headers[h] = Own
        /\ DOMAIN req.under.fixed \cup MappedNames(MappingOf(req), req.by.user)
              \subseteq DOMAIN req.headers \cup req.nominated \cup Stripped
        /\ DOMAIN req.headers \cap Stripped = {}

\* The upstream's answer, complete as far as the client can see: a body that
\* falls short of its declared length makes the server close the connection.
LooksComplete == /\ req.stage = "answered" /\ req.status = "upstream"
                 /\ req.chunked \/ req.got = req.size

(***************************************************************************)
(* BodiesWhole: although both bodies are read for the log before they go   *)
(* on, and errors of the reading are ignored, the upstream gets the body   *)
(* as the client sent it, and an answer that looks complete to the client  *)
(* is the upstream's to its end; except for a body of undeclared length    *)
(* whose sender broke off, or whose request ran out of time.               *)
(***************************************************************************)
BodiesWhole ==
    /\ req.stage = "sent" /\ req.got < req.size => req.chunked /\ req.broke
    /\ LooksComplete /\ req.got < req.size => req.chunked /\ req.why # "end"

(***************************************************************************)
(* ExchangeEnds: a request that has been sent upstream is answered, also   *)
(* when the upstream stalls before or within its answer, or streams        *)
(* without end.  While the client's own body is read nothing ends it.      *)
(***************************************************************************)
ExchangeEnds == req.stage \in {"sent", "body"} ~> Free

(***************************************************************************)
(* UpstreamErrorTold: no client takes a broken off answer for a complete   *)
(* one; an upstream error is a 502, or at least a broken connection.  The  *)
(* code does not do this.                                                  *)
(***************************************************************************)
UpstreamErrorTold == LooksComplete => req.got = req.size
================================================================================
