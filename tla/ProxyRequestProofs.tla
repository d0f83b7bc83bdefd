--------------------------- MODULE ProxyRequestProofs ---------------------------
(***************************************************************************)
(* Theorems about ProxyRequest, for every set of users, claims, headers    *)
(* and configurations and bodies of any bounded size.  The three           *)
(* invariants are inductive together: HeadersVouched needs TypeOK for what *)
(* the headers of a self-issued token are, namely a mapping that the       *)
(* configuration it was issued under allows, and BodiesWhole needs it for  *)
(* the range of what has been read.                                        *)
(***************************************************************************)
EXTENDS ProxyRequest, TLAPS

RequestInv == TypeOK /\ HeadersVouched /\ BodiesWhole

\* What HeadersVouched says of the headers out that leave the proxy, of a user,
\* under some fixed headers and the mapping of a configuration.
Vouched(out, fixed, mapping, user, nominated) ==
    /\ out[Authorization] = Bearer
    /\ \A h \in DOMAIN out \ {Authorization} :
          LET sources == SourcesOf(mapping, user, h) IN
          IF h \in DOMAIN fixed THEN out[h] = fixed[h]
          ELSE IF sources # {} THEN \E c \in sources : out[h] = Claims[user][c]
                               ELSE out[h] = Own
    /\ DOMAIN fixed \cup MappedNames(mapping, user)
          \subseteq DOMAIN out \cup nominated \cup Stripped
    /\ DOMAIN out \cap Stripped = {}

\* The headers a client sends: some value for Authorization, and its own for others.
ClientHeaders(names, credential) ==
    [h \in names |-> IF h = Authorization THEN credential ELSE Own]
--------------------------------------------------------------------------------
\* Setting headers over others: what names there are, and whose value each has.
LEMMA OverProps ==
    ASSUME NEW top, NEW below
    PROVE  /\ \A h : h \in DOMAIN Over(top, below) <=> h \in DOMAIN top \/ h \in DOMAIN below
           /\ \A h \in DOMAIN top : Over(top, below)[h] = top[h]
           /\ \A h \in DOMAIN below \ DOMAIN top : Over(top, below)[h] = below[h]
  BY DEF Over

\* What a mapping makes of a user's claims has the names the mapping gives a
\* value to, and each the value of a claim that is mapped to it.
LEMMA MappedProps ==
    ASSUME NEW d, NEW u, NEW f \in Mapped(d, u)
    PROVE  /\ DOMAIN f = MappedNames(d, u) /\ DOMAIN f \subseteq Headers
           /\ \A h \in DOMAIN f : /\ f[h] \in ClaimValues
                                  /\ \E c \in SourcesOf(d, u, h) : f[h] = Claims[u][c]
           /\ \A h \in Headers \ DOMAIN f : SourcesOf(d, u, h) = {}
  BY DEF Mapped, MappedNames

\* The token the client holds: a self-issued one carries headers that the
\* configuration it was issued under makes of its user's claims.
LEMMA TokenProps ==
    ASSUME TypeOK, token # None
    PROVE  /\ token.user \in Users /\ token.under \in Deployments
           /\ token.si \in BOOLEAN
           /\ token.si => token.headers \in Mapped(token.under, token.user)
  <1>1. PICK u \in Users, d \in Deployments : \E i \in Issued(u, d) :
              token \in {i, [i EXCEPT !.live = FALSE]}
    BY DEF TypeOK
  <1>2. PICK i \in Issued(u, d) : token \in {i, [i EXCEPT !.live = FALSE]}
    BY <1>1
  <1>3. PICK f \in (IF d.behavior = "self_issued" THEN Mapped(d, u) ELSE {NoHeaders}) :
              i = [user |-> u, under |-> d, si |-> d.behavior = "self_issued",
                   headers |-> f, live |-> TRUE]
    BY <1>2 DEF Issued
  <1>4. /\ token.user = u /\ token.under = d
        /\ token.si = (d.behavior = "self_issued") /\ token.headers = f
    <2>1. CASE token = i
      BY <2>1, <1>3
    <2>2. CASE token = [i EXCEPT !.live = FALSE]
      BY <2>2, <1>3
    <2> QED
      BY <1>2, <2>1, <2>2
  <1> QED
    BY <1>3, <1>4

\* Whatever becomes of its life, a token stays of its type.
LEMMA TokenMarked ==
    ASSUME TypeOK, token # None, NEW b \in BOOLEAN,
           token' = [token EXCEPT !.live = b]
    PROVE  \E u \in Users, d \in Deployments : \E i \in Issued(u, d) :
              token' \in {i, [i EXCEPT !.live = FALSE]}
  <1>1. PICK u \in Users, d \in Deployments : \E i \in Issued(u, d) :
              token \in {i, [i EXCEPT !.live = FALSE]}
    BY DEF TypeOK
  <1>2. PICK i \in Issued(u, d) : token \in {i, [i EXCEPT !.live = FALSE]}
    BY <1>1
  <1>3. PICK f : i = [user |-> u, under |-> d, si |-> d.behavior = "self_issued",
                      headers |-> f, live |-> TRUE]
    BY <1>2 DEF Issued
  <1>4. token' \in {i, [i EXCEPT !.live = FALSE]}
    <2>1. [i EXCEPT !.live = i.live] = i /\ i.live = TRUE
      BY <1>3
    <2>2. token' = [i EXCEPT !.live = b]
      BY <1>2, <1>3
    <2>3. CASE b = TRUE
      BY <2>1, <2>2, <2>3
    <2>4. CASE b = FALSE
      BY <2>2, <2>4
    <2> QED
      BY <2>3, <2>4
  <1> QED
    BY <1>2, <1>4

\* What the middleware and the proxy send on for a live token.
LEMMA EntryProps ==
    ASSUME TypeOK, token # None, deployed \in Deployments,
           NEW names \in SUBSET Headers, NEW credential \in {Bearer, Own},
           NEW nominated \in SUBSET Headers, NEW mapped \in Resolved, NEW by, by = (IF token.si THEN token.under ELSE deployed)
    PROVE  LET out == Outgoing(Inject(mapped, ClientHeaders(names, credential)),
                               nominated) IN
           /\ out \in Partial(Headers, Values)
           /\ Vouched(out, deployed.fixed, by, token.user, nominated)
  <1> DEFINE own == ClientHeaders(names, credential)
             out == Outgoing(Inject(mapped, own), nominated)
  <1>1. mapped \in Mapped(by, token.user)
    BY TokenProps DEF Resolved
  <1>2. /\ DOMAIN mapped = MappedNames(by, token.user)
        /\ DOMAIN mapped \subseteq Headers
        /\ \A h \in DOMAIN mapped :
              /\ mapped[h] \in ClaimValues
              /\ \E c \in SourcesOf(by, token.user, h) : mapped[h] = Claims[token.user][c]
        /\ \A h \in Headers \ DOMAIN mapped : SourcesOf(by, token.user, h) = {}
    BY <1>1, MappedProps
  <1>3. /\ DOMAIN own = names
        /\ \A h \in DOMAIN own \ {Authorization} : own[h] = Own
    BY DEF ClientHeaders
  <1>4. /\ Authorization \in Headers \ Stripped /\ DOMAIN deployed.fixed \subseteq Headers
        /\ \A h \in DOMAIN deployed.fixed : deployed.fixed[h] \in Values
        /\ ClaimValues \subseteq Values /\ Bearer \in Values /\ Own \in Values
    BY ProxyAssumption DEF Values, Range
  <1> DEFINE fixed == deployed.fixed
             under == Over(mapped, own)
             headers == Over(fixed, under)
  <1>5. /\ \A h : h \in DOMAIN under <=> h \in DOMAIN mapped \/ h \in DOMAIN own
        /\ \A h \in DOMAIN mapped : under[h] = mapped[h]
        /\ \A h \in DOMAIN own \ DOMAIN mapped : under[h] = own[h]
    BY OverProps
  <1>6. /\ \A h : h \in DOMAIN headers <=> h \in DOMAIN fixed \/ h \in DOMAIN under
        /\ \A h \in DOMAIN fixed : headers[h] = fixed[h]
        /\ \A h \in DOMAIN under \ DOMAIN fixed : headers[h] = under[h]
    BY OverProps
  <1>7. /\ \A h : h \in DOMAIN out <=>
                     \/ h = Authorization
                     \/ h \in DOMAIN headers /\ h \notin nominated \cup Stripped
        /\ out = [h \in DOMAIN out |-> out[h]]
        /\ out[Authorization] = Bearer
        /\ \A h \in DOMAIN out \ {Authorization} :
              h \in DOMAIN headers /\ out[h] = headers[h]
    <2>1. out = Outgoing(headers, nominated)
      BY DEF Inject
    <2> HIDE DEF headers
    <2> QED
      BY <2>1 DEF Outgoing, Over, Restrict
  <1> HIDE DEF own, under, headers, out
  <1>8. ASSUME NEW h \in DOMAIN out \ {Authorization}
        PROVE  /\ out[h] \in Values /\ h \in Headers
               /\ h \in DOMAIN fixed => out[h] = fixed[h]
               /\ h \notin DOMAIN fixed /\ SourcesOf(by, token.user, h) # {} =>
                     \E c \in SourcesOf(by, token.user, h) : out[h] = Claims[token.user][c]
               /\ h \notin DOMAIN fixed /\ SourcesOf(by, token.user, h) = {} =>
                     out[h] = Own
    <2>1. CASE h \in DOMAIN fixed
      BY <2>1, <1>4, <1>6, <1>7
    <2>2. CASE h \in DOMAIN mapped \ DOMAIN fixed
      <3>1. out[h] = mapped[h]
        BY <2>2, <1>5, <1>6, <1>7
      <3>2. SourcesOf(by, token.user, h) # {}
        BY <2>2, <1>2
      <3> QED
        BY <2>2, <3>1, <3>2, <1>2, <1>4
    <2>3. CASE h \notin DOMAIN fixed /\ h \notin DOMAIN mapped
      <3>1. h \in DOMAIN own /\ out[h] = own[h]
        BY <2>3, <1>5, <1>6, <1>7
      <3>2. h \in Headers /\ out[h] = Own
        BY <3>1, <1>3
      <3> QED
        BY <2>3, <3>2, <1>2, <1>4
    <2> QED
      BY <2>1, <2>2, <2>3
  <1>9. out \in [DOMAIN out -> Values] /\ DOMAIN out \subseteq Headers
    BY <1>4, <1>7, <1>8
  <1>10. out \in Partial(Headers, Values)
    BY <1>9 DEF Partial
  <1>11. /\ DOMAIN fixed \cup MappedNames(by, token.user)
               \subseteq DOMAIN out \cup nominated \cup Stripped
         /\ DOMAIN out \cap Stripped = {}
    BY <1>2, <1>4, <1>5, <1>6, <1>7
  <1> QED
    BY <1>7, <1>8, <1>10, <1>11 DEF Vouched, out, own
--------------------------------------------------------------------------------
\* The conjuncts of TypeOK.
TokenOK == \/ token = None
           \/ \E u \in Users, d \in Deployments : \E i \in Issued(u, d) :
                  token \in {i, [i EXCEPT !.live = FALSE]}
OnItsWay ==
    /\ req.stage \in {"upload", "sent"}
    /\ DOMAIN req = {"stage", "by", "under", "headers", "nominated", "chunked",
                     "size", "got", "broke", "late"}
    /\ req.headers \in Partial(Headers, Values)
    /\ req.size \in Sizes /\ req.got \in 0..req.size
    /\ {req.chunked, req.broke, req.late} \subseteq BOOLEAN
ReqOK ==
    \/ req = Idle
    \/ OnItsWay
    \/ req \in [stage : {"body"}, chunked : BOOLEAN, size : Sizes, got : Sizes,
                late : BOOLEAN]
    \/ req \in [stage : {"answered"}, status : {"401", "502"}]
    \/ req \in [stage : {"answered"}, status : {"upstream"}, chunked : BOOLEAN,
                size : Sizes, got : Sizes, why : {"end", "broke", "late"}]

\* The type invariant, part by part, before a step and after it.
LEMMA TypeParts ==
    /\ TypeOK <=> deployed \in Deployments /\ TokenOK /\ ReqOK
    /\ TypeOK' <=> deployed' \in Deployments /\ TokenOK' /\ ReqOK'
  BY DEF TypeOK, TokenOK, ReqOK, OnItsWay

\* A request elsewhere, or one without a complete answer, has nothing to show.
LEMMA Elsewhere ==
    ASSUME req'.stage \notin {"upload", "sent"},
           req'.stage = "answered" => req'.status # "upstream"
    PROVE  HeadersVouched' /\ BodiesWhole'
  BY DEF HeadersVouched, BodiesWhole, LooksComplete

\* A step that leaves alone who sent a request and what goes upstream.
LEMMA Onwards ==
    ASSUME RequestInv, OnItsWay,
           NEW stage \in {"upload", "sent"}, NEW got \in 0..req.size,
           NEW broke \in BOOLEAN, NEW late \in BOOLEAN,
           req' = [req EXCEPT !.stage = stage, !.got = got, !.broke = broke,
                              !.late = late],
           stage = "sent" /\ got < req.size => req.chunked /\ broke
    PROVE  OnItsWay' /\ HeadersVouched' /\ BodiesWhole'
  <1>1. /\ DOMAIN req' = DOMAIN req
        /\ req'.stage = stage /\ req'.got = got /\ req'.broke = broke /\ req'.late = late
        /\ req'.by = req.by /\ req'.under = req.under /\ req'.headers = req.headers
        /\ req'.nominated = req.nominated /\ req'.chunked = req.chunked
        /\ req'.size = req.size
    BY DEF OnItsWay
  <1>2. OnItsWay'
    BY <1>1 DEF OnItsWay
  <1>3. HeadersVouched'
    BY <1>1 DEF RequestInv, HeadersVouched, MappingOf, OnItsWay
  <1>4. BodiesWhole'
    BY <1>1 DEF BodiesWhole, LooksComplete
  <1> QED
    BY <1>2, <1>3, <1>4
--------------------------------------------------------------------------------
\* A request arrives: refused, or sent on with the headers of EntryProps.
LEMMA ArriveStep ==
    ASSUME RequestInv, Arrive
    PROVE  RequestInv'
  <1>1. PICK names \in SUBSET Headers, credential \in {Bearer, Own},
             nominated \in SUBSET Headers, chunked \in BOOLEAN, size \in Sizes :
               \/ Refuse(ClientHeaders(names, credential), nominated, chunked, size)
               \/ Admit(ClientHeaders(names, credential), nominated, chunked, size)
    BY DEF Arrive, ClientHeaders
  <1>2. deployed' = deployed /\ token' = token
    BY DEF Arrive
  <1>3. deployed \in Deployments /\ TokenOK /\ TokenOK'
    BY <1>2, TypeParts DEF RequestInv, TokenOK
  <1>4. CASE Refuse(ClientHeaders(names, credential), nominated, chunked, size)
    <2>1. req' = [stage |-> "answered", status |-> "401"]
      BY <1>4 DEF Refuse, Answer
    <2>2. ReqOK'
      BY <2>1 DEF ReqOK
    <2> QED
      BY <1>2, <1>3, <2>1, <2>2, TypeParts, Elsewhere DEF RequestInv
  <1>5. CASE Admit(ClientHeaders(names, credential), nominated, chunked, size)
    <2> DEFINE own == ClientHeaders(names, credential)
    <2>1. token # None /\ token.live
      BY <1>5 DEF Admit, Live
    <2>2. PICK mapped \in Resolved :
            req' = [stage |-> "upload", by |-> token, under |-> deployed,
                    headers |-> Outgoing(Inject(mapped, own), nominated),
                    nominated |-> nominated, chunked |-> chunked, size |-> size,
                    got |-> 0, broke |-> FALSE, late |-> FALSE]
      BY <1>5 DEF Admit, Enter
    <2> DEFINE out == Outgoing(Inject(mapped, own), nominated)
               by == IF token.si THEN token.under ELSE deployed
    <2>3. /\ out \in Partial(Headers, Values)
          /\ Vouched(out, deployed.fixed, by, token.user, nominated)
      BY <1>3, <2>1, EntryProps DEF RequestInv
    <2> HIDE DEF out
    <2>4. /\ req'.stage = "upload" /\ req'.by = token /\ req'.under = deployed
          /\ req'.headers = out /\ req'.nominated = nominated
          /\ req'.chunked = chunked /\ req'.size = size /\ req'.got = 0
          /\ req'.broke = FALSE /\ req'.late = FALSE
          /\ DOMAIN req' = {"stage", "by", "under", "headers", "nominated", "chunked",
                            "size", "got", "broke", "late"}
      BY <2>2 DEF out
    <2>5. MappingOf(req)' = by
      BY <2>4 DEF MappingOf
    <2>6. ReqOK'
      <3>1. req'.got \in 0..req'.size /\ req'.size \in Sizes
        BY ProxyAssumption, <2>4 DEF Sizes
      <3>2. OnItsWay'
        BY <2>3, <2>4, <3>1 DEF OnItsWay
      <3> QED
        BY <3>2 DEF ReqOK
    <2>7. HeadersVouched'
      <3> HIDE DEF by
      <3> QED
        BY <2>1, <2>3, <2>4, <2>5 DEF HeadersVouched, Vouched
    <2>8. BodiesWhole'
      BY <2>4 DEF BodiesWhole, LooksComplete
    <2> QED
      BY <1>2, <1>3, <2>6, <2>7, <2>8, TypeParts DEF RequestInv
  <1> QED
    BY <1>1, <1>4, <1>5

\* Whatever the stage of a request tells of its type.
LEMMA StageProps ==
    ASSUME RequestInv
    PROVE  /\ deployed \in Deployments /\ TokenOK
           /\ req.stage \in {"upload", "sent"} => OnItsWay
           /\ req.stage = "body" =>
                 req \in [stage : {"body"}, chunked : BOOLEAN, size : Sizes, got : Sizes,
                          late : BOOLEAN]
  <1>1. deployed \in Deployments /\ TokenOK /\ ReqOK
    BY TypeParts DEF RequestInv
  <1>2. OnItsWay => req.stage \in {"upload", "sent"}
    BY DEF OnItsWay
  <1> QED
    BY <1>1, <1>2 DEF ReqOK, Idle

\* The client's body on its way, and the end of its reading.
LEMMA UploadStep ==
    ASSUME RequestInv, UploadPart \/ UploadEnds \/ UploadBreaks
    PROVE  RequestInv'
  <1>1. /\ deployed' = deployed /\ token' = token /\ TokenOK' /\ deployed' \in Deployments
        /\ req.stage = "upload" /\ OnItsWay
    BY StageProps DEF UploadPart, UploadEnds, UploadBreaks, TokenOK
  <1>2. /\ req.size \in Nat /\ req.got \in Nat /\ req.got <= req.size
        /\ req.broke \in BOOLEAN /\ req.late \in BOOLEAN /\ req.chunked \in BOOLEAN
    BY <1>1, ProxyAssumption DEF OnItsWay, Sizes
  <1>3. CASE req' = [stage |-> "answered", status |-> "502"]
    <2>1. ReqOK'
      BY <1>3 DEF ReqOK
    <2> QED
      BY <1>1, <1>3, <2>1, TypeParts, Elsewhere DEF RequestInv
  <1>4. ASSUME NEW stage \in {"upload", "sent"}, NEW got \in 0..req.size,
               NEW broke \in BOOLEAN,
               req' = [req EXCEPT !.stage = stage, !.got = got, !.broke = broke,
                                  !.late = req.late],
               stage = "sent" /\ got < req.size => req.chunked /\ broke
        PROVE  RequestInv'
    <2>1. OnItsWay' /\ HeadersVouched' /\ BodiesWhole'
      BY <1>1, <1>2, <1>4, Onwards
    <2>2. ReqOK'
      BY <2>1 DEF ReqOK
    <2> QED
      BY <1>1, <2>1, <2>2, TypeParts DEF RequestInv
  <1>5. CASE UploadPart
    <2>1. req' = [req EXCEPT !.stage = "upload", !.got = req.got + 1,
                             !.broke = req.broke, !.late = req.late]
      BY <1>1, <1>5 DEF UploadPart, OnItsWay
    <2>2. req.got + 1 \in 0..req.size
      BY <1>2, <1>5 DEF UploadPart
    <2> QED
      BY <1>2, <1>4, <2>1, <2>2
  <1>6. CASE UploadEnds
    <2>1. req' = [req EXCEPT !.stage = "sent", !.got = req.got, !.broke = FALSE,
                             !.late = req.late]
      BY <1>1, <1>6 DEF UploadEnds, Send, OnItsWay
    <2>2. req.got \in 0..req.size /\ ~ req.got < req.size
      BY <1>2, <1>6 DEF UploadEnds
    <2> QED
      BY <1>2, <1>4, <2>1, <2>2
  <1>7. CASE UploadBreaks
    <2>1. CASE req.chunked /\ Send(req.got, TRUE)
      <3>1. req' = [req EXCEPT !.stage = "sent", !.got = req.got, !.broke = TRUE,
                               !.late = req.late]
        BY <1>1, <2>1 DEF Send, OnItsWay
      <3>2. req.got \in 0..req.size
        BY <1>2
      <3> QED
        BY <1>2, <1>4, <2>1, <3>1, <3>2
    <2>2. CASE Answer("502")
      BY <1>3, <2>2 DEF Answer
    <2> QED
      BY <1>7, <2>1, <2>2 DEF UploadBreaks
  <1> QED
    BY <1>5, <1>6, <1>7

\* With the upstream: its failure, the deadline, the head of its answer.
LEMMA SentStep ==
    ASSUME RequestInv,
           UpstreamFails \/ SendCancelled \/ UpstreamAnswers
    PROVE  RequestInv'
  <1>1. /\ deployed' = deployed /\ token' = token /\ TokenOK' /\ deployed' \in Deployments
        /\ req.stage = "sent" /\ OnItsWay
    BY StageProps DEF UpstreamFails, SendCancelled, UpstreamAnswers, TokenOK
  <1>2. CASE UpstreamFails \/ SendCancelled
    <2>1. req' = [stage |-> "answered", status |-> "502"]
      BY <1>2 DEF UpstreamFails, SendCancelled, Answer
    <2>2. ReqOK'
      BY <2>1 DEF ReqOK
    <2> QED
      BY <1>1, <2>1, <2>2, TypeParts, Elsewhere DEF RequestInv
  <1>3. CASE UpstreamAnswers
    <2>1. PICK chunked \in BOOLEAN, size \in Sizes :
            req' = [stage |-> "body", chunked |-> chunked, size |-> size, got |-> 0,
                    late |-> req.late]
      BY <1>3 DEF UpstreamAnswers
    <2>2. req.late \in BOOLEAN /\ 0 \in Sizes
      BY <1>1, ProxyAssumption DEF OnItsWay, Sizes
    <2>3. req' \in [stage : {"body"}, chunked : BOOLEAN, size : Sizes, got : Sizes,
                    late : BOOLEAN]
      BY <2>1, <2>2
    <2>4. ReqOK'
      BY <2>3 DEF ReqOK
    <2>5. req'.stage = "body"
      BY <2>1
    <2> QED
      BY <1>1, <2>4, <2>5, TypeParts, Elsewhere DEF RequestInv
  <1> QED
    BY <1>2, <1>3

\* The upstream's body on its way, and the three ways in which its reading ends.
LEMMA BodyStep ==
    ASSUME RequestInv,
           AnswerPart \/ AnswerEnds \/ AnswerBreaks \/ AnswerCancelled
    PROVE  RequestInv'
  <1> DEFINE Body == [stage : {"body"}, chunked : BOOLEAN, size : Sizes, got : Sizes,
                      late : BOOLEAN]
  <1>1. /\ deployed' = deployed /\ token' = token /\ TokenOK' /\ deployed' \in Deployments
        /\ req.stage = "body" /\ req \in Body
    BY StageProps DEF AnswerPart, AnswerEnds, AnswerBreaks, AnswerCancelled, TokenOK
  <1>2. CASE AnswerPart
    <2>1. req.got + 1 \in Sizes
      BY <1>1, <1>2, ProxyAssumption DEF AnswerPart, Sizes
    <2>2. req' \in Body
      BY <1>1, <1>2, <2>1 DEF AnswerPart
    <2>3. ReqOK'
      BY <2>2 DEF ReqOK
    <2>4. req'.stage = "body"
      BY <2>2
    <2> QED
      BY <1>1, <2>3, <2>4, TypeParts, Elsewhere DEF RequestInv
  <1>3. ASSUME NEW why \in {"end", "broke", "late"}, Upstream(req.got, why),
               why = "end" => req.got = req.size
        PROVE  RequestInv'
    <2>1. req' = [stage |-> "answered", status |-> "upstream", chunked |-> req.chunked,
                  size |-> req.size, got |-> req.got, why |-> why]
      BY <1>3 DEF Upstream
    <2>2. req' \in [stage : {"answered"}, status : {"upstream"}, chunked : BOOLEAN,
                    size : Sizes, got : Sizes, why : {"end", "broke", "late"}]
      BY <1>1, <2>1
    <2>3. ReqOK'
      BY <2>2 DEF ReqOK
    <2>4. HeadersVouched'
      BY <2>1 DEF HeadersVouched
    <2>5. req.got \in Nat /\ req.size \in Nat
      BY <1>1, ProxyAssumption DEF Sizes
    <2>6. BodiesWhole'
      BY <1>3, <2>1, <2>5 DEF BodiesWhole, LooksComplete
    <2> QED
      BY <1>1, <2>3, <2>4, <2>6, TypeParts DEF RequestInv
  <1>4. CASE AnswerEnds
    BY <1>3, <1>4 DEF AnswerEnds
  <1>5. CASE AnswerBreaks
    BY <1>3, <1>5 DEF AnswerBreaks
  <1>6. CASE AnswerCancelled
    BY <1>3, <1>6 DEF AnswerCancelled
  <1> QED
    BY <1>2, <1>4, <1>5, <1>6

\* The deadline of a request, wherever it is.
LEMMA DeadlineStep ==
    ASSUME RequestInv, ContextDone
    PROVE  RequestInv'
  <1>1. /\ deployed' = deployed /\ token' = token /\ TokenOK' /\ deployed' \in Deployments
        /\ req' = [req EXCEPT !.late = TRUE]
    BY StageProps DEF ContextDone, TokenOK
  <1>2. CASE req.stage \in {"upload", "sent"}
    <2>1. OnItsWay
      BY <1>2, StageProps
    <2>2. req' = [req EXCEPT !.stage = req.stage, !.got = req.got, !.broke = req.broke,
                             !.late = TRUE]
      BY <1>1, <2>1 DEF OnItsWay
    <2>3. req.stage = "sent" /\ req.got < req.size => req.chunked /\ req.broke
      BY DEF RequestInv, BodiesWhole
    <2>4. req.got \in 0..req.size /\ req.broke \in BOOLEAN
      BY <2>1 DEF OnItsWay
    <2>5. OnItsWay' /\ HeadersVouched' /\ BodiesWhole'
      BY <1>2, <2>1, <2>2, <2>3, <2>4, Onwards
    <2>6. ReqOK'
      BY <2>5 DEF ReqOK
    <2> QED
      BY <1>1, <2>5, <2>6, TypeParts DEF RequestInv
  <1>3. CASE req.stage = "body"
    <2>1. req' \in [stage : {"body"}, chunked : BOOLEAN, size : Sizes, got : Sizes,
                    late : BOOLEAN]
      BY <1>1, <1>3, StageProps
    <2>2. ReqOK'
      BY <2>1 DEF ReqOK
    <2>3. req'.stage = "body"
      BY <2>1
    <2> QED
      BY <1>1, <2>2, <2>3, TypeParts, Elsewhere DEF RequestInv
  <1> QED
    BY <1>2, <1>3 DEF ContextDone

\* Between the requests: a token is issued, refreshed or expires.
LEMMA TokenStep ==
    ASSUME RequestInv, (\E u \in Users : Login(u)) \/ Refresh \/ Expire
    PROVE  RequestInv'
  <1>1. deployed' = deployed /\ req' = req /\ deployed' \in Deployments /\ ReqOK'
    BY TypeParts DEF RequestInv, Login, Refresh, Expire, ReqOK, OnItsWay
  <1>2. HeadersVouched' /\ BodiesWhole'
    BY <1>1 DEF RequestInv, HeadersVouched, BodiesWhole, LooksComplete, MappingOf
  <1>3. CASE \E u \in Users : Login(u)
    <2>1. \E u \in Users, d \in Deployments : token' \in Issued(u, d)
      BY <1>3, TypeParts DEF Login, RequestInv
    <2>2. TokenOK'
      BY <2>1 DEF TokenOK
    <2> QED
      BY <1>1, <1>2, <2>2, TypeParts DEF RequestInv
  <1>4. CASE Refresh \/ Expire
    <2>1. token # None /\ \E b \in BOOLEAN : token' = [token EXCEPT !.live = b]
      BY <1>4 DEF Refresh, Expire
    <2>2. TokenOK'
      BY <2>1, TokenMarked DEF RequestInv, TokenOK
    <2> QED
      BY <1>1, <1>2, <2>2, TypeParts DEF RequestInv
  <1> QED
    BY <1>3, <1>4
--------------------------------------------------------------------------------
\* The invariants hold at every step.
THEOREM RequestSafe == Spec => []RequestInv
  <1>1. Init => RequestInv
    <2>1. Init => req.stage = "idle" /\ ReqOK /\ TokenOK /\ deployed \in Deployments
      BY DEF Init, Idle, ReqOK, TokenOK
    <2> QED
      BY <2>1, TypeParts DEF RequestInv, HeadersVouched, BodiesWhole, LooksComplete
  <1>2. RequestInv /\ [Next]_vars => RequestInv'
    <2> SUFFICES ASSUME RequestInv, [Next]_vars PROVE RequestInv'
      OBVIOUS
    <2>1. CASE (\E u \in Users : Login(u)) \/ Refresh \/ Expire
      BY <2>1, TokenStep
    <2>2. CASE Arrive
      BY <2>2, ArriveStep
    <2>3. CASE UploadPart \/ UploadEnds \/ UploadBreaks
      BY <2>3, UploadStep
    <2>4. CASE ContextDone
      BY <2>4, DeadlineStep
    <2>5. CASE UpstreamFails \/ SendCancelled \/ UpstreamAnswers
      BY <2>5, SentStep
    <2>6. CASE AnswerPart \/ AnswerEnds \/ AnswerBreaks \/ AnswerCancelled
      BY <2>6, BodyStep
    <2>7. ASSUME NEW d \in Deployments, Redeploy(d) PROVE RequestInv'
      <3>1. TokenOK' /\ ReqOK' /\ deployed' \in Deployments /\ req'.stage = "idle"
        BY <2>7, TypeParts DEF RequestInv, Redeploy, TokenOK, ReqOK, Idle
      <3> QED
        BY <3>1, TypeParts, Elsewhere DEF RequestInv
    <2>8. CASE UNCHANGED vars
      BY <2>8 DEF vars, RequestInv, TypeOK, HeadersVouched, BodiesWhole, LooksComplete,
                  MappingOf
    <2> QED
      BY <2>1, <2>2, <2>3, <2>4, <2>5, <2>6, <2>7, <2>8 DEF Next
  <1> QED
    BY <1>1, <1>2, PTL DEF Spec

\* The states are of their type; so the headers a self-issued token carries are
\* always those that the configuration it was issued under made of its user's
\* claims, whatever refreshes and redeployments came in between.
THEOREM TypeCorrect == Spec => []TypeOK
  BY RequestSafe, PTL DEF RequestInv

\* AuthMiddleware and the reverse proxy: what goes upstream is vouched for.
THEOREM OnlyVouchedSent == Spec => []HeadersVouched
  BY RequestSafe, PTL DEF RequestInv

\* LogHttpRequest and LogHttpResponse: reading a body for the log does not cut it.
THEOREM LoggingKeepsBodies == Spec => []BodiesWhole
  BY RequestSafe, PTL DEF RequestInv
================================================================================
