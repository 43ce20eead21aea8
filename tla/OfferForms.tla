----------------------------- MODULE OfferForms -----------------------------
(***************************************************************************)
(* The forms of credential offers: generateCredentialOffer                 *)
(* (routes/offer.go) stores the caller's form under the session IDAuth     *)
(* answers with; POST /credential (routes/credential.go) looks the form up *)
(* by the subject of the introspected token and merges it over the token's *)
(* claims.  Both run concurrently over the form cache                      *)
(* (openid4vci/form_store.go), whose entries expire and which a restart    *)
(* may empty.  Forms are named by the offer they came with.                *)
(***************************************************************************)
EXTENDS Integers

CONSTANTS
  Offers,      \* the POST /generate_credential_offer requests of a run
  NoOffer,     \* no form
  Credentials, \* the POST /credential requests of a run
  Known,       \* session ids a caller or a person number may name
  Generated,   \* session ids only IDAuth makes up
  NoSession,   \* no session id; the empty string
  FormTTL,     \* how long the cache keeps a form
  MaxTime      \* bound on the clock

ASSUME OfferAssumption == NoOffer \notin Offers
ASSUME SessionAssumption ==
  NoSession \notin Known \union Generated /\ Known \intersect Generated = {}
ASSUME TTLAssumption == FormTTL \in Nat /\ MaxTime \in Nat

VARIABLES
  now,      \* the issuer's clock
  cache,    \* the form cache: for each session, whose form and until when
  pc,       \* where the handler of each offer is
  request,  \* what each offer asks for
  session,  \* the session IDAuth answered each offer with
  storedAt, \* history: when each offer's form was stored
  stored,   \* history: the offers whose form went into the cache
  lost,     \* history: those stored before the cache was last lost
  cpc,      \* where the handler of each credential request is
  sub,      \* the subject of each credential request's token
  merged,   \* the offer whose form each credential request merged
  mergedAt  \* history: when it did

offerVars == <<pc, request, session, storedAt, stored>>
credentialVars == <<cpc, sub, merged, mergedAt>>
vars == <<now, cache, pc, request, session, storedAt, stored, lost, cpc, sub, merged, mergedAt>>

Sessions == Known \union Generated

\* The fields of an offer request that decide where its form goes.
OfferRequests ==
  [sessionID : Known \union {NoSession},  \* session_id of the body
   pan       : Known \union {NoSession},  \* personal_administrative_number of the form
   form      : BOOLEAN,                   \* whether the form has entries
   preauth   : BOOLEAN]                   \* pre-authorized_code among the grants

NoRequest == [sessionID |-> NoSession, pan |-> NoSession, form |-> FALSE, preauth |-> FALSE]
NoForm == [of |-> NoOffer, expires |-> 0]
EmptyCache == [s \in Sessions |-> NoForm]

Busy == {"preauth", "store"}
Ended == {"disclosed", "failed", "lost"}

Init ==
  /\ now = 0
  /\ cache = EmptyCache
  /\ pc = [o \in Offers |-> "idle"]
  /\ request = [o \in Offers |-> NoRequest]
  /\ session = [o \in Offers |-> NoSession]
  /\ storedAt = [o \in Offers |-> 0]
  /\ stored = {}
  /\ lost = {}
  /\ cpc = [c \in Credentials |-> "idle"]
  /\ sub = [c \in Credentials |-> NoSession]
  /\ merged = [c \in Credentials |-> NoOffer]
  /\ mergedAt = [c \in Credentials |-> 0]

-----------------------------------------------------------------------------

Goto(o, place) == pc' = [pc EXCEPT ![o] = place]

\* The body is malformed, names no credential or an unknown grant.
RefuseOffer(o) ==
  /\ pc[o] = "idle"
  /\ Goto(o, "failed")
  /\ UNCHANGED <<now, cache, request, session, storedAt, stored, lost, credentialVars>>

\* An offer without the pre-authorized_code grant never reads its form.
AcceptOffer(o) ==
  /\ pc[o] = "idle"
  /\ \E q \in OfferRequests :
       /\ q.pan # NoSession => q.form
       /\ request' = [request EXCEPT ![o] = q]
       /\ Goto(o, IF q.preauth THEN "preauth" ELSE "disclosed")
  /\ UNCHANGED <<now, cache, session, storedAt, stored, lost, credentialVars>>

\* The hint sent to IDAuth.
Hint(q) == IF q.sessionID # NoSession THEN q.sessionID ELSE q.pan

\* A session IDAuth makes up is new to everyone; the code allows for an answer
\* with none.
MadeUp == {NoSession} \union {s \in Generated : \A o \in Offers : session[o] # s}

\* IDAuth echoes the hint it was sent.
GeneratePreauth(o) ==
  /\ pc[o] = "preauth"
  /\ \E s \in (IF Hint(request[o]) # NoSession THEN {Hint(request[o])} ELSE MadeUp) :
       /\ session' = [session EXCEPT ![o] = s]
       /\ Goto(o, IF request[o].form /\ s # NoSession THEN "store" ELSE "disclosed")
  /\ UNCHANGED <<now, cache, request, storedAt, stored, lost, credentialVars>>

PreauthFailed(o) ==
  /\ pc[o] = "preauth"
  /\ Goto(o, "failed")
  /\ UNCHANGED <<now, cache, request, session, storedAt, stored, lost, credentialVars>>

\* Mutant of FormKey: the person number, when the form has one.
FormKeyPerson(o) == IF request[o].pan # NoSession THEN request[o].pan ELSE session[o]

\* The cache key of o's form: the session IDAuth answered with, not the hint.
FormKey(o) == session[o]

\* Mutant of FormExpiry: an expiry in the past.
FormExpiryPast == now - FormTTL

FormExpiry == now + FormTTL

\* Mutant of AddFormData: a session that has a form keeps it.
AddFormDataIfAbsent(o) ==
  /\ cache' = IF cache[FormKey(o)].expires > now THEN cache
              ELSE [cache EXCEPT ![FormKey(o)] = [of |-> o, expires |-> FormExpiry]]
  /\ storedAt' = [storedAt EXCEPT ![o] = now]
  /\ stored' = stored \union {o}

\* The last form stored for a session wins.
AddFormData(o) ==
  /\ cache' = [cache EXCEPT ![FormKey(o)] = [of |-> o, expires |-> FormExpiry]]
  /\ storedAt' = [storedAt EXCEPT ![o] = now]
  /\ stored' = stored \union {o}

StoreForm(o) ==
  /\ pc[o] = "store"
  /\ AddFormData(o)
  /\ Goto(o, "disclosed")
  /\ UNCHANGED <<now, request, session, lost, credentialVars>>

\* Mutant of StoreFailed: the error is logged, the offer answered.
StoreErrorIgnored(o) ==
  /\ pc[o] = "store"
  /\ \/ AddFormData(o)
     \/ UNCHANGED <<cache, storedAt, stored>>
  /\ Goto(o, "disclosed")
  /\ UNCHANGED <<now, request, session, lost, credentialVars>>

\* Mutant of StoreFailed: IDAuth is asked again.
StoreRetried(o) ==
  /\ pc[o] = "store"
  /\ Goto(o, "preauth")
  /\ UNCHANGED <<now, cache, request, session, storedAt, stored, lost, credentialVars>>

\* Set failed, the form stored or not: the code IDAuth made is not disclosed.
StoreFailed(o) ==
  /\ pc[o] = "store"
  /\ \/ AddFormData(o)
     \/ UNCHANGED <<cache, storedAt, stored>>
  /\ Goto(o, "failed")
  /\ UNCHANGED <<now, request, session, lost, credentialVars>>

-----------------------------------------------------------------------------

\* A token is introspected: it was bought with the code of a disclosed offer,
\* and its subject is that offer's session, or with a login under a known one.
Introspected(c) ==
  /\ cpc[c] = "idle"
  /\ \E s \in Known \union {session[o] : o \in {q \in Offers : pc[q] = "disclosed"}} :
       /\ s # NoSession
       /\ sub' = [sub EXCEPT ![c] = s]
  /\ cpc' = [cpc EXCEPT ![c] = "lookup"]
  /\ UNCHANGED <<now, cache, offerVars, lost, merged, mergedAt>>

Live(s) == cache[s].expires > now

\* GetFormData found a form: it overrides the claims of the token.
MergeForm(c) ==
  /\ cpc[c] = "lookup"
  /\ Live(sub[c])
  /\ merged' = [merged EXCEPT ![c] = cache[sub[c]].of]
  /\ mergedAt' = [mergedAt EXCEPT ![c] = now]
  /\ cpc' = [cpc EXCEPT ![c] = "done"]
  /\ UNCHANGED <<now, cache, offerVars, lost, sub>>

\* The cache holds no form of the session: the claims are used as they are.
NoFormFound(c) ==
  /\ cpc[c] = "lookup"
  /\ ~Live(sub[c])
  /\ cpc' = [cpc EXCEPT ![c] = "formless"]
  /\ UNCHANGED <<now, cache, offerVars, lost, sub, merged, mergedAt>>

\* The cache did not answer: GetFormData drops the error, and the claims are
\* used as they are.
NoAnswer(c) ==
  /\ cpc[c] = "lookup"
  /\ cpc' = [cpc EXCEPT ![c] = "unanswered"]
  /\ UNCHANGED <<now, cache, offerVars, lost, sub, merged, mergedAt>>

-----------------------------------------------------------------------------

\* The process restarts; a cache inside it is lost, one outside is not.
Restart ==
  /\ \E o \in Offers : pc[o] # "idle"
  /\ pc' = [o \in Offers |-> IF pc[o] \in Busy THEN "lost" ELSE pc[o]]
  /\ cpc' = [c \in Credentials |-> IF cpc[c] = "lookup" THEN "lost" ELSE cpc[c]]
  /\ \/ cache' = EmptyCache /\ lost' = stored
     \/ UNCHANGED <<cache, lost>>
  /\ UNCHANGED <<now, request, session, storedAt, stored, sub, merged, mergedAt>>

Tick ==
  /\ now < MaxTime
  /\ now' = now + 1
  /\ UNCHANGED <<cache, offerVars, lost, credentialVars>>

Finished ==
  /\ \A o \in Offers : pc[o] \in Ended
  /\ \A c \in Credentials : cpc[c] # "lookup"
  /\ UNCHANGED vars

HandleOffer(o) ==
  GeneratePreauth(o) \/ PreauthFailed(o) \/ StoreForm(o) \/ StoreFailed(o)

HandleCredential(c) == MergeForm(c) \/ NoFormFound(c) \/ NoAnswer(c)

Next ==
  \/ \E o \in Offers : RefuseOffer(o) \/ AcceptOffer(o) \/ HandleOffer(o)
  \/ \E c \in Credentials : Introspected(c) \/ HandleCredential(c)
  \/ Restart
  \/ Tick
  \/ Finished

Spec == Init /\ [][Next]_vars

\* Handlers are scheduled; IDAuth and the cache answer or fail.
FairSpec ==
  /\ Spec
  /\ \A o \in Offers : WF_vars(HandleOffer(o))
  /\ \A c \in Credentials : WF_vars(HandleCredential(c))

-----------------------------------------------------------------------------

\* Every variable has its type; a cached form's expiry is a time.
TypeOK ==
  /\ now \in 0 .. MaxTime
  /\ cache \in [Sessions -> [of : Offers \union {NoOffer}, expires : Nat]]
  /\ pc \in [Offers -> {"idle"} \union Busy \union Ended]
  /\ request \in [Offers -> OfferRequests]
  /\ session \in [Offers -> Sessions \union {NoSession}]
  /\ storedAt \in [Offers -> 0 .. MaxTime]
  /\ stored \subseteq Offers
  /\ lost \subseteq stored
  /\ cpc \in [Credentials -> {"idle", "lookup", "done", "formless", "unanswered", "lost"}]
  /\ sub \in [Credentials -> Sessions \union {NoSession}]
  /\ merged \in [Credentials -> Offers \union {NoOffer}]
  /\ mergedAt \in [Credentials -> 0 .. MaxTime]

\* A lookup of o's session finds o's form, or a later one for that session.
Findable(o) ==
  /\ Live(session[o])
  /\ \E q \in stored : /\ cache[session[o]].of = q
                       /\ session[q] = session[o]
                       /\ storedAt[q] >= storedAt[o]

\* An offer is disclosed only once its form, if it has one to keep, is where
\* the wallet's credential request will look for it: until the form expires or
\* is lost with the cache, the session finds it or a later one of the session
\* (AddFormData before the response, under IDAuth's session).
DisclosedFormFindable ==
  \A o \in Offers :
    /\ pc[o] = "disclosed" /\ request[o].preauth /\ request[o].form
    /\ session[o] # NoSession
    /\ now < storedAt[o] + FormTTL
    => o \in lost \/ Findable(o)

\* Whatever offers and restarts happened, the form a credential request merges
\* belongs to its own session and had not expired: no other holder's form is
\* ever merged (GetFormData by the subject of the token).
MergedFormIsOfSession ==
  \A c \in Credentials : merged[c] # NoOffer =>
    /\ request[merged[c]].form
    /\ session[merged[c]] = sub[c]
    /\ mergedAt[c] < storedAt[merged[c]] + FormTTL

\* The form a credential request merges is the latest of its session: no form
\* stored at a later time, be it of an offer that failed or lost since, is passed
\* over for it (AddFormData overwrites, and a lost entry does not come back).
MergedFormIsLatest ==
  [][\A c \in Credentials : cpc[c] = "lookup" /\ cpc'[c] = "done" =>
       \A o \in stored : session[o] = sub[c] => storedAt[o] <= storedAt[merged'[c]]]_vars

\* A credential request goes on without a form only when the cache failed it,
\* or when there is none to find: no form stored for its session is unexpired
\* and not lost with the cache (GetFormData, which reports both alike).
FormMissedOnlyOnFailure ==
  [][\A c \in Credentials : cpc[c] = "lookup" /\ cpc'[c] = "formless" =>
       \A o \in stored \ lost : session[o] = sub[c] => now >= storedAt[o] + FormTTL]_vars

\* Every offer accepted is disclosed, fails, or is lost with the process.
EveryOfferEnds ==
  \A o \in Offers : (pc[o] \in Busy) ~> (pc[o] \in Ended)

-----------------------------------------------------------------------------
(***************************************************************************)
(* The strengthening that makes the invariants above inductive             *)
(* (OfferFormsProofs).                                                     *)
(***************************************************************************)

\* An offer about to store has a form and a session; one disclosed with a form
\* to keep has stored it, once, and is settled.
StoreDiscipline ==
  \A o \in Offers :
    /\ pc[o] = "store" => request[o].form /\ session[o] # NoSession
    /\ o \in stored => /\ pc[o] \in Ended
                      /\ request[o].form /\ session[o] # NoSession
                      /\ storedAt[o] <= now
    /\ (/\ pc[o] = "disclosed" /\ request[o].preauth /\ request[o].form
        /\ session[o] # NoSession) => o \in stored

\* What is cached for a session is a form stored for it since the cache was last
\* lost, with its expiry; a form not lost with the cache is there, or a later one
\* is; and those that were lost are not later than the others.
CacheDiscipline ==
  /\ \A s \in Sessions :
       IF cache[s].of = NoOffer THEN cache[s].expires = 0
       ELSE /\ cache[s].of \in stored \ lost
            /\ session[cache[s].of] = s
            /\ cache[s].expires = storedAt[cache[s].of] + FormTTL
  /\ \A o \in stored \ lost :
       /\ cache[session[o]].of \in stored
       /\ storedAt[cache[session[o]].of] >= storedAt[o]
       /\ \A q \in lost : storedAt[q] <= storedAt[o]

\* A credential request looks up a real session; what it merged was stored.
MergeDiscipline ==
  \A c \in Credentials :
    /\ cpc[c] = "lookup" => sub[c] # NoSession
    /\ merged[c] # NoOffer => cpc[c] = "done" /\ merged[c] \in stored

IInv ==
  /\ TypeOK /\ StoreDiscipline /\ CacheDiscipline
  /\ MergeDiscipline /\ MergedFormIsOfSession
=============================================================================
