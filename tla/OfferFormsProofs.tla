--------------------------- MODULE OfferFormsProofs ---------------------------
(***************************************************************************)
(* Proofs about OfferForms for any offers, credential requests, sessions   *)
(* and times to live: a disclosed offer's form can be found until it       *)
(* expires or is lost with the cache, and what is merged is never another  *)
(* session's form or an older one.                                         *)
(***************************************************************************)
EXTENDS OfferForms, TLAPS

USE DEF Busy, Ended

\* The invariant holds at the start: the cache is empty, everyone is idle.
LEMMA InitIInv == Init => IInv
<1> SUFFICES ASSUME Init PROVE IInv
  OBVIOUS
<1>1. NoRequest \in OfferRequests
  BY DEF NoRequest, OfferRequests
<1>2. TypeOK
  BY <1>1, TTLAssumption DEF Init, TypeOK, EmptyCache, NoForm, Sessions
<1>3. StoreDiscipline
  BY DEF Init, StoreDiscipline
<1>4. CacheDiscipline
  BY DEF Init, CacheDiscipline, EmptyCache, NoForm
<1>5. MergeDiscipline /\ MergedFormIsOfSession
  BY DEF Init, MergeDiscipline, MergedFormIsOfSession
<1> QED
  BY <1>2, <1>3, <1>4, <1>5 DEF IInv

\* Storing o's form preserves the invariant wherever its handler goes from
\* there: the entry is the newest of its session.
LEMMA StoringIInv ==
  ASSUME IInv, NEW o \in Offers, pc[o] = "store", AddFormData(o),
         NEW e \in {"disclosed", "failed"}, Goto(o, e),
         UNCHANGED <<now, request, session, lost, credentialVars>>
  PROVE  IInv'
<1> USE DEF IInv, Goto, AddFormData, FormKey, FormExpiry, credentialVars
<1>1. o \notin stored /\ session[o] \in Sessions /\ request[o].form
  BY DEF TypeOK, StoreDiscipline
<1>2. TypeOK'
  BY <1>1, TTLAssumption DEF TypeOK
<1>3. StoreDiscipline'
  BY <1>1, TTLAssumption DEF TypeOK, StoreDiscipline
<1>4. CacheDiscipline'
  <2>1. \A s \in Sessions \ {session[o]} : cache'[s] = cache[s]
    BY DEF TypeOK
  <2>2. cache'[session[o]] = [of |-> o, expires |-> now + FormTTL]
    BY <1>1 DEF TypeOK
  <2>3. \A q \in stored : q # o /\ storedAt'[q] = storedAt[q]
    BY <1>1 DEF TypeOK
  <2>4. storedAt'[o] = now /\ o \in stored' /\ o # NoOffer
    BY OfferAssumption DEF TypeOK
  <2>5. ASSUME NEW s \in Sessions
        PROVE  IF cache'[s].of = NoOffer THEN cache'[s].expires = 0
               ELSE /\ cache'[s].of \in stored' \ lost'
                    /\ session'[cache'[s].of] = s
                    /\ cache'[s].expires = storedAt'[cache'[s].of] + FormTTL
    <3>1. CASE s = session[o]
      BY <1>1, <2>2, <2>4, <3>1 DEF TypeOK
    <3>2. CASE s # session[o]
      BY <2>1, <2>3, <3>2 DEF CacheDiscipline
    <3> QED
      BY <3>1, <3>2
  <2>6. ASSUME NEW q \in stored' \ lost'
        PROVE  /\ cache'[session'[q]].of \in stored'
               /\ storedAt'[cache'[session'[q]].of] >= storedAt'[q]
               /\ \A l \in lost' : storedAt'[l] <= storedAt'[q]
    <3>1. session[q] \in Sessions /\ storedAt'[q] \in Nat /\ storedAt'[q] <= now /\ now \in Nat
      BY <1>1, <1>2, <2>3, <2>4 DEF TypeOK, StoreDiscipline
    <3>2. \A l \in lost' : storedAt'[l] <= storedAt'[q]
      <4>1. ASSUME NEW l \in lost
            PROVE  l \in stored /\ storedAt'[l] = storedAt[l] /\ storedAt[l] <= now
        BY <2>3 DEF TypeOK, StoreDiscipline
      <4>2. CASE q = o
        BY <2>4, <4>1, <4>2
      <4>3. CASE q # o
        BY <2>3, <4>1, <4>3 DEF CacheDiscipline
      <4> QED
        BY <4>2, <4>3
    <3>3. CASE session[q] = session[o]
      BY <2>2, <2>4, <3>1, <3>2, <3>3
    <3>4. CASE session[q] # session[o]
      <4>1. q \in stored \ lost
        BY <3>4
      <4> QED
        BY <2>1, <2>3, <3>1, <3>2, <3>4, <4>1 DEF CacheDiscipline
    <3> QED
      BY <3>3, <3>4
  <2> QED
    BY <2>5, <2>6 DEF CacheDiscipline
<1>5. MergeDiscipline'
  BY DEF MergeDiscipline
<1>6. MergedFormIsOfSession'
  BY <1>1 DEF TypeOK, MergeDiscipline, MergedFormIsOfSession
<1> QED
  BY <1>2, <1>3, <1>4, <1>5, <1>6

\* Every step preserves the invariant.
LEMMA NextIInv == IInv /\ [Next]_vars => IInv'
<1> SUFFICES ASSUME IInv, [Next]_vars PROVE IInv'
  OBVIOUS
<1> USE DEF IInv, Goto, offerVars, credentialVars
<1>1. ASSUME NEW o \in Offers, RefuseOffer(o) PROVE IInv'
  <2> USE <1>1 DEF RefuseOffer
  <2>1. TypeOK'
    BY DEF TypeOK
  <2>2. StoreDiscipline'
    BY DEF TypeOK, StoreDiscipline
  <2>3. CacheDiscipline' /\ MergeDiscipline' /\ MergedFormIsOfSession'
    BY DEF CacheDiscipline, MergeDiscipline, MergedFormIsOfSession
  <2> QED
    BY <2>1, <2>2, <2>3
<1>2. ASSUME NEW o \in Offers, AcceptOffer(o) PROVE IInv'
  <2> USE <1>2 DEF AcceptOffer
  <2>1. TypeOK'
    BY DEF TypeOK
  <2>2. o \notin stored
    BY DEF StoreDiscipline
  <2>3. StoreDiscipline'
    BY <2>2 DEF TypeOK, StoreDiscipline
  <2>4. CacheDiscipline' /\ MergeDiscipline'
    BY DEF CacheDiscipline, MergeDiscipline
  <2>5. MergedFormIsOfSession'
    BY <2>2 DEF TypeOK, MergeDiscipline, MergedFormIsOfSession
  <2> QED
    BY <2>1, <2>3, <2>4, <2>5
<1>3. ASSUME NEW o \in Offers, GeneratePreauth(o) PROVE IInv'
  <2> USE <1>3 DEF GeneratePreauth
  <2>1. TypeOK'
    BY DEF TypeOK, Hint, MadeUp, OfferRequests, Sessions
  <2>2. o \notin stored
    BY DEF StoreDiscipline
  <2>3. StoreDiscipline'
    BY <2>2 DEF TypeOK, StoreDiscipline
  <2>4. CacheDiscipline'
    BY <2>2 DEF TypeOK, CacheDiscipline
  <2>5. MergeDiscipline'
    BY DEF MergeDiscipline
  <2>6. MergedFormIsOfSession'
    BY <2>2 DEF TypeOK, MergeDiscipline, MergedFormIsOfSession
  <2> QED
    BY <2>1, <2>3, <2>4, <2>5, <2>6
<1>4. ASSUME NEW o \in Offers, PreauthFailed(o) PROVE IInv'
  <2> USE <1>4 DEF PreauthFailed
  <2>1. TypeOK'
    BY DEF TypeOK
  <2>2. StoreDiscipline'
    BY DEF TypeOK, StoreDiscipline
  <2>3. CacheDiscipline' /\ MergeDiscipline' /\ MergedFormIsOfSession'
    BY DEF CacheDiscipline, MergeDiscipline, MergedFormIsOfSession
  <2> QED
    BY <2>1, <2>2, <2>3
<1>5. ASSUME NEW o \in Offers, StoreForm(o) PROVE IInv'
  BY <1>5, StoringIInv DEF StoreForm
<1>6. ASSUME NEW o \in Offers, StoreFailed(o) PROVE IInv'
  <2> USE <1>6 DEF StoreFailed
  <2>1. CASE AddFormData(o)
    BY <2>1, StoringIInv
  <2>2. CASE UNCHANGED <<cache, storedAt, stored>>
    <3> USE <2>2
    <3>1. TypeOK'
      BY DEF TypeOK
    <3>2. StoreDiscipline'
      BY DEF TypeOK, StoreDiscipline
    <3>3. CacheDiscipline' /\ MergeDiscipline' /\ MergedFormIsOfSession'
      BY DEF CacheDiscipline, MergeDiscipline, MergedFormIsOfSession
    <3> QED
      BY <3>1, <3>2, <3>3
  <2> QED
    BY <2>1, <2>2
<1>7. ASSUME NEW c \in Credentials, Introspected(c) PROVE IInv'
  <2> USE <1>7 DEF Introspected
  <2>1. TypeOK'
    BY DEF TypeOK, Sessions
  <2>2. StoreDiscipline' /\ CacheDiscipline'
    BY DEF StoreDiscipline, CacheDiscipline
  <2>3. MergeDiscipline'
    BY DEF TypeOK, MergeDiscipline
  <2>4. MergedFormIsOfSession'
    BY DEF TypeOK, MergeDiscipline, MergedFormIsOfSession
  <2> QED
    BY <2>1, <2>2, <2>3, <2>4
<1>8. ASSUME NEW c \in Credentials, MergeForm(c) PROVE IInv'
  <2> USE <1>8 DEF MergeForm
  <2> DEFINE o == cache[sub[c]].of
  <2>1. sub[c] \in Sessions /\ now \in Nat /\ cache[sub[c]].expires > now
    BY TTLAssumption DEF TypeOK, MergeDiscipline, Live
  <2>2. o \in stored /\ session[o] = sub[c] /\ now < storedAt[o] + FormTTL
    BY <2>1 DEF CacheDiscipline
  <2>3. request[o].form
    BY <2>2 DEF TypeOK, StoreDiscipline
  <2>4. TypeOK'
    BY <2>2 DEF TypeOK
  <2>5. StoreDiscipline' /\ CacheDiscipline'
    BY DEF StoreDiscipline, CacheDiscipline
  <2>6. MergeDiscipline'
    BY <2>2 DEF TypeOK, MergeDiscipline
  <2>7. MergedFormIsOfSession'
    BY <2>2, <2>3 DEF TypeOK, MergedFormIsOfSession
  <2> QED
    BY <2>4, <2>5, <2>6, <2>7
<1>9. ASSUME NEW c \in Credentials, NoFormFound(c) \/ NoAnswer(c) PROVE IInv'
  <2> USE <1>9 DEF NoFormFound, NoAnswer
  <2>1. TypeOK'
    BY DEF TypeOK
  <2>2. StoreDiscipline' /\ CacheDiscipline'
    BY DEF StoreDiscipline, CacheDiscipline
  <2>3. MergeDiscipline' /\ MergedFormIsOfSession'
    BY DEF TypeOK, MergeDiscipline, MergedFormIsOfSession
  <2> QED
    BY <2>1, <2>2, <2>3
<1>10. ASSUME Restart PROVE IInv'
  <2> USE <1>10 DEF Restart
  <2>1. TypeOK'
    BY DEF TypeOK, EmptyCache, NoForm
  <2>2. StoreDiscipline'
    BY DEF TypeOK, StoreDiscipline
  <2>3. CacheDiscipline'
    <3>1. CASE cache' = EmptyCache /\ lost' = stored
      BY <3>1 DEF CacheDiscipline, EmptyCache, NoForm
    <3>2. CASE UNCHANGED <<cache, lost>>
      BY <3>2 DEF CacheDiscipline
    <3> QED
      BY <3>1, <3>2
  <2>4. MergeDiscipline' /\ MergedFormIsOfSession'
    BY DEF TypeOK, MergeDiscipline, MergedFormIsOfSession
  <2> QED
    BY <2>1, <2>2, <2>3, <2>4
<1>11. ASSUME Tick PROVE IInv'
  <2> USE <1>11 DEF Tick
  <2>1. TypeOK'
    BY TTLAssumption DEF TypeOK
  <2>2. StoreDiscipline'
    BY TTLAssumption DEF TypeOK, StoreDiscipline
  <2>3. CacheDiscipline' /\ MergeDiscipline' /\ MergedFormIsOfSession'
    BY DEF CacheDiscipline, MergeDiscipline, MergedFormIsOfSession
  <2> QED
    BY <2>1, <2>2, <2>3
<1>12. CASE UNCHANGED vars
  BY <1>12 DEF vars, TypeOK, StoreDiscipline, CacheDiscipline, MergeDiscipline,
     MergedFormIsOfSession
<1>13. CASE Finished
  BY <1>12, <1>13 DEF Finished
<1> QED
  BY <1>1, <1>2, <1>3, <1>4, <1>5, <1>6, <1>7, <1>8, <1>9, <1>10, <1>11, <1>12, <1>13
     DEF Next, HandleOffer, HandleCredential

\* A form that was stored, not lost and has not expired is found, or a later
\* one of its session.
LEMMA StoredIsFindable ==
  ASSUME IInv, NEW o \in stored \ lost, now < storedAt[o] + FormTTL
  PROVE  Findable(o)
<1> DEFINE q == cache[session[o]].of
<1>1. session[o] \in Sessions /\ now \in Nat /\ storedAt[o] \in Nat
  BY TTLAssumption DEF IInv, TypeOK, StoreDiscipline
<1>2. q \in stored /\ storedAt[q] >= storedAt[o]
  BY DEF IInv, CacheDiscipline
<1>3. q # NoOffer /\ storedAt[q] \in Nat
  BY <1>2, OfferAssumption, TTLAssumption DEF IInv, TypeOK
<1>4. session[q] = session[o] /\ cache[session[o]].expires = storedAt[q] + FormTTL
  BY <1>1, <1>3 DEF IInv, CacheDiscipline
<1> QED
  BY <1>1, <1>2, <1>3, <1>4, TTLAssumption DEF Findable, Live

\* The inductive invariant of offers and forms holds in every reachable state.
THEOREM IInvHolds == Spec => []IInv
<1> QED
  BY InitIInv, NextIInv, PTL DEF Spec

\* Every variable of the offers, the form cache and the credential requests has
\* its type.
THEOREM TypeCorrect == Spec => []TypeOK
<1>1. IInv => TypeOK
  BY DEF IInv
<1> QED
  BY <1>1, IInvHolds, PTL

\* No credential request ever merges the form of another session or an expired
\* one.
THEOREM MergedFormIsAlwaysOfSession == Spec => []MergedFormIsOfSession
<1>1. IInv => MergedFormIsOfSession
  BY DEF IInv
<1> QED
  BY <1>1, IInvHolds, PTL

\* A disclosed offer's form is found until it expires or is lost with the cache.
THEOREM DisclosedFormIsFindable == Spec => []DisclosedFormFindable
<1>1. IInv => DisclosedFormFindable
  BY StoredIsFindable DEF IInv, StoreDiscipline, DisclosedFormFindable
<1> QED
  BY <1>1, IInvHolds, PTL

\* The form found for a session is the latest stored for it, the lost ones
\* included.
LEMMA CachedIsLatest ==
  ASSUME IInv, NEW s \in Sessions, Live(s), NEW o \in stored, session[o] = s
  PROVE  storedAt[o] <= storedAt[cache[s].of]
<1> DEFINE q == cache[s].of
<1>1. cache[s].of # NoOffer
  BY TTLAssumption DEF IInv, TypeOK, CacheDiscipline, Live
<1>2. q \in stored \ lost /\ session[q] = s
  BY <1>1 DEF IInv, CacheDiscipline
<1>3. CASE o \in lost
  BY <1>2, <1>3 DEF IInv, CacheDiscipline
<1>4. CASE o \notin lost
  <2>1. storedAt[q] >= storedAt[o]
    BY <1>4 DEF IInv, CacheDiscipline
  <2> QED
    BY <1>2, <2>1, TTLAssumption DEF IInv, TypeOK
<1> QED
  BY <1>3, <1>4

\* A credential request never merges a form when its session has a later one.
THEOREM MergedFormIsAlwaysLatest == Spec => MergedFormIsLatest
<1>1. ASSUME IInv, [Next]_vars, NEW c \in Credentials, cpc[c] = "lookup", cpc'[c] = "done",
             NEW o \in stored, session[o] = sub[c]
      PROVE  storedAt[o] <= storedAt[merged'[c]]
  <2>1. ~(\E a \in Offers : RefuseOffer(a) \/ AcceptOffer(a) \/ HandleOffer(a))
    BY <1>1 DEF RefuseOffer, AcceptOffer, HandleOffer, GeneratePreauth, PreauthFailed,
                StoreForm, StoreFailed, credentialVars
  <2>2. ~Restart /\ ~Tick /\ ~Finished /\ ~UNCHANGED vars
    BY <1>1 DEF Restart, Tick, Finished, vars, credentialVars, IInv, TypeOK
  <2>3. PICK d \in Credentials : Introspected(d) \/ HandleCredential(d)
    BY <1>1, <2>1, <2>2 DEF Next
  <2>4. MergeForm(d) /\ d = c
    BY <1>1, <2>3
    DEF Introspected, HandleCredential, MergeForm, NoFormFound, NoAnswer, IInv, TypeOK
  <2>5. Live(sub[c]) /\ merged'[c] = cache[sub[c]].of
    BY <1>1, <2>4 DEF MergeForm, IInv, TypeOK
  <2>6. sub[c] \in Sessions
    BY <1>1 DEF IInv, TypeOK, MergeDiscipline
  <2> QED
    BY <1>1, <2>5, <2>6, CachedIsLatest
<1>2. IInv /\ [Next]_vars =>
        [\A c \in Credentials : cpc[c] = "lookup" /\ cpc'[c] = "done" =>
           \A o \in stored : session[o] = sub[c] => storedAt[o] <= storedAt[merged'[c]]]_vars
  BY <1>1
<1> QED
  BY <1>2, IInvHolds, PTL DEF Spec, MergedFormIsLatest

\* A credential request that was told there is no form had none to find.
THEOREM FormIsMissedOnlyOnFailure == Spec => FormMissedOnlyOnFailure
<1>1. ASSUME IInv, [Next]_vars, NEW c \in Credentials, cpc[c] = "lookup", cpc'[c] = "formless",
             NEW o \in stored \ lost, session[o] = sub[c]
      PROVE  now >= storedAt[o] + FormTTL
  <2>1. ~Live(sub[c])
    <3>1. ~(\E a \in Offers : RefuseOffer(a) \/ AcceptOffer(a) \/ HandleOffer(a))
      BY <1>1 DEF RefuseOffer, AcceptOffer, HandleOffer, GeneratePreauth, PreauthFailed,
                  StoreForm, StoreFailed, credentialVars
    <3>2. ~Restart /\ ~Tick /\ ~Finished /\ ~UNCHANGED vars
      BY <1>1 DEF Restart, Tick, Finished, vars, credentialVars, IInv, TypeOK
    <3>3. PICK d \in Credentials : Introspected(d) \/ HandleCredential(d)
      BY <1>1, <3>1, <3>2 DEF Next
    <3>4. NoFormFound(d) /\ d = c
      BY <1>1, <3>3
      DEF Introspected, HandleCredential, MergeForm, NoFormFound, NoAnswer, IInv, TypeOK
    <3> QED
      BY <3>4 DEF NoFormFound
  <2>2. ~Findable(o)
    BY <1>1, <2>1 DEF Findable
  <2>3. now \in Nat /\ storedAt[o] \in Nat
    BY <1>1, TTLAssumption DEF IInv, TypeOK
  <2> QED
    BY <1>1, <2>2, <2>3, StoredIsFindable, TTLAssumption
<1>2. IInv /\ [Next]_vars =>
        [\A c \in Credentials : cpc[c] = "lookup" /\ cpc'[c] = "formless" =>
           \A o \in stored \ lost : session[o] = sub[c] => now >= storedAt[o] + FormTTL]_vars
  BY <1>1
<1> QED
  BY <1>2, IInvHolds, PTL DEF Spec, FormMissedOnlyOnFailure
=============================================================================
