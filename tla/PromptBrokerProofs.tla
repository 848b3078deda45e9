------------------------- MODULE PromptBrokerProofs -------------------------
(***************************************************************************)
(* The brokers' promises for any number of workstations, checks, keys and  *)
(* command threads.                                                        *)
(*                                                                         *)
(* Each rests on something that happened earlier: an answer on its way was *)
(* given by the owner (Answers); a question leaves `pending' only after    *)
(* its sender has left `requests' (Tables), so that a cancellation that    *)
(* does not find it has nothing left to do (Calls); and while a check      *)
(* waits, nobody else can pin a key for its host, because checks of one    *)
(* host exclude each other (Pins).                                         *)
(***************************************************************************)
EXTENDS PromptBroker, TLAPS

\* Before the question is visible.
Early == {"idle", "looking", "promoting", "registering", "announcing"}

\* Whatever was sent, or is being sent, and is not a rejection is the owner's.
Answers ==
    /\ \A u \in Callers : at[u] \in {"taking", "sending"} /\ choice[u] # "Reject" =>
           job[u] \in given
    /\ \A c \in Checks : slot[c] \notin {"none", "Reject"} \/ pc[c] = "saving" => c \in given
    /\ TrustIsGiven

\* The two tables follow the life of a check, the sender inside the question.
Tables ==
    \A c \in Checks :
        /\ c \in requests => pc[c] \in {"announcing", "waiting", "expired", "saving", "ending"}
        /\ c \in requests /\ pc[c] # "announcing" => c \in pending
        /\ c \in pending => pc[c] \notin Early \cup {"done"}

\* What callers work on was visible once; what was taken stays taken.
Calls ==
    /\ \A u \in Callers :
        /\ batch[u] = None => todo[u] = {}
        /\ \A c \in todo[u] : pc[c] \notin Early /\ OwnerOf[c] = batch[u]
        /\ at[u] \in {"taking", "sending", "retaining"} => pc[job[u]] \notin Early
        /\ at[u] \in {"sending", "retaining"} => job[u] \notin requests
    /\ \A c \in cancelled : c \notin requests /\ pc[c] \notin Early

\* Checks of one host exclude each other, and what a lookup found stays true.
Pins ==
    /\ \A c, d \in Checks : Active(c) /\ Active(d) /\ OwnerOf[c] = OwnerOf[d] => c = d
    /\ \A c \in KeyboardChecks : pc[c] \notin {"looking", "promoting", "saving"}
    /\ \A c \in KeyChecks :
        pc[c] \in {"looking", "promoting", "registering", "announcing", "waiting",
                   "expired", "saving"} => key[c] \in Keys
    /\ \A c \in Checks : pc[c] = "promoting" => c \in HostChecks
    /\ \A c \in HostChecks :
        pc[c] \in {"promoting", "registering", "announcing", "waiting", "expired",
                   "saving"} =>
            hostKeys[OwnerOf[c]][AlgorithmOf[key[c]]] = None

PInv == PromptTypeOK /\ Answers /\ Tables /\ Calls /\ Pins

-----------------------------------------------------------------------------
(* A check returns. The store may have been written for it, but not for any*)
(* other check that still relies on it.                                    *)
LEMMA ConcludeKeeps ==
    ASSUME PInv, NEW c \in Checks, NEW r \in Verdicts,
           Conclude(c, r), r = "Answered" => c \in given,
           pc[c] \in {"idle", "looking", "promoting", "waiting", "expired", "saving"},
           UNCHANGED <<tables, callerVars, history>>,
           hostKeys' \in [Owners -> [Algorithms -> Records \cup {None}]],
           endpointKeys' \in [Endpoints -> Records \cup {None}],
           \A d \in HostChecks \ {c} :
               Active(d) => hostKeys'[OwnerOf[d]] = hostKeys[OwnerOf[d]]
    PROVE  PInv'
<1>0. /\ pc' \in [Checks -> Steps]
      /\ \A d \in Checks : d # c => pc'[d] = pc[d] /\ key'[d] = key[d] /\ slot'[d] = slot[d]
                                    /\ verdict'[d] = verdict[d]
      /\ pc'[c] \in {"done", "ending"} /\ (pc[c] \notin Early => pc'[c] = "ending")
      /\ pc[c] \in {"idle", "looking", "promoting"} <=> pc'[c] = "done"
      /\ slot'[c] = "none" /\ verdict'[c] = r
      /\ key' \in [Checks -> Keys \cup {None}]
      /\ slot' \in [Checks -> Decisions \cup {"none"}]
      /\ verdict' \in [Checks -> Verdicts]
    BY DEF Conclude, Goto, PInv, PromptTypeOK, Steps, Early
<1>1. PromptTypeOK'
    BY <1>0, BrokerAssumption DEF Active, Answers, Calls, Checks, Early,
           KeyChecks, Pins, PInv, PromptTypeOK, Tables, TrustIsGiven, tables,
           callerVars, history
<1>2. Answers'
    BY <1>0, BrokerAssumption DEF Active, Answers, Calls, Checks, Early,
           KeyChecks, Pins, PInv, PromptTypeOK, Tables, TrustIsGiven, tables,
           callerVars, history
<1>3. Tables'
    BY <1>0, BrokerAssumption DEF Active, Answers, Calls, Checks, Early,
           KeyChecks, Pins, PInv, PromptTypeOK, Tables, TrustIsGiven, tables,
           callerVars, history
<1>4. Calls'
    BY <1>0, BrokerAssumption DEF Active, Answers, Calls, Checks, Early,
           KeyChecks, Pins, PInv, PromptTypeOK, Tables, TrustIsGiven, tables,
           callerVars, history
<1>5. Pins'
  <2>1. \A d, e \in Checks : Active(d)' /\ Active(e)' /\ OwnerOf[d] = OwnerOf[e] => d = e
      BY <1>0 DEF PInv, Pins, Active
  <2>2. \A d \in KeyboardChecks : pc'[d] \notin {"looking", "promoting", "saving"}
      BY <1>0 DEF PInv, Pins, Checks
  <2>3. \A d \in KeyChecks :
          pc'[d] \in {"looking", "promoting", "registering", "announcing", "waiting",
                     "expired", "saving"} => key'[d] \in Keys
      BY <1>0 DEF PInv, Pins, Checks, KeyChecks
  <2>4. \A d \in Checks : pc'[d] = "promoting" => d \in HostChecks
      BY <1>0 DEF PInv, Pins
  <2>5. \A d \in HostChecks :
          pc'[d] \in {"promoting", "registering", "announcing", "waiting", "expired",
                     "saving"} =>
              hostKeys'[OwnerOf[d]][AlgorithmOf[key'[d]]] = None
      BY <1>0 DEF PInv, Pins, Active, Checks
  <2> QED BY <2>1, <2>2, <2>3, <2>4, <2>5 DEF Pins
<1> QED BY <1>1, <1>2, <1>3, <1>4, <1>5 DEF PInv

(* A save concerns one host or one endpoint.                               *)
LEMMA PersistKeeps ==
    ASSUME PInv, NEW c \in KeyChecks, Active(c), key[c] \in Keys, Persist(c)
    PROVE  /\ hostKeys' \in [Owners -> [Algorithms -> Records \cup {None}]]
           /\ endpointKeys' \in [Endpoints -> Records \cup {None}]
           /\ \A d \in HostChecks \ {c} :
                  Active(d) => hostKeys'[OwnerOf[d]] = hostKeys[OwnerOf[d]]
<1>0. /\ OwnerOf[c] \in Owners /\ EndpointOf[c] \in Endpoints
      /\ AlgorithmOf[key[c]] \in Algorithms
      /\ [key |-> key[c], blob |-> TRUE] \in Records
    BY BrokerAssumption DEF Checks, KeyChecks, Records
<1>1. CASE c \in HostChecks
  <2>1. /\ hostKeys' = [hostKeys EXCEPT ![OwnerOf[c]][AlgorithmOf[key[c]]] =
                                              [key |-> key[c], blob |-> TRUE]]
        /\ endpointKeys' = endpointKeys
      BY <1>1 DEF Persist, save_for_host
  <2>2. hostKeys' \in [Owners -> [Algorithms -> Records \cup {None}]]
      BY <1>0, <2>1 DEF PInv, PromptTypeOK
  <2>3. \A d \in HostChecks \ {c} :
            Active(d) => OwnerOf[d] # OwnerOf[c] /\ OwnerOf[d] \in Owners
      BY BrokerAssumption DEF PInv, Pins, Checks, KeyChecks
  <2>4. \A p \in Owners : p # OwnerOf[c] => hostKeys'[p] = hostKeys[p]
      BY <1>0, <2>1 DEF PInv, PromptTypeOK
  <2> QED BY <2>1, <2>2, <2>3, <2>4 DEF PInv, PromptTypeOK
<1>2. CASE c \notin HostChecks
  <2>1. endpointKeys' = [endpointKeys EXCEPT ![EndpointOf[c]] = [key |-> key[c], blob |-> TRUE]]
        /\ hostKeys' = hostKeys
      BY <1>2 DEF Persist, save
  <2> QED BY <1>0, <2>1 DEF PInv, PromptTypeOK
<1> QED BY <1>1, <1>2

\* check_server_key keeps the invariant.
LEMMA check_server_keyStep ==
    ASSUME PInv, NEW c \in Checks, NEW k \in Keys,
           check_server_key(c, k)
    PROVE  PInv'
<1>1. PromptTypeOK'
    BY DEF check_server_key, MayStart, Active, Goto, PInv, PromptTypeOK, Steps,
           Verdicts, Decisions, Trusting, checkVars, tables, store, callerVars,
           history
<1>2. Answers'
    BY DEF check_server_key, MayStart, Active, Goto, PInv, PromptTypeOK, Answers,
           TrustIsGiven, checkVars, tables, store, callerVars, history
<1>3. Tables'
    BY DEF check_server_key, MayStart, Active, Goto, PInv, PromptTypeOK, Tables,
           Calls, Early, checkVars, tables, store, callerVars, history
<1>4. Calls'
    BY DEF check_server_key, MayStart, Active, Goto, PInv, PromptTypeOK, Calls,
           Tables, Early, checkVars, tables, store, callerVars, history
<1>5. Pins'
    BY BrokerAssumption DEF check_server_key, MayStart, Active, Goto, PInv,
           PromptTypeOK, Pins, Checks, KeyChecks, checkVars, tables, store,
           callerVars, history
<1> QED BY <1>1, <1>2, <1>3, <1>4, <1>5 DEF PInv

\* prompt_for_connection keeps the invariant.
LEMMA prompt_for_connectionStep ==
    ASSUME PInv, NEW c \in Checks,
           prompt_for_connection(c)
    PROVE  PInv'
<1>1. CASE Conclude(c, "Failed")
    BY <1>1, ConcludeKeeps DEF prompt_for_connection, MayStart, PInv,
           PromptTypeOK, Verdicts, store
<1>2. CASE Goto(c, "registering") /\ UNCHANGED <<key, slot, verdict>>
  <2>1. PromptTypeOK'
      BY <1>2, BrokerAssumption DEF prompt_for_connection, MayStart, Goto, PInv,
             PromptTypeOK, Steps, Verdicts, Decisions, Trusting, checkVars,
             tables, store, callerVars, history
  <2>2. Answers'
      BY <1>2, BrokerAssumption DEF prompt_for_connection, MayStart, Goto, PInv,
             PromptTypeOK, Answers, TrustIsGiven, checkVars, tables, store,
             callerVars, history
  <2>3. Tables'
      BY <1>2, BrokerAssumption DEF prompt_for_connection, MayStart, Goto, PInv,
             PromptTypeOK, Tables, Calls, Early, checkVars, tables, store,
             callerVars, history
  <2>4. Calls'
      BY <1>2, BrokerAssumption DEF prompt_for_connection, MayStart, Goto, PInv,
             PromptTypeOK, Calls, Tables, Early, checkVars, tables, store,
             callerVars, history
  <2>5. Pins'
      BY <1>2, BrokerAssumption DEF prompt_for_connection, MayStart, Goto, PInv,
             PromptTypeOK, Pins, Active, Checks, KeyChecks, checkVars, tables,
             store, callerVars, history
  <2> QED BY <2>1, <2>2, <2>3, <2>4, <2>5 DEF PInv
<1> QED BY <1>1, <1>2 DEF prompt_for_connection

\* LookupFails keeps the invariant.
LEMMA LookupFailsStep ==
    ASSUME PInv, NEW c \in Checks,
           LookupFails(c)
    PROVE  PInv'
    BY ConcludeKeeps DEF LookupFails, PInv, PromptTypeOK, Verdicts, store

\* LookupMatches keeps the invariant.
LEMMA LookupMatchesStep ==
    ASSUME PInv, NEW c \in Checks,
           LookupMatches(c)
    PROVE  PInv'
<1>1. CASE Conclude(c, "Known")
    BY <1>1, ConcludeKeeps DEF LookupMatches, PInv, PromptTypeOK, Verdicts, store
<1>2. CASE /\ Goto(c, "promoting") /\ UNCHANGED <<key, slot, verdict>>
           /\ c \in HostChecks
           /\ get_for_host(OwnerOf[c], AlgorithmOf[key[c]]) = None
  <2>1. PromptTypeOK'
      BY <1>2, BrokerAssumption DEF LookupMatches, get_for_host, Goto, PInv,
             PromptTypeOK, Steps, Verdicts, Decisions, Trusting, checkVars,
             tables, store, callerVars, history
  <2>2. Answers'
      BY <1>2, BrokerAssumption DEF LookupMatches, get_for_host, Goto, PInv,
             PromptTypeOK, Answers, TrustIsGiven, checkVars, tables, store,
             callerVars, history
  <2>3. Tables'
      BY <1>2, BrokerAssumption DEF LookupMatches, get_for_host, Goto, PInv,
             PromptTypeOK, Tables, Calls, Early, checkVars, tables, store,
             callerVars, history
  <2>4. Calls'
      BY <1>2, BrokerAssumption DEF LookupMatches, get_for_host, Goto, PInv,
             PromptTypeOK, Calls, Tables, Early, checkVars, tables, store,
             callerVars, history
  <2>5. Pins'
      BY <1>2, BrokerAssumption DEF LookupMatches, get_for_host, Goto, PInv,
             PromptTypeOK, Pins, Active, Checks, KeyChecks, checkVars, tables,
             store, callerVars, history
  <2> QED BY <2>1, <2>2, <2>3, <2>4, <2>5 DEF PInv
<1> QED BY <1>1, <1>2 DEF LookupMatches

\* LookupDiffers keeps the invariant.
LEMMA LookupDiffersStep ==
    ASSUME PInv, NEW c \in Checks,
           LookupDiffers(c)
    PROVE  PInv'
    BY ConcludeKeeps DEF LookupDiffers, PInv, PromptTypeOK, Verdicts, store

\* LookupUnknown keeps the invariant.
LEMMA LookupUnknownStep ==
    ASSUME PInv, NEW c \in Checks,
           LookupUnknown(c)
    PROVE  PInv'
<1>1. PromptTypeOK'
    BY DEF LookupUnknown, Saved, lookup_for_host_match_algorithm, get_for_host,
           get, Goto, PInv, PromptTypeOK, Steps, Verdicts, Decisions, Trusting,
           checkVars, tables, store, callerVars, history
<1>2. Answers'
    BY DEF LookupUnknown, Saved, lookup_for_host_match_algorithm, get_for_host,
           get, Goto, PInv, PromptTypeOK, Answers, TrustIsGiven, checkVars,
           tables, store, callerVars, history
<1>3. Tables'
    BY DEF LookupUnknown, Saved, lookup_for_host_match_algorithm, get_for_host,
           get, Goto, PInv, PromptTypeOK, Tables, Calls, Early, checkVars, tables,
           store, callerVars, history
<1>4. Calls'
    BY DEF LookupUnknown, Saved, lookup_for_host_match_algorithm, get_for_host,
           get, Goto, PInv, PromptTypeOK, Calls, Tables, Early, checkVars, tables,
           store, callerVars, history
<1>5. Pins'
    BY BrokerAssumption DEF LookupUnknown, Saved, lookup_for_host_match_algorithm,
           get_for_host, get, Goto, PInv, PromptTypeOK, Pins, Active, Checks,
           KeyChecks, checkVars, tables, store, callerVars, history
<1> QED BY <1>1, <1>2, <1>3, <1>4, <1>5 DEF PInv

\* Promote keeps the invariant.
LEMMA PromoteStep ==
    ASSUME PInv, NEW c \in Checks,
           Promote(c)
    PROVE  PInv'
<1>0. c \in KeyChecks /\ Active(c) /\ key[c] \in Keys
    BY DEF Promote, PInv, Pins, Active, Checks, KeyChecks
<1>1. CASE Persist(c) /\ Conclude(c, "Known")
    BY <1>0, <1>1, PersistKeeps, ConcludeKeeps DEF Promote, PInv, Answers,
           Verdicts
<1>2. CASE Conclude(c, "Failed") /\ UNCHANGED store
    BY <1>2, ConcludeKeeps DEF Promote, PInv, PromptTypeOK, Verdicts, store
<1> QED BY <1>1, <1>2 DEF Promote

\* Register keeps the invariant.
LEMMA RegisterStep ==
    ASSUME PInv, NEW c \in Checks,
           Register(c)
    PROVE  PInv'
<1>1. PromptTypeOK'
    BY DEF Register, Goto, PInv, PromptTypeOK, Steps, Verdicts, Decisions,
           Trusting, checkVars, tables, store, callerVars, history
<1>2. Answers'
    BY DEF Register, Goto, PInv, PromptTypeOK, Answers, TrustIsGiven, checkVars,
           tables, store, callerVars, history
<1>3. Tables'
    BY DEF Register, Goto, PInv, PromptTypeOK, Tables, Calls, Early, checkVars,
           tables, store, callerVars, history
<1>4. Calls'
    BY DEF Register, Goto, PInv, PromptTypeOK, Calls, Tables, Early, checkVars,
           tables, store, callerVars, history
<1>5. Pins'
    BY BrokerAssumption DEF Register, Goto, PInv, PromptTypeOK, Pins, Active,
           Checks, KeyChecks, checkVars, tables, store, callerVars, history
<1> QED BY <1>1, <1>2, <1>3, <1>4, <1>5 DEF PInv

\* Announce keeps the invariant.
LEMMA AnnounceStep ==
    ASSUME PInv, NEW c \in Checks,
           Announce(c)
    PROVE  PInv'
<1>1. PromptTypeOK'
    BY DEF Announce, Goto, PInv, PromptTypeOK, Steps, Verdicts, Decisions,
           Trusting, checkVars, tables, store, callerVars, history
<1>2. Answers'
    BY DEF Announce, Goto, PInv, PromptTypeOK, Answers, TrustIsGiven, checkVars,
           tables, store, callerVars, history
<1>3. Tables'
    BY DEF Announce, Goto, PInv, PromptTypeOK, Tables, Calls, Early, checkVars,
           tables, store, callerVars, history
<1>4. Calls'
    BY DEF Announce, Goto, PInv, PromptTypeOK, Calls, Tables, Early, checkVars,
           tables, store, callerVars, history
<1>5. Pins'
    BY BrokerAssumption DEF Announce, Goto, PInv, PromptTypeOK, Pins, Active,
           Checks, KeyChecks, checkVars, tables, store, callerVars, history
<1> QED BY <1>1, <1>2, <1>3, <1>4, <1>5 DEF PInv

\* ReceiveDecision keeps the invariant.
LEMMA ReceiveDecisionStep ==
    ASSUME PInv, NEW c \in Checks,
           ReceiveDecision(c)
    PROVE  PInv'
<1>1. CASE slot[c] = "TrustOnce" /\ Conclude(c, "Answered")
    BY <1>1, ConcludeKeeps DEF ReceiveDecision, PInv, PromptTypeOK, Answers,
           Verdicts, store
<1>2. CASE Conclude(c, "Failed")
    BY <1>2, ConcludeKeeps DEF ReceiveDecision, PInv, PromptTypeOK, Verdicts,
           store
<1>3. CASE slot[c] = "TrustAndSave" /\ Goto(c, "saving") /\ UNCHANGED <<key, slot, verdict>>
  <2>1. PromptTypeOK'
      BY <1>3, BrokerAssumption DEF ReceiveDecision, Goto, PInv, PromptTypeOK,
             Steps, Verdicts, Decisions, Trusting, checkVars, tables, store,
             callerVars, history
  <2>2. Answers'
      BY <1>3, BrokerAssumption DEF ReceiveDecision, Goto, PInv, PromptTypeOK,
             Answers, TrustIsGiven, checkVars, tables, store, callerVars, history
  <2>3. Tables'
      BY <1>3, BrokerAssumption DEF ReceiveDecision, Goto, PInv, PromptTypeOK,
             Tables, Calls, Early, checkVars, tables, store, callerVars, history
  <2>4. Calls'
      BY <1>3, BrokerAssumption DEF ReceiveDecision, Goto, PInv, PromptTypeOK,
             Calls, Tables, Early, checkVars, tables, store, callerVars, history
  <2>5. Pins'
      BY <1>3, BrokerAssumption DEF ReceiveDecision, Goto, PInv, PromptTypeOK,
             Pins, Active, Checks, KeyChecks, checkVars, tables, store,
             callerVars, history
  <2> QED BY <2>1, <2>2, <2>3, <2>4, <2>5 DEF PInv
<1> QED BY <1>1, <1>2, <1>3 DEF ReceiveDecision

\* ReceiveResponses keeps the invariant.
LEMMA ReceiveResponsesStep ==
    ASSUME PInv, NEW c \in Checks,
           ReceiveResponses(c)
    PROVE  PInv'
<1>1. CASE slot[c] = "Responses" /\ Conclude(c, "Answered")
    BY <1>1, ConcludeKeeps DEF ReceiveResponses, PInv, PromptTypeOK, Answers,
           Verdicts, store
<1>2. CASE Conclude(c, "Failed")
    BY <1>2, ConcludeKeeps DEF ReceiveResponses, PInv, PromptTypeOK, Verdicts,
           store
<1> QED BY <1>1, <1>2 DEF ReceiveResponses

\* SaveTrusted keeps the invariant.
LEMMA SaveTrustedStep ==
    ASSUME PInv, NEW c \in Checks,
           SaveTrusted(c)
    PROVE  PInv'
<1>0. c \in KeyChecks /\ Active(c) /\ key[c] \in Keys
    BY DEF SaveTrusted, PInv, Pins, Active, Checks, KeyChecks
<1>1. CASE Persist(c) /\ Conclude(c, "Answered")
    BY <1>0, <1>1, PersistKeeps, ConcludeKeeps DEF SaveTrusted, PInv, Answers,
           Verdicts
<1>2. CASE Conclude(c, "Failed") /\ UNCHANGED store
    BY <1>2, ConcludeKeeps DEF SaveTrusted, PInv, PromptTypeOK, Verdicts, store
<1> QED BY <1>1, <1>2 DEF SaveTrusted

\* Expire keeps the invariant.
LEMMA ExpireStep ==
    ASSUME PInv, NEW c \in Checks,
           Expire(c)
    PROVE  PInv'
<1>1. PromptTypeOK'
    BY DEF Expire, Goto, PInv, PromptTypeOK, Steps, Verdicts, Decisions, Trusting,
           checkVars, tables, store, callerVars, history
<1>2. Answers'
    BY DEF Expire, Goto, PInv, PromptTypeOK, Answers, TrustIsGiven, checkVars,
           tables, store, callerVars, history
<1>3. Tables'
    BY DEF Expire, Goto, PInv, PromptTypeOK, Tables, Calls, Early, checkVars,
           tables, store, callerVars, history
<1>4. Calls'
    BY DEF Expire, Goto, PInv, PromptTypeOK, Calls, Tables, Early, checkVars,
           tables, store, callerVars, history
<1>5. Pins'
    BY BrokerAssumption DEF Expire, Goto, PInv, PromptTypeOK, Pins, Active,
           Checks, KeyChecks, checkVars, tables, store, callerVars, history
<1> QED BY <1>1, <1>2, <1>3, <1>4, <1>5 DEF PInv

\* CloseReceiver keeps the invariant.
LEMMA CloseReceiverStep ==
    ASSUME PInv, NEW c \in Checks,
           CloseReceiver(c)
    PROVE  PInv'
    BY ConcludeKeeps DEF CloseReceiver, PInv, PromptTypeOK, Verdicts, store

\* Abort keeps the invariant.
LEMMA AbortStep ==
    ASSUME PInv, NEW c \in Checks,
           Abort(c)
    PROVE  PInv'
    BY ConcludeKeeps DEF Abort, PInv, PromptTypeOK, Verdicts, store

\* ForgetSender keeps the invariant.
LEMMA ForgetSenderStep ==
    ASSUME PInv, NEW c \in Checks,
           ForgetSender(c)
    PROVE  PInv'
<1>1. PromptTypeOK'
    BY DEF ForgetSender, Goto, PInv, PromptTypeOK, Steps, Verdicts, Decisions,
           Trusting, checkVars, tables, store, callerVars, history
<1>2. Answers'
    BY DEF ForgetSender, Goto, PInv, PromptTypeOK, Answers, TrustIsGiven,
           checkVars, tables, store, callerVars, history
<1>3. Tables'
    BY DEF ForgetSender, Goto, PInv, PromptTypeOK, Tables, Calls, Early,
           checkVars, tables, store, callerVars, history
<1>4. Calls'
    BY DEF ForgetSender, Goto, PInv, PromptTypeOK, Calls, Tables, Early,
           checkVars, tables, store, callerVars, history
<1>5. Pins'
    BY BrokerAssumption DEF ForgetSender, Goto, PInv, PromptTypeOK, Pins, Active,
           Checks, KeyChecks, checkVars, tables, store, callerVars, history
<1> QED BY <1>1, <1>2, <1>3, <1>4, <1>5 DEF PInv

\* ForgetPrompt keeps the invariant.
LEMMA ForgetPromptStep ==
    ASSUME PInv, NEW c \in Checks,
           ForgetPrompt(c)
    PROVE  PInv'
<1>1. PromptTypeOK'
    BY DEF ForgetPrompt, Goto, PInv, PromptTypeOK, Steps, Verdicts, Decisions,
           Trusting, checkVars, tables, store, callerVars, history
<1>2. Answers'
    BY DEF ForgetPrompt, Goto, PInv, PromptTypeOK, Answers, TrustIsGiven,
           checkVars, tables, store, callerVars, history
<1>3. Tables'
    BY DEF ForgetPrompt, Goto, PInv, PromptTypeOK, Tables, Calls, Early,
           checkVars, tables, store, callerVars, history
<1>4. Calls'
    BY DEF ForgetPrompt, Goto, PInv, PromptTypeOK, Calls, Tables, Early,
           checkVars, tables, store, callerVars, history
<1>5. Pins'
    BY BrokerAssumption DEF ForgetPrompt, Goto, PInv, PromptTypeOK, Pins, Active,
           Checks, KeyChecks, checkVars, tables, store, callerVars, history
<1> QED BY <1>1, <1>2, <1>3, <1>4, <1>5 DEF PInv

\* answer_for_owner keeps the invariant.
LEMMA answer_for_ownerStep ==
    ASSUME PInv, NEW u \in Callers, NEW o \in Owners, NEW c \in Checks, NEW d \in Decisions,
           answer_for_owner(u, o, c, d)
    PROVE  PInv'
<1>1. PromptTypeOK'
    BY DEF answer_for_owner, Owned, Deliver, pending_for_owner, PInv,
           PromptTypeOK, Steps, Verdicts, Decisions, Trusting, checkVars, tables,
           store, callerVars, history
<1>2. Answers'
    BY DEF answer_for_owner, Owned, Deliver, pending_for_owner, PInv,
           PromptTypeOK, Answers, TrustIsGiven, checkVars, tables, store,
           callerVars, history
<1>3. Tables'
    BY DEF answer_for_owner, Owned, Deliver, pending_for_owner, PInv,
           PromptTypeOK, Tables, Calls, Early, checkVars, tables, store,
           callerVars, history
<1>4. Calls'
    BY DEF answer_for_owner, Owned, Deliver, pending_for_owner, PInv,
           PromptTypeOK, Calls, Tables, Early, checkVars, tables, store,
           callerVars, history
<1>5. Pins'
    BY BrokerAssumption DEF answer_for_owner, Owned, Deliver, pending_for_owner,
           PInv, PromptTypeOK, Pins, Active, Checks, KeyChecks, checkVars, tables,
           store, callerVars, history
<1> QED BY <1>1, <1>2, <1>3, <1>4, <1>5 DEF PInv

\* TakeSender keeps the invariant.
LEMMA TakeSenderStep ==
    ASSUME PInv, NEW u \in Callers,
           TakeSender(u)
    PROVE  PInv'
<1>1. CASE job[u] \in requests
  <2>1. PromptTypeOK'
    <3>1. /\ pc' \in [Checks -> Steps] /\ key' \in [Checks -> Keys \cup {None}]
          /\ verdict' \in [Checks -> Verdicts]
          /\ hostKeys' \in [Owners -> [Algorithms -> Records \cup {None}]]
          /\ endpointKeys' \in [Endpoints -> Records \cup {None}]
          /\ requests' \subseteq Checks /\ pending' \subseteq Checks
          /\ given' \subseteq Checks
        BY <1>1 DEF PInv, PromptTypeOK, checkVars, tables, store, history,
               TakeSender
    <3>2. slot' \in [Checks -> Decisions \cup {"none"}] /\ cancelled' \subseteq Checks
        BY <1>1 DEF PInv, PromptTypeOK, checkVars, history, TakeSender
    <3>3. /\ at' \in [Callers -> {"idle", "taking", "sending", "retaining", "cancelling"}]
          /\ job' \in [Callers -> Checks \cup {None}]
          /\ choice' \in [Callers -> Decisions \cup {"none"}]
          /\ batch' \in [Callers -> Owners \cup {None}]
          /\ todo' \in [Callers -> SUBSET Checks]
        BY <1>1 DEF PInv, PromptTypeOK, Decisions, TakeSender
    <3>4. \A v \in Callers :
            /\ at'[v] \in {"taking", "sending", "retaining"} => job'[v] \in Checks
            /\ at'[v] \in {"taking", "sending"} => choice'[v] \in Decisions
            /\ at'[v] = "cancelling" => batch'[v] \in Owners
        BY <1>1 DEF PInv, PromptTypeOK, Calls, Decisions, TakeSender
    <3> QED BY <3>1, <3>2, <3>3, <3>4 DEF PromptTypeOK
  <2>2. Answers'
      BY <1>1, BrokerAssumption DEF TakeSender, PInv, PromptTypeOK, Answers,
             TrustIsGiven, checkVars, tables, store, callerVars, history
  <2>3. Tables'
      BY <1>1, BrokerAssumption DEF TakeSender, PInv, PromptTypeOK, Tables, Calls,
             Early, checkVars, tables, store, callerVars, history
  <2>4. Calls'
      BY <1>1, BrokerAssumption DEF TakeSender, PInv, PromptTypeOK, Calls, Tables,
             Early, checkVars, tables, store, callerVars, history
  <2>5. Pins'
      BY <1>1, BrokerAssumption DEF TakeSender, PInv, PromptTypeOK, Pins, Active,
             Checks, KeyChecks, checkVars, tables, store, callerVars, history
  <2> QED BY <2>1, <2>2, <2>3, <2>4, <2>5 DEF PInv
<1>2. CASE job[u] \notin requests
  <2>1. PromptTypeOK'
    <3>1. /\ pc' \in [Checks -> Steps] /\ key' \in [Checks -> Keys \cup {None}]
          /\ verdict' \in [Checks -> Verdicts]
          /\ hostKeys' \in [Owners -> [Algorithms -> Records \cup {None}]]
          /\ endpointKeys' \in [Endpoints -> Records \cup {None}]
          /\ requests' \subseteq Checks /\ pending' \subseteq Checks
          /\ given' \subseteq Checks
        BY <1>2 DEF PInv, PromptTypeOK, checkVars, tables, store, history,
               TakeSender, Finish
    <3>2. slot' \in [Checks -> Decisions \cup {"none"}] /\ cancelled' \subseteq Checks
        BY <1>2 DEF PInv, PromptTypeOK, checkVars, history, TakeSender, Finish
    <3>3. /\ at' \in [Callers -> {"idle", "taking", "sending", "retaining", "cancelling"}]
          /\ job' \in [Callers -> Checks \cup {None}]
          /\ choice' \in [Callers -> Decisions \cup {"none"}]
          /\ batch' \in [Callers -> Owners \cup {None}]
          /\ todo' \in [Callers -> SUBSET Checks]
        BY <1>2 DEF PInv, PromptTypeOK, Decisions, TakeSender, Finish
    <3>4. \A v \in Callers :
            /\ at'[v] \in {"taking", "sending", "retaining"} => job'[v] \in Checks
            /\ at'[v] \in {"taking", "sending"} => choice'[v] \in Decisions
            /\ at'[v] = "cancelling" => batch'[v] \in Owners
        BY <1>2 DEF PInv, PromptTypeOK, Calls, Decisions, TakeSender, Finish
    <3> QED BY <3>1, <3>2, <3>3, <3>4 DEF PromptTypeOK
  <2>2. Answers'
      BY <1>2, BrokerAssumption DEF TakeSender, Finish, PInv, PromptTypeOK,
             Answers, TrustIsGiven, checkVars, tables, store, callerVars, history
  <2>3. Tables'
      BY <1>2, BrokerAssumption DEF TakeSender, Finish, PInv, PromptTypeOK,
             Tables, Calls, Early, checkVars, tables, store, callerVars, history
  <2>4. Calls'
      BY <1>2, BrokerAssumption DEF TakeSender, Finish, PInv, PromptTypeOK, Calls,
             Tables, Early, checkVars, tables, store, callerVars, history
  <2>5. Pins'
      BY <1>2, BrokerAssumption DEF TakeSender, Finish, PInv, PromptTypeOK, Pins,
             Active, Checks, KeyChecks, checkVars, tables, store, callerVars,
             history
  <2> QED BY <2>1, <2>2, <2>3, <2>4, <2>5 DEF PInv
<1> QED BY <1>1, <1>2

\* Send keeps the invariant.
LEMMA SendStep ==
    ASSUME PInv, NEW u \in Callers,
           Send(u)
    PROVE  PInv'
<1>1. CASE ReceiverOpen(job[u])
  <2>1. PromptTypeOK'
    <3>1. /\ pc' \in [Checks -> Steps] /\ key' \in [Checks -> Keys \cup {None}]
          /\ verdict' \in [Checks -> Verdicts]
          /\ hostKeys' \in [Owners -> [Algorithms -> Records \cup {None}]]
          /\ endpointKeys' \in [Endpoints -> Records \cup {None}]
          /\ requests' \subseteq Checks /\ pending' \subseteq Checks
          /\ given' \subseteq Checks
        BY <1>1 DEF PInv, PromptTypeOK, checkVars, tables, store, history, Send,
               ReceiverOpen
    <3>2. slot' \in [Checks -> Decisions \cup {"none"}] /\ cancelled' \subseteq Checks
        BY <1>1 DEF PInv, PromptTypeOK, checkVars, history, Send, ReceiverOpen
    <3>3. /\ at' \in [Callers -> {"idle", "taking", "sending", "retaining", "cancelling"}]
          /\ job' \in [Callers -> Checks \cup {None}]
          /\ choice' \in [Callers -> Decisions \cup {"none"}]
          /\ batch' \in [Callers -> Owners \cup {None}]
          /\ todo' \in [Callers -> SUBSET Checks]
        BY <1>1 DEF PInv, PromptTypeOK, Decisions, Send, ReceiverOpen
    <3>4. \A v \in Callers :
            /\ at'[v] \in {"taking", "sending", "retaining"} => job'[v] \in Checks
            /\ at'[v] \in {"taking", "sending"} => choice'[v] \in Decisions
            /\ at'[v] = "cancelling" => batch'[v] \in Owners
        BY <1>1 DEF PInv, PromptTypeOK, Calls, Decisions, Send, ReceiverOpen
    <3> QED BY <3>1, <3>2, <3>3, <3>4 DEF PromptTypeOK
  <2>2. Answers'
      BY <1>1, BrokerAssumption DEF Send, ReceiverOpen, PInv, PromptTypeOK,
             Answers, TrustIsGiven, checkVars, tables, store, callerVars, history
  <2>3. Tables'
      BY <1>1, BrokerAssumption DEF Send, ReceiverOpen, PInv, PromptTypeOK,
             Tables, Calls, Early, checkVars, tables, store, callerVars, history
  <2>4. Calls'
      BY <1>1, BrokerAssumption DEF Send, ReceiverOpen, PInv, PromptTypeOK, Calls,
             Tables, Early, checkVars, tables, store, callerVars, history
  <2>5. Pins'
      BY <1>1, BrokerAssumption DEF Send, ReceiverOpen, PInv, PromptTypeOK, Pins,
             Active, Checks, KeyChecks, checkVars, tables, store, callerVars,
             history
  <2> QED BY <2>1, <2>2, <2>3, <2>4, <2>5 DEF PInv
<1>2. CASE ~ReceiverOpen(job[u])
  <2>1. PromptTypeOK'
    <3>1. /\ pc' \in [Checks -> Steps] /\ key' \in [Checks -> Keys \cup {None}]
          /\ verdict' \in [Checks -> Verdicts]
          /\ hostKeys' \in [Owners -> [Algorithms -> Records \cup {None}]]
          /\ endpointKeys' \in [Endpoints -> Records \cup {None}]
          /\ requests' \subseteq Checks /\ pending' \subseteq Checks
          /\ given' \subseteq Checks
        BY <1>2 DEF PInv, PromptTypeOK, checkVars, tables, store, history, Send,
               Finish
    <3>2. slot' \in [Checks -> Decisions \cup {"none"}] /\ cancelled' \subseteq Checks
        BY <1>2 DEF PInv, PromptTypeOK, checkVars, history, Send, Finish
    <3>3. /\ at' \in [Callers -> {"idle", "taking", "sending", "retaining", "cancelling"}]
          /\ job' \in [Callers -> Checks \cup {None}]
          /\ choice' \in [Callers -> Decisions \cup {"none"}]
          /\ batch' \in [Callers -> Owners \cup {None}]
          /\ todo' \in [Callers -> SUBSET Checks]
        BY <1>2 DEF PInv, PromptTypeOK, Decisions, Send, Finish
    <3>4. \A v \in Callers :
            /\ at'[v] \in {"taking", "sending", "retaining"} => job'[v] \in Checks
            /\ at'[v] \in {"taking", "sending"} => choice'[v] \in Decisions
            /\ at'[v] = "cancelling" => batch'[v] \in Owners
        BY <1>2 DEF PInv, PromptTypeOK, Calls, Decisions, Send, Finish
    <3> QED BY <3>1, <3>2, <3>3, <3>4 DEF PromptTypeOK
  <2>2. Answers'
      BY <1>2, BrokerAssumption DEF Send, Finish, PInv, PromptTypeOK, Answers,
             TrustIsGiven, checkVars, tables, store, callerVars, history
  <2>3. Tables'
      BY <1>2, BrokerAssumption DEF Send, Finish, PInv, PromptTypeOK, Tables,
             Calls, Early, checkVars, tables, store, callerVars, history
  <2>4. Calls'
    <3>1. /\ UNCHANGED <<pc, requests, todo>>
          /\ \A v \in Callers : v # u => at'[v] = at[v] /\ job'[v] = job[v] /\ batch'[v] = batch[v]
          /\ at'[u] \in {"idle", "cancelling"}
          /\ batch'[u] = (IF todo[u] = {} THEN None ELSE batch[u])
          /\ cancelled' \subseteq cancelled \cup {job[u]}
        BY <1>2 DEF Send, Finish, tables, PInv, PromptTypeOK
    <3>2. job[u] \notin requests /\ pc[job[u]] \notin Early
        BY DEF Send, PInv, Calls
    <3> QED BY <3>1, <3>2 DEF PInv, Calls, Early
  <2>5. Pins'
      BY <1>2, BrokerAssumption DEF Send, Finish, PInv, PromptTypeOK, Pins,
             Active, Checks, KeyChecks, checkVars, tables, store, callerVars,
             history
  <2> QED BY <2>1, <2>2, <2>3, <2>4, <2>5 DEF PInv
<1> QED BY <1>1, <1>2

\* Retain keeps the invariant.
LEMMA RetainStep ==
    ASSUME PInv, NEW u \in Callers,
           Retain(u)
    PROVE  PInv'
<1>1. PromptTypeOK'
    BY DEF Retain, Finish, PInv, PromptTypeOK, Steps, Verdicts, Decisions,
           Trusting, Calls, checkVars, tables, store, callerVars, history
<1>2. Answers'
    BY DEF Retain, Finish, PInv, PromptTypeOK, Answers, TrustIsGiven, checkVars,
           tables, store, callerVars, history
<1>3. Tables'
    BY DEF Retain, Finish, PInv, PromptTypeOK, Tables, Calls, Early, checkVars,
           tables, store, callerVars, history
<1>4. Calls'
    BY DEF Retain, Finish, PInv, PromptTypeOK, Calls, Tables, Early, checkVars,
           tables, store, callerVars, history
<1>5. Pins'
    BY BrokerAssumption DEF Retain, Finish, PInv, PromptTypeOK, Pins, Active,
           Checks, KeyChecks, checkVars, tables, store, callerVars, history
<1> QED BY <1>1, <1>2, <1>3, <1>4, <1>5 DEF PInv

\* cancel_for_owner keeps the invariant.
LEMMA cancel_for_ownerStep ==
    ASSUME PInv, NEW u \in Callers, NEW o \in Owners, NEW b \in SUBSET Checks,
           cancel_for_owner(u, o, b)
    PROVE  PInv'
<1>1. PromptTypeOK'
    BY DEF cancel_for_owner, pending_for_owner, PInv, PromptTypeOK, Steps,
           Verdicts, Decisions, Trusting, checkVars, tables, store, callerVars,
           history
<1>2. Answers'
    BY DEF cancel_for_owner, pending_for_owner, PInv, PromptTypeOK, Answers,
           TrustIsGiven, checkVars, tables, store, callerVars, history
<1>3. Tables'
    BY DEF cancel_for_owner, pending_for_owner, PInv, PromptTypeOK, Tables, Calls,
           Early, checkVars, tables, store, callerVars, history
<1>4. Calls'
    BY BrokerAssumption DEF cancel_for_owner, pending_for_owner, PInv,
           PromptTypeOK, Calls, Tables, Early, checkVars, tables, store,
           callerVars, history
<1>5. Pins'
    BY BrokerAssumption DEF cancel_for_owner, pending_for_owner, PInv,
           PromptTypeOK, Pins, Active, Checks, KeyChecks, checkVars, tables,
           store, callerVars, history
<1> QED BY <1>1, <1>2, <1>3, <1>4, <1>5 DEF PInv

\* CancelHostKey keeps the invariant.
LEMMA CancelHostKeyStep ==
    ASSUME PInv, NEW u \in Callers, NEW c \in Checks,
           CancelHostKey(u, c)
    PROVE  PInv'
<1>1. CASE Owned(batch[u], c)
  <2>1. PromptTypeOK'
    <3>1. /\ pc' \in [Checks -> Steps] /\ key' \in [Checks -> Keys \cup {None}]
          /\ verdict' \in [Checks -> Verdicts]
          /\ hostKeys' \in [Owners -> [Algorithms -> Records \cup {None}]]
          /\ endpointKeys' \in [Endpoints -> Records \cup {None}]
          /\ requests' \subseteq Checks /\ pending' \subseteq Checks
          /\ given' \subseteq Checks
        BY <1>1 DEF PInv, PromptTypeOK, checkVars, tables, store, history,
               CancelHostKey, Owned, Deliver, pending_for_owner
    <3>2. slot' \in [Checks -> Decisions \cup {"none"}] /\ cancelled' \subseteq Checks
        BY <1>1 DEF PInv, PromptTypeOK, checkVars, history, CancelHostKey, Owned,
               Deliver, pending_for_owner
    <3>3. /\ at' \in [Callers -> {"idle", "taking", "sending", "retaining", "cancelling"}]
          /\ job' \in [Callers -> Checks \cup {None}]
          /\ choice' \in [Callers -> Decisions \cup {"none"}]
          /\ batch' \in [Callers -> Owners \cup {None}]
          /\ todo' \in [Callers -> SUBSET Checks]
        BY <1>1 DEF PInv, PromptTypeOK, Decisions, CancelHostKey, Owned, Deliver,
               pending_for_owner
    <3>4. \A v \in Callers :
            /\ at'[v] \in {"taking", "sending", "retaining"} => job'[v] \in Checks
            /\ at'[v] \in {"taking", "sending"} => choice'[v] \in Decisions
            /\ at'[v] = "cancelling" => batch'[v] \in Owners
        BY <1>1 DEF PInv, PromptTypeOK, Calls, Decisions, CancelHostKey, Owned,
               Deliver, pending_for_owner
    <3> QED BY <3>1, <3>2, <3>3, <3>4 DEF PromptTypeOK
  <2>2. Answers'
      BY <1>1, BrokerAssumption DEF CancelHostKey, Owned, Deliver,
             pending_for_owner, PInv, PromptTypeOK, Answers, TrustIsGiven,
             checkVars, tables, store, callerVars, history
  <2>3. Tables'
      BY <1>1, BrokerAssumption DEF CancelHostKey, Owned, Deliver,
             pending_for_owner, PInv, PromptTypeOK, Tables, Calls, Early,
             checkVars, tables, store, callerVars, history
  <2>4. Calls'
      BY <1>1, BrokerAssumption DEF CancelHostKey, Owned, Deliver,
             pending_for_owner, PInv, PromptTypeOK, Calls, Tables, Early,
             checkVars, tables, store, callerVars, history
  <2>5. Pins'
      BY <1>1, BrokerAssumption DEF CancelHostKey, Owned, Deliver,
             pending_for_owner, PInv, PromptTypeOK, Pins, Active, Checks,
             KeyChecks, checkVars, tables, store, callerVars, history
  <2> QED BY <2>1, <2>2, <2>3, <2>4, <2>5 DEF PInv
<1>2. CASE ~Owned(batch[u], c)
  <2>1. PromptTypeOK'
    <3>1. /\ pc' \in [Checks -> Steps] /\ key' \in [Checks -> Keys \cup {None}]
          /\ verdict' \in [Checks -> Verdicts]
          /\ hostKeys' \in [Owners -> [Algorithms -> Records \cup {None}]]
          /\ endpointKeys' \in [Endpoints -> Records \cup {None}]
          /\ requests' \subseteq Checks /\ pending' \subseteq Checks
          /\ given' \subseteq Checks
        BY <1>2 DEF PInv, PromptTypeOK, checkVars, tables, store, history,
               CancelHostKey, Owned, Finish, pending_for_owner
    <3>2. slot' \in [Checks -> Decisions \cup {"none"}] /\ cancelled' \subseteq Checks
        BY <1>2 DEF PInv, PromptTypeOK, checkVars, history, CancelHostKey, Owned,
               Finish, pending_for_owner
    <3>3. /\ at' \in [Callers -> {"idle", "taking", "sending", "retaining", "cancelling"}]
          /\ job' \in [Callers -> Checks \cup {None}]
          /\ choice' \in [Callers -> Decisions \cup {"none"}]
          /\ batch' \in [Callers -> Owners \cup {None}]
          /\ todo' \in [Callers -> SUBSET Checks]
        BY <1>2 DEF PInv, PromptTypeOK, Decisions, CancelHostKey, Owned, Finish,
               pending_for_owner
    <3>4. \A v \in Callers :
            /\ at'[v] \in {"taking", "sending", "retaining"} => job'[v] \in Checks
            /\ at'[v] \in {"taking", "sending"} => choice'[v] \in Decisions
            /\ at'[v] = "cancelling" => batch'[v] \in Owners
        BY <1>2 DEF PInv, PromptTypeOK, Calls, Decisions, CancelHostKey, Owned,
               Finish, pending_for_owner
    <3> QED BY <3>1, <3>2, <3>3, <3>4 DEF PromptTypeOK
  <2>2. Answers'
      BY <1>2, BrokerAssumption DEF CancelHostKey, Owned, Finish,
             pending_for_owner, PInv, PromptTypeOK, Answers, TrustIsGiven,
             checkVars, tables, store, callerVars, history
  <2>3. Tables'
      BY <1>2, BrokerAssumption DEF CancelHostKey, Owned, Finish,
             pending_for_owner, PInv, PromptTypeOK, Tables, Calls, Early,
             checkVars, tables, store, callerVars, history
  <2>4. Calls'
      BY <1>2, BrokerAssumption DEF CancelHostKey, Owned, Finish,
             pending_for_owner, PInv, PromptTypeOK, Calls, Tables, Early,
             checkVars, tables, store, callerVars, history
  <2>5. Pins'
      BY <1>2, BrokerAssumption DEF CancelHostKey, Owned, Finish,
             pending_for_owner, PInv, PromptTypeOK, Pins, Active, Checks,
             KeyChecks, checkVars, tables, store, callerVars, history
  <2> QED BY <2>1, <2>2, <2>3, <2>4, <2>5 DEF PInv
<1> QED BY <1>1, <1>2

\* CancelKeyboard keeps the invariant.
LEMMA CancelKeyboardStep ==
    ASSUME PInv, NEW u \in Callers, NEW c \in Checks,
           CancelKeyboard(u, c)
    PROVE  PInv'
<1>1. PromptTypeOK'
    BY DEF CancelKeyboard, PInv, PromptTypeOK, Steps, Verdicts, Decisions,
           Trusting, checkVars, tables, store, callerVars, history
<1>2. Answers'
    BY DEF CancelKeyboard, PInv, PromptTypeOK, Answers, TrustIsGiven, checkVars,
           tables, store, callerVars, history
<1>3. Tables'
    BY DEF CancelKeyboard, PInv, PromptTypeOK, Tables, Calls, Early, checkVars,
           tables, store, callerVars, history
<1>4. Calls'
    BY DEF CancelKeyboard, PInv, PromptTypeOK, Calls, Tables, Early, checkVars,
           tables, store, callerVars, history
<1>5. Pins'
    BY BrokerAssumption DEF CancelKeyboard, PInv, PromptTypeOK, Pins, Active,
           Checks, KeyChecks, checkVars, tables, store, callerVars, history
<1> QED BY <1>1, <1>2, <1>3, <1>4, <1>5 DEF PInv

-----------------------------------------------------------------------------
\* The invariant holds when the application starts.
LEMMA PromptInit == Init => PInv
    BY BrokerAssumption DEF Init, PInv, PromptTypeOK, Answers, TrustIsGiven,
           Tables, Calls, Pins, Early, Active, Checks, KeyChecks, Steps, Verdicts,
           Decisions, Records

\* Every step keeps it.
LEMMA PromptNext == PInv /\ [Next]_vars => PInv'
<1> SUFFICES ASSUME PInv, [Next]_vars PROVE PInv'
    OBVIOUS
<1>1. ASSUME NEW c \in Checks, NEW k \in Keys, check_server_key(c, k) PROVE PInv'
    BY <1>1, check_server_keyStep
<1>2. ASSUME NEW c \in Checks,
             prompt_for_connection(c) \/ CheckStep(c) \/ Abort(c)
      PROVE  PInv'
    BY <1>2, prompt_for_connectionStep, LookupFailsStep, LookupMatchesStep,
           LookupDiffersStep, LookupUnknownStep, PromoteStep, RegisterStep,
           AnnounceStep, ReceiveDecisionStep, ReceiveResponsesStep,
           SaveTrustedStep, ExpireStep, CloseReceiverStep, AbortStep,
           ForgetSenderStep, ForgetPromptStep DEF CheckStep
<1>3. ASSUME NEW u \in Callers, NEW o \in Owners,
             answer_host_key(u, o) \/ answer_keyboard_interactive(u, o)
      PROVE  PInv'
    BY <1>3, answer_for_ownerStep
       DEF answer_host_key, answer_keyboard_interactive, Checks, KeyChecks, Decisions, Trusting
<1>4. ASSUME NEW u \in Callers, NEW o \in Owners,
             cancel_for_owner(u, o, KeyChecks) \/ cancel_for_owner(u, o, KeyboardChecks)
      PROVE  PInv'
  <2>1. KeyChecks \in SUBSET Checks /\ KeyboardChecks \in SUBSET Checks
      BY DEF Checks, KeyChecks
  <2> QED BY <1>4, <2>1, cancel_for_ownerStep
<1>5. ASSUME NEW u \in Callers, CallerStep(u) PROVE PInv'
    BY <1>5, TakeSenderStep, SendStep, RetainStep, CancelHostKeyStep, CancelKeyboardStep
       DEF CallerStep
<1>6. CASE UNCHANGED vars
    BY <1>6 DEF PInv, PromptTypeOK, Answers, TrustIsGiven, Tables, Calls, Pins,
           Active, vars, checkVars, tables, store, callerVars, history
<1> QED BY <1>1, <1>2, <1>3, <1>4, <1>5, <1>6 DEF Next

(* The inductive invariant holds for ever.                                 *)
THEOREM PromptInvariant == Spec => []PInv
    BY PromptInit, PromptNext, PTL DEF Spec

(* The state of the brokers, of the store and of the command threads is    *)
(* always well formed.                                                     *)
THEOREM PromptTypeCorrect == Spec => []PromptTypeOK
<1>1. PInv => PromptTypeOK
    BY DEF PInv
<1> QED BY <1>1, PromptInvariant, PTL

(* verify_for_connection and prompt_for_connection return Ok for what was  *)
(* not on record only on the word of the owner, to this request.           *)
THEOREM TrustAlwaysGiven == Spec => []TrustIsGiven
<1>1. PInv => TrustIsGiven
    BY DEF PInv, Answers
<1> QED BY <1>1, PromptInvariant, PTL

(* What cancel_for_owner is done with cannot be answered any more and does *)
(* not wait for its deadline.                                              *)
THEOREM CancelAlwaysWakes == Spec => []CancelWakes
<1>1. PInv => CancelWakes
    BY DEF PInv, Calls, PromptTypeOK, CancelWakes, Awake, Dropped
<1> QED BY <1>1, PromptInvariant, PTL

(* Checks that have ended are in neither table of their broker.            *)
THEOREM NothingEverLeftBehind == Spec => []NothingLeftBehind
<1>1. PInv => NothingLeftBehind
    BY DEF PInv, Tables, NothingLeftBehind
<1> QED BY <1>1, PromptInvariant, PTL

-----------------------------------------------------------------------------
\* No key on record for a host gives way to another.
PinsKept ==
    \A o \in Owners, a \in Algorithms :
        hostKeys[o][a] # None =>
            hostKeys'[o][a] # None /\ hostKeys'[o][a].key = hostKeys[o][a].key

(* A save fills a place that is still empty.                               *)
LEMMA PersistFills ==
    ASSUME PInv, NEW c \in Checks, pc[c] \in {"promoting", "saving"}, Persist(c)
    PROVE  PinsKept
<1>1. CASE c \in HostChecks
  <2>1. OwnerOf[c] \in Owners /\ AlgorithmOf[key[c]] \in Algorithms
        /\ hostKeys[OwnerOf[c]][AlgorithmOf[key[c]]] = None
      BY <1>1, BrokerAssumption DEF PInv, Pins, Checks, KeyChecks
  <2>2. \A o \in Owners, a \in Algorithms :
            hostKeys[o][a] # None => hostKeys'[o][a] = hostKeys[o][a]
      BY <1>1, <2>1 DEF Persist, save_for_host, PInv, PromptTypeOK
  <2> QED BY <2>2 DEF PinsKept
<1>2. CASE c \notin HostChecks
    BY <1>2 DEF Persist, save, PinsKept
<1> QED BY <1>1, <1>2

\* Only the two saves write host keys.
LEMMA PinsStep == PInv /\ [Next]_vars => PinsKept
<1> SUFFICES ASSUME PInv, [Next]_vars PROVE PinsKept
    OBVIOUS
<1>1. CASE UNCHANGED hostKeys
    BY <1>1 DEF PinsKept
<1>2. ASSUME NEW c \in Checks, NEW k \in Keys, check_server_key(c, k) PROVE UNCHANGED hostKeys
    BY <1>2 DEF check_server_key, store
<1>3. ASSUME NEW c \in Checks, prompt_for_connection(c) \/ CheckStep(c) \/ Abort(c)
      PROVE  UNCHANGED hostKeys \/ PinsKept
    BY <1>3, PersistFills DEF prompt_for_connection, CheckStep, Abort,
           LookupFails, LookupMatches, LookupDiffers, LookupUnknown, Promote,
           Register, Announce, ReceiveDecision, ReceiveResponses, SaveTrusted,
           Expire, CloseReceiver, ForgetSender, ForgetPrompt, store
<1>4. ASSUME NEW u \in Callers, NEW o \in Owners,
             \/ answer_host_key(u, o) \/ answer_keyboard_interactive(u, o)
             \/ cancel_for_owner(u, o, KeyChecks) \/ cancel_for_owner(u, o, KeyboardChecks)
      PROVE  UNCHANGED hostKeys
    BY <1>4 DEF answer_host_key, answer_keyboard_interactive, answer_for_owner,
                cancel_for_owner, store
<1>5. ASSUME NEW u \in Callers, CallerStep(u) PROVE UNCHANGED hostKeys
    BY <1>5 DEF CallerStep, TakeSender, Send, Retain, CancelHostKey, CancelKeyboard, store
<1>6. CASE UNCHANGED vars
    BY <1>6, <1>1 DEF vars, store
<1> QED BY <1>1, <1>2, <1>3, <1>4, <1>5, <1>6 DEF Next

(* The key on record for a workstation is final: between the lookup of a   *)
(* check and the save it leads to no other check can have pinned a key.    *)
THEOREM PinnedKeysStay == Spec => PinnedKeyStays
<1>1. PInv /\ [Next]_vars => [PinsKept]_vars
    BY PinsStep
<1>2. Spec => [][PinsKept]_vars
    BY <1>1, PromptInvariant, PTL DEF Spec
<1> QED BY <1>2 DEF PinnedKeyStays, PinsKept
=============================================================================
