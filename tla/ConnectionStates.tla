-------------------------- MODULE ConnectionStates --------------------------
(***************************************************************************)
(* The lifecycle vocabulary shared by the session core and the reconnect   *)
(* supervisor: ConnectionState and its transition table                    *)
(* (kodework-domain), and the classes of ConnectErrorKind that the code    *)
(* tells apart (kodework-core, session.rs).                                *)
(***************************************************************************)

ConnectionState ==
    { "Disconnected", "ResolvingAddress", "Connecting", "VerifyingHostKey",
      "Authenticating", "Ready", "Reconnecting", "WaitingForCredential",
      "Failed" }

(* Mutant: a connect over a Ready session is not in the table. *)
LegalTransitionsMutant ==
    ({"Disconnected", "Failed", "WaitingForCredential", "Reconnecting"}
        \X {"ResolvingAddress"})
      \cup ({"ResolvingAddress"} \X {"Connecting", "Failed", "Disconnected"})
      \cup ({"Connecting"} \X {"Ready", "Failed", "Disconnected"})
      \cup ({"Ready"} \X {"Reconnecting", "Disconnected"})

(* The match arms of connection_transition, in the order of the source. *)
LegalTransitions ==
       ({"Disconnected", "Failed"} \X {"ResolvingAddress"})
  \cup ({"WaitingForCredential", "Ready"} \X {"ResolvingAddress"})
  \cup ({"Failed"} \X {"WaitingForCredential"})
  \cup ({"ResolvingAddress", "Reconnecting"}
            \X {"Connecting", "ResolvingAddress"})
  \cup ({"Connecting"} \X {"VerifyingHostKey", "Ready"})
  \cup ({"VerifyingHostKey"} \X {"Authenticating"})
  \cup ({"Authenticating", "Reconnecting", "WaitingForCredential"}
            \X {"Ready"})
  \cup ({"Ready"} \X {"Reconnecting", "Disconnected"})
  \cup ({"Authenticating", "WaitingForCredential"}
            \X {"Disconnected", "Failed"})
  \cup ({"Reconnecting"}
            \X {"WaitingForCredential", "Failed", "Disconnected"})
  \cup ({"ResolvingAddress", "Connecting", "VerifyingHostKey"}
            \X {"Disconnected", "Failed"})
  \cup ({"Failed"} \X {"Reconnecting", "Disconnected"})

connection_transition(from, to) == <<from, to>> \in LegalTransitions

(* ConnectErrorKind, up to what its readers distinguish:                   *)
(*   Network     Network | Timeout | Tailscale   (ConnectErrorKind         *)
(*               ::retryable)                                              *)
(*   Credential  CredentialRequired | Authentication                       *)
(*   Other       HostKey, InvalidConfiguration, Cancelled, Protocol, and   *)
(*               Internal when it comes from I/O                           *)
ConnectErrorKind == { "Network", "Credential", "Other" }

retryable(kind) == kind = "Network"
=============================================================================
