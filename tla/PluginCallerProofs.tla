------------------------- MODULE PluginCallerProofs -------------------------
(***************************************************************************)
(* Lemmas about the steps of PluginCaller, whatever plugin is called.      *)
(***************************************************************************)
EXTENDS PluginCaller, TLAPS

CallerTypes ==
  /\ phase \in [Namespaces -> {"live", "deleting", "gone"}]
  /\ plugin \in [Namespaces -> Identities]
  /\ serviceAccount \in [Namespaces -> Identities \cup {Nil, Unannotated}]
  /\ call \in [Workers -> CallRecord \cup {Nil}]
  /\ edits \in 0 .. MaxEdits
  /\ faults \in 0 .. MaxFaults

(* A step that moves or ends the call of a worker changes no other call.    *)
LEMMA CallMoves ==
  ASSUME CallerTypes, NEW w \in Workers, call[w] # Nil,
         NEW step \in {"annotate", "read", "write", "done", "revoke"}
  PROVE  /\ Goto(w, step) => /\ call' \in [Workers -> CallRecord \cup {Nil}]
                             /\ call'[w] = [call[w] EXCEPT !.step = step]
                             /\ \A v \in Workers \ {w} : call'[v] = call[v]
         /\ Hangup(w) => /\ call' \in [Workers -> CallRecord \cup {Nil}]
                         /\ call'[w] = Nil
                         /\ \A v \in Workers \ {w} : call'[v] = call[v]
<1>1. call[w] \in CallRecord
  BY DEF CallerTypes
<1>2. [call[w] EXCEPT !.step = step] \in CallRecord
  BY <1>1 DEF CallRecord
<1> QED BY <1>2 DEF CallerTypes, Goto, Hangup

(* A pass begins with a call of ApplyPlugin for its profile.                *)
LEMMA ApplyStarts ==
  ASSUME CallerTypes, NEW w \in Workers, NEW n \in Namespaces, ApplyPlugin(w, n)
  PROVE  /\ CallerTypes'
         /\ call'[w] \in CallRecord
         /\ call'[w].kind = "apply" /\ call'[w].step = "annotate"
         /\ call'[w].identity = plugin[n] /\ call'[w].namespace = n
         /\ \A v \in Workers \ {w} : call'[v] = call[v]
<1> DEFINE start == [step |-> "annotate", kind |-> "apply",
                     identity |-> plugin[n], namespace |-> n,
                     deleting |-> phase[n] = "deleting"]
<1>1. start \in CallRecord
  <2>1. (phase[n] = "deleting") \in BOOLEAN
    OBVIOUS
  <2>2. plugin[n] \in Identities
    BY DEF CallerTypes
  <2> QED BY <2>1, <2>2 DEF CallRecord
<1>2. call' = [call EXCEPT ![w] = start]
  BY DEF ApplyPlugin
<1>3. serviceAccount' \in [Namespaces -> Identities \cup {Nil, Unannotated}]
  BY DEF ApplyPlugin, CallerTypes
<1>4. start.kind = "apply" /\ start.step = "annotate"
      /\ start.identity = plugin[n] /\ start.namespace = n
  OBVIOUS
<1> HIDE DEF start
<1>5. call' \in [Workers -> CallRecord \cup {Nil}] /\ call'[w] = start
  BY <1>1, <1>2 DEF CallerTypes
<1>6. CallerTypes'
  BY <1>3, <1>5 DEF CallerTypes, ApplyPlugin
<1> QED BY <1>1, <1>2, <1>4, <1>5, <1>6 DEF CallerTypes

(* It goes on with a call of RevokePlugin for the same profile.             *)
LEMMA RevokeStarts ==
  ASSUME CallerTypes, NEW w \in Workers, NEW step \in {"annotate", "read"},
         RevokePlugin(w, step)
  PROVE  /\ CallerTypes'
         /\ call'[w] \in CallRecord
         /\ call'[w].kind = "revoke" /\ call'[w].step = step
         /\ call'[w].identity = call[w].identity
         /\ call'[w].namespace = call[w].namespace
         /\ \A v \in Workers \ {w} : call'[v] = call[v]
<1> DEFINE start == [call[w] EXCEPT !.kind = "revoke", !.step = step]
<1>1. call[w] \in CallRecord
  BY DEF CallerTypes, RevokePlugin
<1>2. /\ start \in CallRecord
      /\ start.kind = "revoke" /\ start.step = step
      /\ start.identity = call[w].identity
      /\ start.namespace = call[w].namespace
  BY <1>1 DEF CallRecord
<1>3. call' = [call EXCEPT ![w] = start]
  BY DEF RevokePlugin, CallerTypes
<1> HIDE DEF start
<1>4. call' \in [Workers -> CallRecord \cup {Nil}] /\ call'[w] = start
  BY <1>2, <1>3 DEF CallerTypes
<1>5. CallerTypes'
  BY <1>4 DEF CallerTypes, RevokePlugin
<1> QED BY <1>2, <1>3, <1>4, <1>5 DEF CallerTypes

(* Edits and faults stay within their bounds.                               *)
LEMMA BoundsKept ==
  ASSUME CallerTypes
  PROVE  /\ Edit => edits' \in 0 .. MaxEdits
         /\ faults < MaxFaults /\ faults' = faults + 1 => faults' \in 0 .. MaxFaults
BY CallerAssumption DEF CallerTypes, Edit

(* The steps of PluginCaller keep the types of its variables.               *)
LEMMA UserActionTypes ==
  ASSUME CallerTypes, UserAction
  PROVE  CallerTypes'
<1>1. edits' \in 0 .. MaxEdits
  BY BoundsKept DEF UserAction, DeleteProfile, ChangePlugin, DeleteServiceAccount
<1>2. CASE \E n \in Namespaces : DeleteProfile(n)
  BY <1>1, <1>2 DEF CallerTypes, DeleteProfile
<1>3. CASE \E n \in Namespaces, identity \in Identities : ChangePlugin(n, identity)
  BY <1>1, <1>3 DEF CallerTypes, ChangePlugin
<1>4. CASE \E n \in Namespaces : DeleteServiceAccount(n)
  BY <1>1, <1>4 DEF CallerTypes, DeleteServiceAccount
<1> QED BY <1>2, <1>3, <1>4 DEF UserAction

(***************************************************************************)
(* The calls as PluginGrants sees them.                                    *)
(***************************************************************************)
(* If only the call of w changes, so does only its pending call.            *)
LEMMA PendingMoves ==
  ASSUME NEW w \in Workers, \A v \in Workers \ {w} : call'[v] = call[v]
  PROVE  Pending' = [Pending EXCEPT ![w] = PendingOf(call'[w])]
<1>1. Pending = [v \in Workers |-> PendingOf(call[v])]
  BY DEF Pending
<1>2. Pending' = [v \in Workers |-> PendingOf(call'[v])]
  BY DEF Pending, PendingOf
<1> QED BY <1>1, <1>2

(* A pass is no idle worker, and in a call it has a pending call.           *)
LEMMA PendingTyped ==
  ASSUME NEW c \in CallRecord, c.step # "revoke"
  PROVE  /\ c # Nil
         /\ PendingOf(c) \in PendingCall
         /\ PendingOf(c) # Nil
         /\ PendingOf(c).kind = c.kind
         /\ PendingOf(c).identity = c.identity
         /\ PendingOf(c).namespace = c.namespace
         /\ PendingOf(c).done = (c.step = "done")
<1>1. c # Nil
  BY NilAssumption
<1>2. PendingOf(c) \in PendingCall
  BY <1>1 DEF PendingOf, PendingCall, CallRecord
<1> QED BY <1>1, <1>2, NilAssumption DEF PendingOf

(* Pending calls are equal if their fields are.                             *)
LEMMA PendingEqual ==
  ASSUME NEW a \in PendingCall, NEW b \in PendingCall,
         a.kind = b.kind, a.identity = b.identity,
         a.namespace = b.namespace, a.done = b.done
  PROVE  a = b
BY DEF PendingCall

(* A move of a call to another step before its end is no change.            *)
LEMMA PendingOnTheWay ==
  ASSUME CallerTypes, NEW w \in Workers, call[w] # Nil,
         call[w].step \notin {"done", "revoke"},
         NEW step \in {"read", "write"}, Goto(w, step)
  PROVE  Pending' = Pending
<1>1. /\ call'[w] = [call[w] EXCEPT !.step = step]
      /\ \A v \in Workers \ {w} : call'[v] = call[v]
  BY CallMoves
<1>2. /\ call[w] \in CallRecord /\ call'[w] \in CallRecord
      /\ call'[w].step # "revoke"
  BY <1>1 DEF CallerTypes, CallRecord
<1>3. /\ call'[w].kind = call[w].kind
      /\ call'[w].identity = call[w].identity
      /\ call'[w].namespace = call[w].namespace
      /\ (call'[w].step = "done") = (call[w].step = "done")
  BY <1>1, <1>2 DEF CallRecord
<1>4. PendingOf(call'[w]) = PendingOf(call[w])
  <2> DEFINE a == PendingOf(call'[w])
             b == PendingOf(call[w])
  <2>1. a \in PendingCall /\ b \in PendingCall
    BY <1>2, PendingTyped
  <2>2. /\ a.kind = b.kind /\ a.identity = b.identity
        /\ a.namespace = b.namespace /\ a.done = b.done
    BY <1>2, <1>3, PendingTyped
  <2> HIDE DEF a, b
  <2>3. a = b
    BY <2>1, <2>2, PendingEqual
  <2> QED BY <2>3 DEF a, b
<1>5. Pending' = [Pending EXCEPT ![w] = PendingOf(call[w])]
  BY <1>1, <1>4, PendingMoves
<1> QED BY <1>5 DEF Pending

(* A call comes to its end: only that it is done changes.                   *)
LEMMA PendingDone ==
  ASSUME CallerTypes, NEW w \in Workers, call[w] # Nil,
         call[w].step \notin {"done", "revoke"}
  PROVE  /\ Pending[w] # Nil /\ ~Pending[w].done
         /\ Goto(w, "done") => Pending' = [Pending EXCEPT ![w].done = TRUE]
<1>1. call[w] \in CallRecord
  BY DEF CallerTypes
<1>2. Pending[w] = PendingOf(call[w])
  BY DEF Pending
<1>3. Pending[w] \in PendingCall /\ Pending[w] # Nil /\ ~Pending[w].done
  BY <1>1, <1>2, PendingTyped
<1>4. ASSUME Goto(w, "done")
      PROVE  Pending' = [Pending EXCEPT ![w].done = TRUE]
  <2>1. /\ call'[w] = [call[w] EXCEPT !.step = "done"]
        /\ \A v \in Workers \ {w} : call'[v] = call[v]
    BY <1>4, CallMoves
  <2>2. call'[w] \in CallRecord /\ call'[w].step # "revoke"
    BY <1>1, <2>1 DEF CallRecord
  <2>3. /\ call'[w].kind = call[w].kind
        /\ call'[w].identity = call[w].identity
        /\ call'[w].namespace = call[w].namespace
        /\ (call'[w].step = "done") = TRUE
    BY <1>1, <2>1 DEF CallRecord
  <2> DEFINE a == PendingOf(call'[w])
             b == [Pending[w] EXCEPT !.done = TRUE]
  <2>4. a \in PendingCall
    BY <2>2, PendingTyped
  <2>5. /\ b \in PendingCall /\ b.done = TRUE
        /\ b.kind = Pending[w].kind /\ b.identity = Pending[w].identity
        /\ b.namespace = Pending[w].namespace
    BY <1>3 DEF PendingCall
  <2>6. /\ a.kind = call'[w].kind /\ a.identity = call'[w].identity
        /\ a.namespace = call'[w].namespace /\ a.done = (call'[w].step = "done")
    BY <2>2, PendingTyped
  <2>7. /\ Pending[w].kind = call[w].kind
        /\ Pending[w].identity = call[w].identity
        /\ Pending[w].namespace = call[w].namespace
    BY <1>1, <1>2, PendingTyped
  <2> HIDE DEF a, b
  <2>8. /\ a.kind = b.kind /\ a.identity = b.identity
        /\ a.namespace = b.namespace /\ a.done = b.done
    BY <2>3, <2>5, <2>6, <2>7
  <2>9. a = b
    BY <2>4, <2>5, <2>8, PendingEqual
  <2>10. Pending' = [Pending EXCEPT ![w] = a]
    BY <2>1, PendingMoves DEF a
  <2> QED BY <2>9, <2>10 DEF b
<1> QED BY <1>3, <1>4

(* A call ends, and with it the pass or not.                                *)
LEMMA PendingEnds ==
  ASSUME CallerTypes, NEW w \in Workers, call[w] # Nil, call[w].step # "revoke",
         Hangup(w) \/ Goto(w, "revoke")
  PROVE  Pending[w] # Nil /\ Pending' = [Pending EXCEPT ![w] = Nil]
<1>1. call[w] \in CallRecord
  BY DEF CallerTypes
<1>2. /\ call'[w] = Nil \/ call'[w].step = "revoke"
      /\ \A v \in Workers \ {w} : call'[v] = call[v]
  BY <1>1, CallMoves DEF CallRecord
<1>3. Pending[w] # Nil
  BY <1>1, PendingTyped DEF Pending
<1>4. PendingOf(call'[w]) = Nil
  BY <1>2 DEF PendingOf
<1> QED BY <1>2, <1>3, <1>4, PendingMoves

(* A pass ends between its calls.                                           *)
LEMMA PassEnds ==
  ASSUME CallerTypes, NEW w \in Workers, call[w] # Nil, call[w].step = "revoke",
         Hangup(w)
  PROVE  Pending' = Pending
<1>1. /\ call'[w] = Nil
      /\ \A v \in Workers \ {w} : call'[v] = call[v]
  BY CallMoves
<1>2. PendingOf(call'[w]) = PendingOf(call[w])
  BY <1>1 DEF PendingOf
<1>3. Pending' = [Pending EXCEPT ![w] = PendingOf(call[w])]
  BY <1>1, <1>2, PendingMoves
<1> QED BY <1>3 DEF Pending

(* A call starts.                                                           *)
LEMMA PendingStarts ==
  ASSUME CallerTypes, NEW w \in Workers,
         \/ \E n \in Namespaces : ApplyPlugin(w, n)
         \/ \E step \in {"annotate", "read"} : RevokePlugin(w, step)
  PROVE  /\ Pending[w] = Nil
         /\ \E c \in PendingCall :
              ~c.done /\ Pending' = [Pending EXCEPT ![w] = c]
<1>1. /\ call'[w] \in CallRecord
      /\ call'[w].step \in {"annotate", "read"}
      /\ \A v \in Workers \ {w} : call'[v] = call[v]
  BY ApplyStarts, RevokeStarts
<1>2. /\ PendingOf(call'[w]) \in PendingCall
      /\ ~PendingOf(call'[w]).done
  BY <1>1, PendingTyped
<1>3. Pending[w] = Nil
  BY DEF Pending, PendingOf, ApplyPlugin, RevokePlugin
<1> QED BY <1>1, <1>2, <1>3, PendingMoves
=============================================================================
