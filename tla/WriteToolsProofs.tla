--------------------------- MODULE WriteToolsProofs ---------------------------
(***************************************************************************)
(* Forgetting by query, for any number of calls under way, dry runs,       *)
(* queries and rows; and what remember and reflect write and report, for   *)
(* any calls, tables and number of sessions.                               *)
(*                                                                         *)
(* On forget the argument follows the one token there is.  A dry run's     *)
(* answer is held by at most one of: the confirmation slot, a call that    *)
(* consumed it, and a forget that reached the store.  It moves from the    *)
(* first to the second to the third and is never copied.                   *)
(*                                                                         *)
(* On remember the table only grows and closes rows, so what the gate saw  *)
(* of it stays true of what it saw: a row written later is past what the   *)
(* gate probed, and a row it probed and let through is apart from the claim*)
(* or among those it could not see.  The batch is written claim by claim,  *)
(* and each claim of it is in one place of the report.                     *)
(***************************************************************************)
EXTENDS ForgetConfirm, RememberGate, CommonProofs

Calls == [step : {"idle", "read", "expand", "arm", "check", "act"}, scope : Scope \cup {None},
          dry_run : BOOLEAN, shown : SUBSET Row, found : SUBSET Row, targets : SUBSET Row]

\* The calls that consumed a confirmation and have not ended.
Executing(cl) == {c \in Call : cl[c].step \in {"read", "expand", "check", "act"} /\ ~cl[c].dry_run}

\* What a preview is held for.
Offers(v, scope, shown) == v.scope = scope /\ v.shown = shown

(***************************************************************************)
(* f, g and s: the preview that each act, each executing call and the slot *)
(* holds.  No preview is held twice.                                       *)
(***************************************************************************)
Holds(f, g, s, ac, pv, cl, sl) ==
    /\ IsInjective(f) /\ IsInjective(g)
    /\ \A a \in ac, c \in Executing(cl) : f[a] # g[c]
    /\ \A a \in ac : f[a].scope = a.scope /\ a.rows \subseteq f[a].shown
    /\ \A c \in Executing(cl) : Offers(g[c], cl[c].scope, cl[c].shown)
    /\ sl # None => /\ s \in pv /\ Offers(s, sl.scope, sl.shown)
                    /\ \A a \in ac : f[a] # s
                    /\ \A c \in Executing(cl) : g[c] # s

Held(ac, pv, cl, sl) ==
    \E f \in [ac -> pv], g \in [Executing(cl) -> pv], s \in pv \cup {None} :
        Holds(f, g, s, ac, pv, cl, sl)

\* A call is of a scope; one that acts was not a dry run, and its rows are among those shown.
Checked(r) ==
    /\ r.step # "idle" => r.scope \in Scope
    /\ r.step \in {"check", "act"} => ~r.dry_run
    /\ r.step = "arm" => r.dry_run
    /\ r.step = "act" => r.targets \subseteq r.shown

\* The number of a dry run is its own.
Numbered(pv) == IsFiniteSet(pv) /\ \A v \in pv : v.nth \in Nat /\ v.nth <= Cardinality(pv)

ForgetInv ==
    /\ stored \subseteq Row
    /\ calls \in [Call -> Calls]
    /\ slot = None \/ slot \in [scope : Scope, shown : SUBSET Row]
    /\ \A c \in Call : Checked(calls[c])
    /\ Numbered(previews)
    /\ Held(acted, previews, calls, slot)

-----------------------------------------------------------------------------
(* Lemmas *)

\* A call that is not under way.
LEMMA IdleCall == NoCall \in Calls /\ NoCall.step = "idle" /\ Checked(NoCall)
BY DEF NoCall, Calls, Checked

\* A dry run with the next number is a new one.
LEMMA NextNumber ==
    ASSUME NEW pv, Numbered(pv), NEW v, v.nth = Cardinality(pv) + 1
    PROVE  v \notin pv /\ Numbered(pv \cup {v})
<1>1. Cardinality(pv) \in Nat
  BY FS_CardinalityType DEF Numbered
<1>2. v \notin pv
  BY <1>1 DEF Numbered
<1>3. IsFiniteSet(pv \cup {v}) /\ Cardinality(pv \cup {v}) = Cardinality(pv) + 1
  BY <1>2, FS_AddElement DEF Numbered
<1> QED  BY <1>1, <1>2, <1>3 DEF Numbered

\* A step that leaves acts, previews and the slot alone, and takes no call into
\* the executing ones, keeps the holding.
LEMMA HeldKept ==
    ASSUME NEW ac, NEW pv, NEW cl, NEW sl, NEW cl2, Held(ac, pv, cl, sl),
           Executing(cl2) \subseteq Executing(cl),
           \A c \in Executing(cl2) : cl2[c].scope = cl[c].scope /\ cl2[c].shown = cl[c].shown
    PROVE  Held(ac, pv, cl2, sl)
<1>1. PICK f \in [ac -> pv], g \in [Executing(cl) -> pv], s \in pv \cup {None} :
         Holds(f, g, s, ac, pv, cl, sl)
  BY DEF Held
<1> DEFINE g2 == [c \in Executing(cl2) |-> g[c]]
<1>2. g2 \in [Executing(cl2) -> pv] /\ \A c \in Executing(cl2) : g2[c] = g[c]
  OBVIOUS
<1>3. IsInjective(g2)
  BY <1>1 DEF Holds, IsInjective
<1> HIDE DEF g2
<1>4. Holds(f, g2, s, ac, pv, cl2, sl)
  BY <1>1, <1>2, <1>3 DEF Holds, Offers
<1> QED  BY <1>2, <1>4 DEF Held

-----------------------------------------------------------------------------
(* The steps *)

\* A dry run starts, and holds nothing.
LEMMA DryRunStep ==
    ASSUME ForgetInv, NEW c \in Call, DryRun(c)
    PROVE  ForgetInv'
<1>1. PICK scope \in Scope :
         calls' = [calls EXCEPT ![c] = [NoCall EXCEPT !.step = "read", !.scope = scope, !.dry_run = TRUE]]
  BY DEF DryRun
<1> DEFINE new == [NoCall EXCEPT !.step = "read", !.scope = scope, !.dry_run = TRUE]
<1>2. new \in Calls /\ new.step = "read" /\ new.dry_run = TRUE /\ new.scope \in Scope
  BY DEF NoCall, Calls
<1> HIDE DEF new
<1>3. calls' \in [Call -> Calls] /\ calls'[c] = new /\ \A d \in Call : d # c => calls'[d] = calls[d]
  BY <1>1, <1>2 DEF ForgetInv, new
<1>4. Executing(calls') \subseteq Executing(calls) /\ c \notin Executing(calls')
  BY <1>2, <1>3 DEF Executing
<1>5. Held(acted, previews, calls', slot)
  <2>1. \A d \in Executing(calls') : calls'[d] = calls[d]
    BY <1>3, <1>4 DEF Executing
  <2> QED  BY <1>4, <2>1, HeldKept DEF ForgetInv
<1>6. \A d \in Call : Checked(calls'[d])
  BY <1>2, <1>3 DEF ForgetInv, Checked
<1>7. UNCHANGED <<stored, slot, previews, acted>>
  BY DEF DryRun
<1> QED  BY <1>3, <1>5, <1>6, <1>7 DEF ForgetInv

\* The preview passes from the slot to the call.
LEMMA ConfirmStep ==
    ASSUME ForgetInv, NEW c \in Call, Confirm(c)
    PROVE  ForgetInv'
<1>1. PICK scope \in Scope :
         /\ Confirmed(scope)
         /\ calls' = [calls EXCEPT ![c] = [NoCall EXCEPT !.step = "read", !.scope = scope,
                                                       !.shown = slot.shown]]
  BY DEF Confirm
<1>2. /\ calls[c].step = "idle" /\ slot # None /\ slot.scope = scope /\ slot' = None
      /\ UNCHANGED <<stored, previews, acted>>
  BY <1>1 DEF Confirm, Confirmed
<1>s. slot \in [scope : Scope, shown : SUBSET Row]
  BY <1>2 DEF ForgetInv
<1> DEFINE new == [NoCall EXCEPT !.step = "read", !.scope = scope, !.shown = slot.shown]
<1>3. /\ new \in Calls /\ new.step = "read" /\ new.dry_run = FALSE
      /\ new.scope = slot.scope /\ new.shown = slot.shown /\ new.scope \in Scope
  BY <1>2, <1>s DEF NoCall, Calls
<1> HIDE DEF new
<1>4. calls' \in [Call -> Calls] /\ calls'[c] = new /\ \A d \in Call : d # c => calls'[d] = calls[d]
  BY <1>1, <1>3 DEF ForgetInv, new
<1>5. /\ Executing(calls') = Executing(calls) \cup {c} /\ c \notin Executing(calls)
      /\ \A d \in Executing(calls) : calls'[d] = calls[d] /\ d # c
  BY <1>2, <1>3, <1>4 DEF Executing
<1>6. PICK f \in [acted -> previews], g \in [Executing(calls) -> previews],
           s \in previews \cup {None} : Holds(f, g, s, acted, previews, calls, slot)
  BY DEF ForgetInv, Held
<1>7. /\ s \in previews /\ Offers(s, slot.scope, slot.shown)
      /\ \A a \in acted : f[a] # s
      /\ \A d \in Executing(calls) : g[d] # s
  BY <1>2, <1>6 DEF Holds
<1> DEFINE g2 == [d \in Executing(calls') |-> IF d = c THEN s ELSE g[d]]
<1>8. /\ g2 \in [Executing(calls') -> previews] /\ g2[c] = s
      /\ \A d \in Executing(calls) : g2[d] = g[d]
  BY <1>5, <1>7
<1> HIDE DEF g2
<1>9. IsInjective(g2)
  <2> SUFFICES ASSUME NEW x \in Executing(calls'), NEW y \in Executing(calls'), g2[x] = g2[y]
               PROVE  x = y
    BY <1>8 DEF IsInjective
  <2>1. CASE x = c /\ y = c
    BY <2>1
  <2>2. CASE x = c /\ y # c
    BY <1>5, <1>7, <1>8, <2>2
  <2>3. CASE x # c /\ y = c
    BY <1>5, <1>7, <1>8, <2>3
  <2>4. CASE x # c /\ y # c
    <3>1. x \in Executing(calls) /\ y \in Executing(calls) /\ g[x] = g[y]
      BY <1>5, <1>8, <2>4
    <3> QED  BY <1>6, <3>1 DEF Holds, IsInjective
  <2> QED  BY <2>1, <2>2, <2>3, <2>4
<1>10. Holds(f, g2, None, acted, previews, calls', None)
  <2>1. ASSUME NEW a \in acted, NEW d \in Executing(calls')
        PROVE  f[a] # g2[d]
    <3>1. CASE d = c
      BY <1>7, <1>8, <3>1
    <3>2. CASE d # c
      BY <1>5, <1>6, <1>8, <3>2 DEF Holds
    <3> QED  BY <3>1, <3>2
  <2>2. ASSUME NEW d \in Executing(calls')
        PROVE  Offers(g2[d], calls'[d].scope, calls'[d].shown)
    <3>1. CASE d = c
      BY <1>3, <1>4, <1>7, <1>8, <3>1
    <3>2. CASE d # c
      BY <1>5, <1>6, <1>8, <3>2 DEF Holds
    <3> QED  BY <3>1, <3>2
  <2>3. /\ IsInjective(f)
        /\ \A a \in acted : f[a].scope = a.scope /\ a.rows \subseteq f[a].shown
    BY <1>6 DEF Holds
  <2> QED  BY <1>9, <2>1, <2>2, <2>3 DEF Holds
<1>11. Held(acted, previews, calls', None)
  BY <1>8, <1>10 DEF Held
<1>12. \A d \in Call : Checked(calls'[d])
  BY <1>3, <1>4 DEF ForgetInv, Checked
<1> QED  BY <1>2, <1>4, <1>11, <1>12 DEF ForgetInv

\* A step of a call towards its answer holds what it held, or ends it.
LEMMA CallGoesOn ==
    ASSUME ForgetInv, NEW c \in Call, NEW new \in Calls, Checked(new),
           calls' = [calls EXCEPT ![c] = new], UNCHANGED <<stored, slot, previews, acted>>,
           calls[c].step \in {"read", "expand", "check"},
           \/ new.step = "idle"
           \/ /\ new.dry_run = calls[c].dry_run
              /\ new.scope = calls[c].scope /\ new.shown = calls[c].shown
    PROVE  ForgetInv'
<1>1. calls' \in [Call -> Calls] /\ calls'[c] = new /\ \A d \in Call : d # c => calls'[d] = calls[d]
  BY DEF ForgetInv
<1>2. ASSUME NEW d \in Executing(calls')
      PROVE  /\ d \in Executing(calls)
             /\ calls'[d].scope = calls[d].scope /\ calls'[d].shown = calls[d].shown
  <2>1. d \in Call /\ calls'[d].step \in {"read", "expand", "check", "act"} /\ ~calls'[d].dry_run
    BY <1>2 DEF Executing
  <2>2. CASE d = c
    BY <1>1, <2>1, <2>2 DEF Executing
  <2>3. CASE d # c
    BY <1>1, <2>1, <2>3 DEF Executing
  <2> QED  BY <2>2, <2>3
<1>3. Held(acted, previews, calls', slot)
  BY <1>2, HeldKept DEF ForgetInv
<1>4. \A d \in Call : Checked(calls'[d])
  BY <1>1 DEF ForgetInv
<1> QED  BY <1>1, <1>3, <1>4 DEF ForgetInv

\* The rows are read ...
LEMMA ReadTargetsStep ==
    ASSUME ForgetInv, NEW c \in Call, ReadTargets(c)
    PROVE  ForgetInv'
<1> DEFINE call == calls[c]
           found == Selected(call.scope.query)
           expand == [call EXCEPT !.step = "expand", !.found = found]
           answer == [call EXCEPT !.step = Read(call), !.targets = found]
<1>1. /\ call.step = "read" /\ UNCHANGED <<stored, slot, previews, acted>>
      /\ calls' = [calls EXCEPT ![c] = IF call.scope.purge THEN expand ELSE answer]
  BY DEF ReadTargets
<1>2. call \in Calls /\ Checked(call) /\ found \subseteq Row
  BY DEF ForgetInv, Selected
<1> HIDE DEF call, found
<1>3. /\ Read(call) \in {"arm", "check"}
      /\ Read(call) = "arm" => call.dry_run
      /\ Read(call) = "check" => ~call.dry_run
  BY DEF Read
<1>4. /\ expand \in Calls /\ Checked(expand) /\ expand.dry_run = call.dry_run
      /\ expand.scope = call.scope /\ expand.shown = call.shown
  BY <1>1, <1>2 DEF Calls, Checked
<1>5. /\ answer \in Calls /\ Checked(answer) /\ answer.dry_run = call.dry_run
      /\ answer.scope = call.scope /\ answer.shown = call.shown
  BY <1>1, <1>2, <1>3 DEF Calls, Checked
<1> HIDE DEF expand, answer
<1>6. CASE call.scope.purge
  <2>1. calls' = [calls EXCEPT ![c] = expand]
    BY <1>1, <1>6
  <2> QED  BY <1>1, <1>4, <2>1, CallGoesOn DEF call
<1>7. CASE ~call.scope.purge
  <2>1. calls' = [calls EXCEPT ![c] = answer]
    BY <1>1, <1>7
  <2> QED  BY <1>1, <1>5, <2>1, CallGoesOn DEF call
<1> QED  BY <1>6, <1>7

\* ... and their chains, which may refuse the call.
LEMMA ExpandChainStep ==
    ASSUME ForgetInv, NEW c \in Call, ExpandChain(c)
    PROVE  ForgetInv'
<1> DEFINE call == calls[c]
           answer == [call EXCEPT !.step = Read(call)]
           Expanded(r) == [call EXCEPT !.found = call.found \ {r}, !.targets = call.targets \cup Links(r)]
<1>1. /\ call.step = "expand" /\ UNCHANGED <<stored, slot, previews, acted>>
      /\ \/ calls' = [calls EXCEPT ![c] = answer]
         \/ \E r \in call.found : Links(r) \subseteq stored /\ calls' = [calls EXCEPT ![c] = Expanded(r)]
         \/ calls' = [calls EXCEPT ![c] = NoCall]
  BY DEF ExpandChain
<1>2. call \in Calls /\ Checked(call) /\ calls \in [Call -> Calls] /\ stored \subseteq Row
  BY DEF ForgetInv
<1>3. CASE calls' = [calls EXCEPT ![c] = answer]
  <2>1. /\ Read(call) \in {"arm", "check"}
        /\ Read(call) = "arm" => call.dry_run
        /\ Read(call) = "check" => ~call.dry_run
    BY DEF Read
  <2>2. /\ answer \in Calls /\ Checked(answer) /\ answer.dry_run = call.dry_run
        /\ answer.scope = call.scope /\ answer.shown = call.shown
    <3> HIDE DEF call
    <3> QED  BY <1>1, <1>2, <2>1 DEF Calls, Checked
  <2> QED  BY <1>1, <1>3, <2>2, CallGoesOn
<1>4. ASSUME NEW r \in call.found, Links(r) \subseteq stored, calls' = [calls EXCEPT ![c] = Expanded(r)]
      PROVE  ForgetInv'
  <2>1. /\ Expanded(r) \in Calls /\ Checked(Expanded(r)) /\ Expanded(r).dry_run = call.dry_run
        /\ Expanded(r).scope = call.scope /\ Expanded(r).shown = call.shown
    <3>1. Links(r) \subseteq Row
      BY <1>2, <1>4
    <3> HIDE DEF call
    <3> QED  BY <1>1, <1>2, <3>1 DEF Calls, Checked
  <2> QED  BY <1>1, <1>4, <2>1, CallGoesOn
<1>5. CASE calls' = [calls EXCEPT ![c] = NoCall]
  BY <1>1, <1>5, IdleCall, CallGoesOn
<1> QED  BY <1>1, <1>3, <1>4, <1>5

\* The slot holds a preview nobody has held.
LEMMA ArmStep ==
    ASSUME ForgetInv, NEW c \in Call, Arm(c)
    PROVE  ForgetInv'
<1> DEFINE v == [scope |-> calls[c].scope, shown |-> calls[c].targets,
                 nth |-> Cardinality(previews) + 1]
<1>1. /\ calls[c].step = "arm"
      /\ slot' = [scope |-> calls[c].scope, shown |-> calls[c].targets]
      /\ previews' = previews \cup {v} /\ calls' = [calls EXCEPT ![c] = NoCall]
      /\ UNCHANGED <<stored, acted>>
  BY DEF Arm
<1>t. /\ calls \in [Call -> Calls] /\ calls[c] \in Calls /\ calls[c].scope \in Scope \cup {None}
      /\ calls[c].targets \subseteq Row
  BY DEF ForgetInv, Calls
<1>p. calls[c].scope \in Scope
  BY <1>1 DEF ForgetInv, Checked
<1>2. v \notin previews /\ Numbered(previews')
  BY <1>1, NextNumber DEF ForgetInv
<1>3. /\ calls' \in [Call -> Calls] /\ calls'[c] = NoCall
      /\ \A d \in Call : d # c => calls'[d] = calls[d]
  BY <1>t, <1>1, IdleCall
<1>4. Executing(calls') = Executing(calls) /\ \A d \in Executing(calls) : calls'[d] = calls[d]
  BY <1>1, <1>3, IdleCall DEF Executing
<1>5. PICK f \in [acted -> previews], g \in [Executing(calls) -> previews],
           s \in previews \cup {None} : Holds(f, g, s, acted, previews, calls, slot)
  BY DEF ForgetInv, Held
<1>6. Offers(v, slot'.scope, slot'.shown)
  BY <1>1 DEF Offers
<1> HIDE DEF v
<1>7. /\ f \in [acted -> previews'] /\ g \in [Executing(calls') -> previews'] /\ v \in previews'
      /\ \A a \in acted : f[a] # v
      /\ \A d \in Executing(calls) : g[d] # v
  BY <1>1, <1>2, <1>4, <1>5
<1>8. Holds(f, g, v, acted, previews', calls', slot')
  BY <1>4, <1>5, <1>6, <1>7 DEF Holds
<1>9. Held(acted, previews', calls', slot')
  BY <1>7, <1>8 DEF Held
<1>10. \A d \in Call : Checked(calls'[d])
  BY <1>3, IdleCall DEF ForgetInv
<1>11. slot' \in [scope : Scope, shown : SUBSET Row]
  BY <1>t, <1>p, <1>1
<1> QED  BY <1>1, <1>2, <1>3, <1>9, <1>10, <1>11 DEF ForgetInv

\* The call goes on to act when all its rows were shown, or ends.
LEMMA CheckStep ==
    ASSUME ForgetInv, NEW c \in Call, Check(c)
    PROVE  ForgetInv'
<1> DEFINE new == IF calls[c].targets \subseteq calls[c].shown
                  THEN [calls[c] EXCEPT !.step = "act"] ELSE NoCall
<1>1. /\ calls[c].step = "check" /\ UNCHANGED <<stored, slot, previews, acted>>
      /\ calls' = [calls EXCEPT ![c] = new]
  BY DEF Check
<1>t. calls \in [Call -> Calls] /\ calls[c] \in Calls /\ Checked(calls[c])
  BY DEF ForgetInv
<1>2. \/ /\ new \in Calls /\ new.step = "act" /\ new.dry_run = calls[c].dry_run
         /\ new.scope = calls[c].scope /\ new.shown = calls[c].shown
         /\ new.targets = calls[c].targets /\ calls[c].targets \subseteq calls[c].shown
      \/ new = NoCall
  BY <1>t DEF Calls
<1> HIDE DEF new
<1>3. new \in Calls /\ Checked(new)
  BY <1>t, <1>1, <1>2, IdleCall DEF Checked
<1> QED  BY <1>1, <1>2, <1>3, IdleCall, CallGoesOn

\* The preview passes from the call to its act.
LEMMA ActStep ==
    ASSUME ForgetInv, NEW c \in Call, Act(c)
    PROVE  ForgetInv'
<1> DEFINE a == [scope |-> calls[c].scope, rows |-> calls[c].targets, nth |-> Cardinality(acted) + 1]
<1>1. /\ calls[c].step = "act" /\ UNCHANGED <<slot, previews>>
      /\ acted' = acted \cup {a} /\ calls' = [calls EXCEPT ![c] = NoCall]
      /\ stored' \subseteq stored
  BY DEF Act, Purge
<1>t. calls \in [Call -> Calls] /\ calls[c] \in Calls /\ Checked(calls[c])
  BY DEF ForgetInv
<1>2. a.scope = calls[c].scope /\ a.rows = calls[c].targets
  OBVIOUS
<1> HIDE DEF a
<1>3. /\ calls' \in [Call -> Calls] /\ calls'[c] = NoCall
      /\ \A d \in Call : d # c => calls'[d] = calls[d]
  BY <1>t, <1>1, IdleCall
<1>4. c \in Executing(calls) /\ calls[c].targets \subseteq calls[c].shown
  BY <1>t, <1>1 DEF Checked, Executing
<1>5. /\ Executing(calls') = Executing(calls) \ {c}
      /\ \A d \in Executing(calls') : calls'[d] = calls[d]
  BY <1>3, IdleCall DEF Executing
<1>6. PICK f \in [acted -> previews], g \in [Executing(calls) -> previews],
           s \in previews \cup {None} : Holds(f, g, s, acted, previews, calls, slot)
  BY DEF ForgetInv, Held
<1> DEFINE f2 == [x \in acted' |-> IF x \in acted THEN f[x] ELSE g[c]]
           g2 == [d \in Executing(calls') |-> g[d]]
<1>7. /\ f2 \in [acted' -> previews] /\ g2 \in [Executing(calls') -> previews]
      /\ \A x \in acted : f2[x] = f[x]
      /\ \A x \in acted' : x \in acted \/ (x = a /\ f2[x] = g[c])
      /\ \A d \in Executing(calls') : g2[d] = g[d] /\ d \in Executing(calls) /\ d # c
  BY <1>1, <1>4, <1>5
<1> HIDE DEF f2, g2
<1>8. /\ \A x, y \in Executing(calls) : g[x] = g[y] => x = y
      /\ \A x, y \in acted : f[x] = f[y] => x = y
      /\ \A x \in acted, d \in Executing(calls) : f[x] # g[d]
      /\ \A x \in acted : f[x].scope = x.scope /\ x.rows \subseteq f[x].shown
      /\ \A d \in Executing(calls) : Offers(g[d], calls[d].scope, calls[d].shown)
  BY <1>6 DEF Holds, IsInjective
<1>9. IsInjective(f2)
  <2> SUFFICES ASSUME NEW x \in acted', NEW y \in acted', f2[x] = f2[y]
               PROVE  x = y
    BY <1>7 DEF IsInjective
  <2> QED  BY <1>4, <1>7, <1>8
<1>10. IsInjective(g2)
  BY <1>7, <1>8 DEF IsInjective
<1>11. ASSUME NEW x \in acted'
       PROVE  /\ f2[x].scope = x.scope /\ x.rows \subseteq f2[x].shown
              /\ \A d \in Executing(calls') : f2[x] # g2[d]
              /\ slot # None => f2[x] # s
  <2>1. CASE x \in acted
    BY <1>6, <1>7, <1>8, <2>1 DEF Holds
  <2>2. CASE x = a /\ f2[x] = g[c]
    <3>1. g[c].scope = calls[c].scope /\ g[c].shown = calls[c].shown
      BY <1>4, <1>8 DEF Offers
    <3>2. \A d \in Executing(calls') : g[c] # g2[d]
      BY <1>4, <1>7, <1>8
    <3>3. slot # None => g[c] # s
      BY <1>4, <1>6 DEF Holds
    <3> QED  BY <1>2, <1>4, <2>2, <3>1, <3>2, <3>3
  <2> QED  BY <1>7, <2>1, <2>2
<1>12. Holds(f2, g2, s, acted', previews, calls', slot)
  <2>1. \A d \in Executing(calls') : Offers(g2[d], calls'[d].scope, calls'[d].shown)
    BY <1>5, <1>7, <1>8
  <2>2. slot # None => /\ s \in previews /\ Offers(s, slot.scope, slot.shown)
                       /\ \A d \in Executing(calls') : g2[d] # s
    BY <1>6, <1>7 DEF Holds
  <2> QED  BY <1>9, <1>10, <1>11, <2>1, <2>2 DEF Holds
<1>13. Held(acted', previews, calls', slot)
  BY <1>7, <1>12 DEF Held
<1>14. \A d \in Call : Checked(calls'[d])
  BY <1>3, IdleCall DEF ForgetInv
<1> QED  BY <1>1, <1>3, <1>13, <1>14 DEF ForgetInv

-----------------------------------------------------------------------------
(* The theorem *)

\* At first nothing was shown and nothing was done.
LEMMA ForgetStart == ForgetInit => ForgetInv
<1> SUFFICES ASSUME ForgetInit
             PROVE  ForgetInv
  OBVIOUS
<1>1. calls \in [Call -> Calls] /\ \A c \in Call : Checked(calls[c])
  BY IdleCall DEF ForgetInit
<1>2. Executing(calls) = {}
  BY IdleCall DEF ForgetInit, Executing
<1>3. Numbered({})
  BY FS_EmptySet DEF Numbered
<1>4. Held({}, {}, calls, None)
  <2> DEFINE e == [x \in {} |-> None]
  <2>1. e \in [{} -> {}] /\ IsInjective(e)
    BY DEF IsInjective
  <2> HIDE DEF e
  <2>2. Holds(e, e, None, {}, {}, calls, None)
    BY <1>2, <2>1 DEF Holds
  <2> QED  BY <1>2, <2>1, <2>2 DEF Held
<1> QED  BY <1>1, <1>3, <1>4 DEF ForgetInit, ForgetInv

\* The invariant is inductive.
LEMMA ForgetStep == ForgetInv /\ [ForgetNext]_forgetVars => ForgetInv'
<1> SUFFICES ASSUME ForgetInv, [ForgetNext]_forgetVars
             PROVE  ForgetInv'
  OBVIOUS
<1>1. CASE UNCHANGED forgetVars
  BY <1>1 DEF forgetVars, ForgetInv
<1>2. ASSUME NEW c \in Call,
             DryRun(c) \/ Confirm(c) \/ ReadTargets(c) \/ ExpandChain(c) \/ Arm(c) \/ Check(c) \/ Act(c)
      PROVE  ForgetInv'
  BY <1>2, DryRunStep, ConfirmStep, ReadTargetsStep, ExpandChainStep, ArmStep, CheckStep, ActStep
<1>3. CASE OtherWrites
  BY <1>3 DEF OtherWrites, ForgetInv
<1>4. CASE OtherCloses
  BY <1>4 DEF OtherCloses, ForgetInv
<1>5. CASE OtherPurges
  BY <1>5 DEF OtherPurges, Purge, ForgetInv
<1> QED  BY <1>1, <1>2, <1>3, <1>4, <1>5 DEF ForgetNext

(***************************************************************************)
(* Every forget by query was shown by a dry run of its own, of exactly its *)
(* scope (forget.rs run, Pending), for any number of concurrent calls, dry *)
(* runs and writes of other sessions: a confirmation is consumed before    *)
(* the store is read, so no two calls share one.                           *)
(***************************************************************************)
THEOREM ActsWereShown == ForgetSpec => []EachActWasShown
<1>1. ForgetInv => EachActWasShown
  BY DEF ForgetInv, Held, Holds, EachActWasShown
<1> QED  BY ForgetStart, ForgetStep, <1>1, PTL DEF ForgetSpec

-----------------------------------------------------------------------------
(* Remember and reflect *)


Stages == {"idle", "embed", "probe", "insert", "done"}
CallSpaces == {UserSpace} \cup {send.space : send \in Sends} \cup {insight.space : insight \in Insights}
Notes == [id : Nat, of : Nat]
GateCalls ==
    [step : Stages, reflect : BOOLEAN, space : CallSpaces, memories : Seq(Claims),
     episode : BOOLEAN, cites : SUBSET Nat, summary : BOOLEAN, probed : Nat,
     unseen : Seq(SUBSET Nat), duplicates : SUBSET Notes, related : SUBSET Notes,
     created : SUBSET Notes]

\* A table of rows.
Table(t) == \E spaces : t \in Seq(RowsOf(spaces))

\* What is written of a row stays, and a closed row stays closed.
Later(t, u) ==
    /\ Len(t) <= Len(u)
    /\ \A id \in DOMAIN t :
         /\ u[id].content = t[id].content /\ u[id].space = t[id].space
         /\ u[id].embedded = t[id].embedded /\ u[id].probed = t[id].probed
         /\ u[id].gated = t[id].gated /\ u[id].unseen = t[id].unseen
         /\ u[id].live => t[id].live

\* The row at id is live, embedded and says what x says.
SaysSame(t, id, space, x) ==
    t[id].live /\ t[id].space = space /\ t[id].embedded /\ Distance(t[id].content, x) <= Near

Excused(t) ==
    \A b \in DOMAIN t : \A a \in 1..(b - 1) :
        SaysSame(t, a, t[b].space, t[b].content) /\ t[b].live /\ t[b].embedded /\ t[b].gated
        => t[b].probed < a \/ a \in t[b].unseen

\* What is left of claim i of c after the gate was not to be seen.
Passed(c, t, i) ==
    vectors /\ c.memories[i].supersedes = {} =>
        \A a \in 1..c.probed :
            SaysSame(t, a, c.space, c.memories[i].content) => a \in c.unseen[i]

Gap(t, c, note) == Distance(t[note.id].content, c.memories[note.of].content)
Placed(c, t, notes) == \A note \in notes : note.id \in DOMAIN t /\ note.of \in DOMAIN c.memories

ToInsert(c, t) ==
    /\ c.probed <= Len(t) /\ c.created = {} /\ DOMAIN c.unseen = DOMAIN c.memories
    /\ Placed(c, t, c.duplicates) /\ Placed(c, t, c.related)
    /\ \A note \in c.duplicates : Gap(t, c, note) <= Near
    /\ \A note \in c.related : Gap(t, c, note) > Near
    /\ \A i \in Kept(c) : Passed(c, t, i)
    /\ c.reflect => c.duplicates = {}

Answered(c, t) ==
    /\ Of(c.created) \cup Of(c.duplicates) = DOMAIN c.memories
    /\ Of(c.created) \cap Of(c.duplicates) = {}
    /\ Placed(c, t, c.created) /\ Placed(c, t, c.duplicates) /\ Placed(c, t, c.related)
    /\ \A note \in c.created : Gap(t, c, note) = 0
    /\ \A note \in c.duplicates : Gap(t, c, note) <= Near
    /\ \A note \in c.related : Gap(t, c, note) > Near /\ note.of \notin Of(c.duplicates)

\* What a batch has come to when the claims of done are written.
Outs == [id : Nat, created : BOOLEAN]
Accounted(acc, c, done) ==
    /\ Table(acc.rows) /\ Excused(acc.rows) /\ Later(rows, acc.rows)
    /\ acc.kept \in Seq(Nat) /\ acc.out \in Seq(Outs) /\ Len(acc.kept) = Len(acc.out)
    /\ {acc.kept[k] : k \in DOMAIN acc.out} = done
    /\ \A k, l \in DOMAIN acc.out : acc.kept[k] = acc.kept[l] => k = l
    /\ \A k \in DOMAIN acc.out :
         /\ acc.out[k].id \in DOMAIN acc.rows
         /\ acc.rows[acc.out[k].id].content = c.memories[acc.kept[k]].content

CallInv(c, t) ==
    /\ c.step \in {"embed", "probe"} => c.duplicates = {} /\ c.related = {} /\ c.created = {}
    /\ c.step # "idle" /\ c.reflect => Len(c.memories) = 1
    /\ c.step = "insert" => ToInsert(c, t)
    /\ c.step = "done" => Answered(c, t)

GateInv ==
    /\ Table(rows) /\ Excused(rows) /\ vectors \in BOOLEAN
    /\ remembering \in [Session -> GateCalls]
    /\ \A s \in Session : CallInv(remembering[s], rows)

-----------------------------------------------------------------------------
(* Tables *)

\* A table is a sequence.
LEMMA TableIs ==
    ASSUME NEW t, Table(t)
    PROVE  Len(t) \in Nat /\ DOMAIN t = 1..Len(t)
BY LenProperties DEF Table

\* A function on 1..n is a table, if it maps to rows.
LEMMA MadeTable ==
    ASSUME NEW n \in Nat, NEW spaces, NEW t, t = [id \in 1..n |-> t[id]],
           \A id \in 1..n : t[id] \in RowsOf(spaces)
    PROVE  Table(t) /\ Len(t) = n /\ DOMAIN t = 1..n
<1> DEFINE S == RowsOf(spaces)
<1>1. t \in [1..n -> S]
  OBVIOUS
<1>2. t \in Seq(S) /\ Len(t) = n /\ DOMAIN t = 1..n
  <2> HIDE DEF S
  <2> QED  BY <1>1
<1> QED  BY <1>2 DEF Table

\* Later is a preorder.
LEMMA LaterSame == ASSUME NEW t, Table(t) PROVE Later(t, t)
BY TableIs DEF Later

\* ... in either sense.
LEMMA LaterOn ==
    ASSUME NEW t, NEW u, NEW w, Table(t), Table(u), Table(w), Later(t, u), Later(u, w)
    PROVE  Later(t, w)
<1>1. /\ Len(t) \in Nat /\ Len(u) \in Nat /\ Len(w) \in Nat
      /\ DOMAIN t = 1..Len(t) /\ DOMAIN u = 1..Len(u)
  BY TableIs
<1>2. Len(t) <= Len(u) /\ Len(u) <= Len(w)
  BY DEF Later
<1>3. DOMAIN t \subseteq DOMAIN u
  BY <1>1, <1>2
<1>4. Len(t) <= Len(w)
  BY <1>1, <1>2
<1> QED  BY <1>3, <1>4 DEF Later

\* What says the same later said it before.
LEMMA SaidBefore ==
    ASSUME NEW t, NEW u, Later(t, u), NEW id \in DOMAIN t, NEW space, NEW x, SaysSame(u, id, space, x)
    PROVE  SaysSame(t, id, space, x)
BY DEF Later, SaysSame

\* What a call waits to write, and what it answered, holds later.
LEMMA CallKept ==
    ASSUME NEW t, NEW u, Table(t), Table(u), Later(t, u), vectors' = vectors,
           NEW c \in GateCalls, CallInv(c, t)
    PROVE  CallInv(c, u)
<1>1. /\ Len(t) \in Nat /\ Len(u) \in Nat /\ DOMAIN t = 1..Len(t) /\ DOMAIN u = 1..Len(u)
      /\ Len(t) <= Len(u) /\ DOMAIN t \subseteq DOMAIN u
  BY TableIs DEF Later
<1>2. \A notes : Placed(c, t, notes) => Placed(c, u, notes) /\ \A note \in notes : Gap(u, c, note) = Gap(t, c, note)
  BY <1>1 DEF Placed, Gap, Later
<1>3. ASSUME ToInsert(c, t) PROVE ToInsert(c, u)
  <2>1. c.probed \in Nat /\ c.probed <= Len(t)
    BY <1>3 DEF ToInsert, GateCalls
  <2>2. \A i \in Kept(c) : Passed(c, u, i)
    <3>1. \A i \in Kept(c) : Passed(c, t, i)
      BY <1>3 DEF ToInsert
    <3>2. \A a \in 1..c.probed : a \in DOMAIN t
      BY <1>1, <2>1
    <3>3. \A a \in 1..c.probed : \A space, x : SaysSame(u, a, space, x) => SaysSame(t, a, space, x)
      BY <3>2, SaidBefore
    <3> QED  BY <3>1, <3>3 DEF Passed
  <2>3. c.probed <= Len(u)
    BY <1>1, <2>1
  <2> QED  BY <1>2, <1>3, <2>2, <2>3 DEF ToInsert
<1>4. Answered(c, t) => Answered(c, u)
  BY <1>2 DEF Answered
<1> QED  BY <1>3, <1>4 DEF CallInv

\* A session goes on, whatever it writes.
LEMMA SessionMoves ==
    ASSUME GateInv, NEW s \in Session, NEW q \in GateCalls, CallInv(q, rows'),
           remembering' = [remembering EXCEPT ![s] = q], vectors' = vectors,
           Table(rows'), Excused(rows'), Later(rows, rows')
    PROVE  GateInv'
<1>1. remembering' \in [Session -> GateCalls] /\ remembering'[s] = q
      /\ \A o \in Session \ {s} : remembering'[o] = remembering[o]
  BY DEF GateInv
<1>2. \A o \in Session \ {s} : CallInv(remembering[o], rows')
  BY CallKept DEF GateInv
<1>3. \A o \in Session : CallInv(remembering'[o], rows')
  BY <1>1, <1>2
<1>4. \A o \in Session : CallInv(remembering'[o], rows') => CallInv(remembering[o], rows)'
  BY DEF CallInv, ToInsert, Passed
<1> QED  BY <1>1, <1>3, <1>4 DEF GateInv

-----------------------------------------------------------------------------
(* The fields of a call *)

\* A session between calls.
LEMMA Resting == AtRest \in GateCalls /\ \A t : CallInv(AtRest, t)
<1>1. AtRest \in GateCalls
  <2>1. "idle" \in Stages /\ UserSpace \in CallSpaces /\ << >> \in Seq(Claims) /\ << >> \in Seq(SUBSET Nat)
    BY EmptySeq DEF Stages, CallSpaces
  <2> QED  BY <2>1 DEF AtRest, GateCalls
<1> QED  BY <1>1 DEF AtRest, CallInv

\* A call at another step.
LEMMA CallStepped ==
    ASSUME NEW c \in GateCalls, NEW st \in Stages
    PROVE  LET q == [c EXCEPT !.step = st]
           IN  /\ q \in GateCalls /\ q.step = st /\ q.reflect = c.reflect /\ q.space = c.space
               /\ q.memories = c.memories /\ q.probed = c.probed /\ q.unseen = c.unseen
               /\ q.duplicates = c.duplicates /\ q.related = c.related /\ q.created = c.created
BY DEF GateCalls

-----------------------------------------------------------------------------
(* The steps before the transaction *)

\* A step of a session that leaves the table alone.
LEMMA SessionWaits ==
    ASSUME GateInv, NEW s \in Session, NEW q \in GateCalls, CallInv(q, rows),
           remembering' = [remembering EXCEPT ![s] = q], UNCHANGED <<rows, vectors>>
    PROVE  GateInv'
<1>1. Table(rows) /\ Excused(rows) /\ Later(rows, rows)
  BY LaterSame DEF GateInv
<1> QED  BY <1>1, SessionMoves

\* A call is taken, embedded, given up or answered.
LEMMA CallOpens ==
    ASSUME GateInv, NEW s \in Session,
           Send(s) \/ Reflect(s) \/ Embed(s) \/ EmbedFails(s) \/ InsertFails(s) \/ RememberDone(s)
    PROVE  GateInv'
<1> DEFINE c == remembering[s]
<1>1. c \in GateCalls /\ CallInv(c, rows)
  BY DEF GateInv
<1>2. CASE EmbedFails(s) \/ InsertFails(s) \/ RememberDone(s)
  BY <1>2, Resting, SessionWaits DEF EmbedFails, InsertFails, RememberDone, Proceed
<1>3. CASE Embed(s)
  <2> DEFINE q == [c EXCEPT !.step = "probe"]
  <2>1. remembering' = [remembering EXCEPT ![s] = q] /\ UNCHANGED <<rows, vectors>> /\ c.step = "embed"
    BY <1>3 DEF Embed, Proceed
  <2>2. "probe" \in Stages
    BY DEF Stages
  <2>3. /\ q \in GateCalls /\ q.step = "probe" /\ q.reflect = c.reflect /\ q.memories = c.memories
        /\ q.duplicates = c.duplicates /\ q.related = c.related /\ q.created = c.created
    BY <1>1, <2>2, CallStepped
  <2> HIDE DEF q
  <2>4. CallInv(q, rows)
    BY <1>1, <2>1, <2>3 DEF CallInv
  <2> QED  BY <2>1, <2>3, <2>4, SessionWaits
<1>4. CASE Send(s)
  <2>1. PICK send \in Sends :
          remembering' = [remembering EXCEPT ![s] =
            IF Valid(send) THEN [AtRest EXCEPT !.step = "embed", !.space = send.space,
                                     !.memories = send.memories, !.episode = send.episode]
            ELSE AtRest]
    BY <1>4 DEF Send
  <2> DEFINE q == [AtRest EXCEPT !.step = "embed", !.space = send.space,
                                 !.memories = send.memories, !.episode = send.episode]
  <2>2. /\ q \in GateCalls /\ q.step = "embed" /\ ~q.reflect
        /\ q.duplicates = {} /\ q.related = {} /\ q.created = {}
    <3>1. "embed" \in Stages /\ send.space \in CallSpaces /\ send.memories \in Seq(Claims) /\ send.episode \in BOOLEAN
      BY GateAssumption DEF Stages, CallSpaces
    <3>2. AtRest \in GateCalls
      BY Resting
    <3>3. q \in GateCalls
      BY <3>1, <3>2 DEF GateCalls
    <3> QED  BY <3>3 DEF AtRest
  <2>3. remembering' = [remembering EXCEPT ![s] = q] \/ remembering' = [remembering EXCEPT ![s] = AtRest]
    BY <2>1
  <2> HIDE DEF q
  <2>4. CallInv(q, rows)
    BY <2>2 DEF CallInv
  <2>5. UNCHANGED <<rows, vectors>>
    BY <1>4 DEF Send
  <2> QED  BY <2>2, <2>3, <2>4, <2>5, Resting, SessionWaits
<1>5. CASE Reflect(s)
  <2>1. PICK insight \in Insights :
          remembering' = [remembering EXCEPT ![s] =
             IF insight.memory.valid /\ Resolved(insight.cites, insight.space)
             THEN [AtRest EXCEPT !.step = "embed", !.reflect = TRUE, !.space = insight.space,
                                 !.memories = <<insight.memory>>, !.cites = insight.cites,
                                 !.summary = insight.summary]
             ELSE AtRest]
    BY <1>5 DEF Reflect
  <2> DEFINE one == <<insight.memory>>
             q == [AtRest EXCEPT !.step = "embed", !.reflect = TRUE, !.space = insight.space,
                                 !.memories = one, !.cites = insight.cites,
                                 !.summary = insight.summary]
  <2>2. one \in Seq(Claims) /\ Len(one) = 1
    BY GateAssumption
  <2>3. remembering' = [remembering EXCEPT ![s] = q] \/ remembering' = [remembering EXCEPT ![s] = AtRest]
    BY <2>1
  <2> HIDE DEF one
  <2>4. /\ q \in GateCalls /\ q.step = "embed" /\ q.memories = one
        /\ q.duplicates = {} /\ q.related = {} /\ q.created = {}
    <3>1. "embed" \in Stages /\ insight.space \in CallSpaces
          /\ insight.cites \in SUBSET Nat /\ insight.summary \in BOOLEAN
      BY GateAssumption DEF Stages, CallSpaces
    <3>2. AtRest \in GateCalls
      BY Resting
    <3>3. q \in GateCalls
      BY <2>2, <3>1, <3>2 DEF GateCalls
    <3> QED  BY <3>3 DEF AtRest
  <2> HIDE DEF q
  <2>5. CallInv(q, rows)
    BY <2>2, <2>4 DEF CallInv
  <2>6. UNCHANGED <<rows, vectors>>
    BY <1>5 DEF Reflect
  <2> QED  BY <2>3, <2>4, <2>5, <2>6, Resting, SessionWaits
<1> QED  BY <1>2, <1>3, <1>4, <1>5

\* A note is what it is made of.
LEMMA NoteFields == \A id, of : Note(id, of).id = id /\ Note(id, of).of = of
BY DEF Note

\* What the gate did not find is not to be seen, or is no near duplicate.
LEMMA GatePasses ==
    ASSUME GateInv, NEW c \in GateCalls, NEW found,
           \A note \in found : \E id \in DOMAIN rows, i \in Gated(c) : note = Note(id, i)
    PROVE  /\ found \subseteq Notes /\ Placed(c, rows, found)
           /\ Unseen(c, found) \in Seq(SUBSET Nat) /\ DOMAIN Unseen(c, found) = DOMAIN c.memories
           /\ \A note \in NearDuplicates(c, found) : Gap(rows, c, note) <= Near
           /\ \A note \in Corrected(c, found) : Gap(rows, c, note) > Near
           /\ \A i \in DOMAIN c.memories \ Of(NearDuplicates(c, found)), a \in DOMAIN rows :
                SaysSame(rows, a, c.space, c.memories[i].content) => a \in Unseen(c, found)[i]
<1>1. /\ Len(rows) \in Nat /\ DOMAIN rows = 1..Len(rows)
      /\ Len(c.memories) \in Nat /\ DOMAIN c.memories = 1..Len(c.memories)
  <2>1. Table(rows) /\ c.memories \in Seq(Claims)
    BY DEF GateInv, GateCalls
  <2> QED  BY <2>1, TableIs, LenProperties
<1>2. Placed(c, rows, found)
  BY NoteFields DEF Placed, Gated
<1>3. found \subseteq Notes
  BY <1>1 DEF Gated, Note, Notes
<1>4. Unseen(c, found) \in Seq(SUBSET Nat) /\ DOMAIN Unseen(c, found) = DOMAIN c.memories
  <2>1. Unseen(c, found) \in [1..Len(c.memories) -> SUBSET Nat]
    BY <1>1 DEF Unseen
  <2> QED  BY <1>1, <2>1
<1>5. /\ \A note \in NearDuplicates(c, found) : Gap(rows, c, note) <= Near
      /\ \A note \in Corrected(c, found) : Gap(rows, c, note) > Near
  BY DEF NearDuplicates, Corrected, IsNearDuplicate, IsCorrectionCandidate, Apart, Gap
<1>6. ASSUME NEW i \in DOMAIN c.memories \ Of(NearDuplicates(c, found)), NEW a \in DOMAIN rows,
             SaysSame(rows, a, c.space, c.memories[i].content)
      PROVE  a \in Unseen(c, found)[i]
  <2>1. Note(a, i) \notin found
    <3> SUFFICES ASSUME Note(a, i) \in found PROVE FALSE
      OBVIOUS
    <3>1. Apart(c, Note(a, i)) <= Near
      BY <1>6, NoteFields DEF SaysSame, Apart
    <3>2. Note(a, i) \in NearDuplicates(c, found)
      BY <3>1 DEF NearDuplicates, IsNearDuplicate
    <3>3. i \in Of(NearDuplicates(c, found))
      BY <3>2, NoteFields DEF Of
    <3> QED  BY <1>6, <3>3
  <2>2. LiveIn(a, c.space)
    BY <1>6 DEF SaysSame, LiveIn
  <2> QED  BY <2>1, <2>2 DEF Unseen
<1> QED  BY <1>2, <1>3, <1>4, <1>5, <1>6

\* The gate of remember.
LEMMA GateStep ==
    ASSUME GateInv, NEW s \in Session, Gate(s)
    PROVE  GateInv'
<1> DEFINE c == remembering[s]
           found == {note \in {Note(id, i) : id \in DOMAIN rows, i \in Gated(c)} :
                       note.id \in NearestLive(c.space, c.memories[note.of].content)}
           n == Len(rows)
           d == NearDuplicates(c, found)
           r == Corrected(c, found)
           u == Unseen(c, found)
           q == [c EXCEPT !.step = "insert", !.probed = n, !.duplicates = d, !.related = r, !.unseen = u]
<1>1. c \in GateCalls /\ CallInv(c, rows) /\ c.step = "probe" /\ ~c.reflect
  BY DEF GateInv, Gate
<1>2. remembering' = [remembering EXCEPT ![s] = q] /\ UNCHANGED <<rows, vectors>>
  BY DEF Gate, Proceed
<1>3. \A note \in found : \E id \in DOMAIN rows, i \in Gated(c) : note = Note(id, i)
  OBVIOUS
<1> HIDE DEF found, c
<1>4. /\ found \subseteq Notes /\ Placed(c, rows, found) /\ u \in Seq(SUBSET Nat)
      /\ DOMAIN u = DOMAIN c.memories
      /\ \A note \in d : Gap(rows, c, note) <= Near
      /\ \A note \in r : Gap(rows, c, note) > Near
      /\ \A i \in DOMAIN c.memories \ Of(d), a \in DOMAIN rows :
           SaysSame(rows, a, c.space, c.memories[i].content) => a \in u[i]
  BY <1>1, <1>3, GatePasses
<1>5. d \subseteq found /\ r \subseteq found
  BY DEF NearDuplicates, Corrected
<1>6. n \in Nat /\ DOMAIN rows = 1..n
  BY TableIs DEF GateInv
<1>7. "insert" \in Stages
  BY DEF Stages
<1> HIDE DEF n, d, r, u
<1>8. d \in SUBSET Notes /\ r \in SUBSET Notes
  BY <1>4, <1>5
<1>9. /\ q \in GateCalls /\ q.step = "insert" /\ q.reflect = c.reflect /\ q.space = c.space
      /\ q.memories = c.memories /\ q.probed = n /\ q.unseen = u
      /\ q.duplicates = d /\ q.related = r /\ q.created = c.created
  BY <1>1, <1>4, <1>6, <1>7, <1>8 DEF GateCalls
<1> HIDE DEF q
<1>10. ToInsert(q, rows)
  <2>1. q.probed <= Len(rows) /\ q.created = {} /\ DOMAIN q.unseen = DOMAIN q.memories
    BY <1>1, <1>4, <1>6, <1>9 DEF CallInv, n
  <2>2. Placed(q, rows, q.duplicates) /\ Placed(q, rows, q.related)
    BY <1>4, <1>5, <1>9 DEF Placed
  <2>3. /\ \A note \in q.duplicates : Gap(rows, q, note) <= Near
        /\ \A note \in q.related : Gap(rows, q, note) > Near
    BY <1>4, <1>9 DEF Gap
  <2>4. \A i \in Kept(q) : Passed(q, rows, i)
    BY <1>4, <1>6, <1>9 DEF Kept, Passed
  <2> QED  BY <1>1, <1>9, <2>1, <2>2, <2>3, <2>4 DEF ToInsert
<1>11. CallInv(q, rows)
  BY <1>1, <1>9, <1>10 DEF CallInv
<1> QED  BY <1>2, <1>9, <1>11, SessionWaits

\* The gate of reflect.
LEMMA ReflectGateStep ==
    ASSUME GateInv, NEW s \in Session, ReflectGate(s)
    PROVE  GateInv'
<1> DEFINE c == remembering[s]
           x == c.memories[1].content
           evidence(id) == c.summary /\ id \in c.cites
           found == {Note(id, 1) : id \in {id \in NearestLive(c.space, x) : 1 \in Gated(c) /\ ~evidence(id)}}
           near == NearDuplicates(c, found)
           n == Len(rows)
           r == Corrected(c, found)
           u == Unseen(c, found)
           q == [c EXCEPT !.step = "insert", !.probed = n, !.related = r, !.unseen = u]
<1>1. c \in GateCalls /\ CallInv(c, rows) /\ c.step = "probe" /\ c.reflect
  BY DEF GateInv, ReflectGate
<1>2. /\ UNCHANGED <<rows, vectors>>
      /\ \/ near = {} /\ remembering' = [remembering EXCEPT ![s] = q]
         \/ \E first \in near : remembering' = [remembering EXCEPT ![s] =
                                  [c EXCEPT !.step = "done", !.duplicates = {first}]]
  BY DEF ReflectGate, Proceed
<1>3. \A note \in found : \E id \in DOMAIN rows, i \in Gated(c) : note = Note(id, i)
  BY DEF NearestLive, Nearest
<1>4. c.duplicates = {} /\ c.related = {} /\ c.created = {} /\ DOMAIN c.memories = {1}
  <2>1. c.memories \in Seq(Claims) /\ Len(c.memories) = 1
    BY <1>1 DEF CallInv, GateCalls
  <2> QED  BY <1>1, <2>1, LenProperties DEF CallInv
<1> HIDE DEF found, c
<1>5. /\ found \subseteq Notes /\ Placed(c, rows, found) /\ u \in Seq(SUBSET Nat)
      /\ DOMAIN u = DOMAIN c.memories
      /\ \A note \in near : Gap(rows, c, note) <= Near
      /\ \A note \in r : Gap(rows, c, note) > Near
      /\ \A i \in DOMAIN c.memories \ Of(near), a \in DOMAIN rows :
           SaysSame(rows, a, c.space, c.memories[i].content) => a \in u[i]
  BY <1>1, <1>3, GatePasses
<1>6. near \subseteq found /\ r \subseteq found
  BY DEF NearDuplicates, Corrected
<1>7. n \in Nat /\ DOMAIN rows = 1..n
  BY TableIs DEF GateInv
<1>8. "insert" \in Stages /\ "done" \in Stages
  BY DEF Stages
<1> HIDE DEF n, near, r, u
<1>9. r \in SUBSET Notes
  BY <1>5, <1>6
<1>10. CASE near = {} /\ remembering' = [remembering EXCEPT ![s] = q]
  <2>1. /\ q \in GateCalls /\ q.step = "insert" /\ q.reflect = c.reflect /\ q.space = c.space
        /\ q.memories = c.memories /\ q.probed = n /\ q.unseen = u
        /\ q.duplicates = c.duplicates /\ q.related = r /\ q.created = c.created
    BY <1>1, <1>5, <1>7, <1>8, <1>9 DEF GateCalls
  <2> HIDE DEF q
  <2>2. ToInsert(q, rows)
    <3>1. /\ q.probed <= Len(rows) /\ q.created = {} /\ q.duplicates = {}
          /\ DOMAIN q.unseen = DOMAIN q.memories
      BY <1>4, <1>5, <1>7, <2>1 DEF n
    <3>2. Placed(q, rows, q.duplicates) /\ Placed(q, rows, q.related)
      BY <1>5, <1>6, <2>1, <3>1 DEF Placed
    <3>3. /\ \A note \in q.duplicates : Gap(rows, q, note) <= Near
          /\ \A note \in q.related : Gap(rows, q, note) > Near
      BY <1>5, <2>1, <3>1 DEF Gap
    <3>4. \A i \in Kept(q) : Passed(q, rows, i)
      <4>1. Of(near) = {}
        BY <1>10 DEF Of
      <4> QED  BY <1>5, <1>7, <2>1, <4>1 DEF Kept, Passed
    <3> QED  BY <3>1, <3>2, <3>3, <3>4 DEF ToInsert
  <2>3. CallInv(q, rows)
    BY <1>1, <2>1, <2>2 DEF CallInv
  <2> QED  BY <1>2, <1>10, <2>1, <2>3, SessionWaits
<1>11. ASSUME NEW first \in near,
              remembering' = [remembering EXCEPT ![s] = [c EXCEPT !.step = "done", !.duplicates = {first}]]
       PROVE  GateInv'
  <2> DEFINE one == {first}
             a == [c EXCEPT !.step = "done", !.duplicates = one]
  <2>1. one \in SUBSET Notes /\ first \in found
    BY <1>5, <1>6, <1>11
  <2>2. Of(one) = {1} /\ Placed(c, rows, one) /\ \A note \in one : Gap(rows, c, note) <= Near
    <3>1. first.of \in DOMAIN c.memories /\ Placed(c, rows, one)
      BY <1>5, <2>1 DEF Placed
    <3>2. Of(one) = {1}
      BY <1>4, <3>1 DEF Of
    <3>3. Gap(rows, c, first) <= Near
      BY <1>5, <1>11
    <3> QED  BY <3>1, <3>2, <3>3
  <2>3. remembering' = [remembering EXCEPT ![s] = a]
    BY <1>11
  <2> HIDE DEF one
  <2>4. /\ a \in GateCalls /\ a.step = "done" /\ a.memories = c.memories /\ a.reflect = c.reflect
        /\ a.duplicates = one /\ a.related = c.related /\ a.created = c.created
    BY <1>1, <1>8, <2>1 DEF GateCalls
  <2> HIDE DEF a
  <2>5. Answered(a, rows)
    <3>1. a.created = {} /\ a.related = {} /\ DOMAIN a.memories = {1} /\ Of(a.created) = {}
      BY <1>4, <2>4 DEF Of
    <3>2. Placed(a, rows, a.duplicates) /\ \A note \in a.duplicates : Gap(rows, a, note) <= Near
      BY <2>2, <2>4 DEF Placed, Gap
    <3> QED  BY <2>2, <2>4, <3>1, <3>2 DEF Answered, Placed
  <2>6. CallInv(a, rows)
    BY <1>1, <2>4, <2>5 DEF CallInv
  <2> QED  BY <1>2, <2>3, <2>4, <2>6, SessionWaits
<1> QED  BY <1>2, <1>10, <1>11

-----------------------------------------------------------------------------
(* What the transaction writes *)

\* The fields of the rows of a table.
LEMMA RowFields ==
    ASSUME NEW t, Table(t), NEW id \in DOMAIN t
    PROVE  t[id].content \in Int /\ t[id].live \in BOOLEAN /\ t[id].embedded \in BOOLEAN
           /\ t[id].probed \in Nat /\ t[id].gated \in BOOLEAN
<1>1. PICK spaces : t \in Seq(RowsOf(spaces))
  BY DEF Table
<1> DEFINE S == RowsOf(spaces)
<1>2. t[id] \in S
  <2> HIDE DEF S
  <2>1. t \in Seq(S)
    BY <1>1 DEF S
  <2> QED  BY <2>1
<1> QED  BY <1>2 DEF RowsOf

\* Rows of a table, closed.
LEMMA RowsClosed ==
    ASSUME NEW t, Table(t), NEW D, NEW u,
           u = [d \in DOMAIN t |-> IF d \in D THEN [t[d] EXCEPT !.live = FALSE] ELSE t[d]]
    PROVE  Table(u) /\ DOMAIN u = DOMAIN t /\ Later(t, u)
<1>1. PICK spaces : t \in Seq(RowsOf(spaces))
  BY DEF Table
<1> DEFINE S == RowsOf(spaces)
<1>2. Len(t) \in Nat /\ DOMAIN t = 1..Len(t) /\ \A d \in DOMAIN t : t[d] \in S
  <2> HIDE DEF S
  <2>1. t \in Seq(S)
    BY <1>1 DEF S
  <2> QED  BY <2>1, LenProperties
<1>3. \A d \in DOMAIN t : /\ u[d] \in S /\ u[d].content = t[d].content /\ u[d].space = t[d].space
                          /\ u[d].embedded = t[d].embedded /\ u[d].probed = t[d].probed
                          /\ u[d].gated = t[d].gated /\ u[d].unseen = t[d].unseen
                          /\ (u[d].live => t[d].live)
  <2> TAKE d \in DOMAIN t
  <2>1. t[d] \in S
    BY <1>2
  <2>2. [t[d] EXCEPT !.live = FALSE] \in S
    BY <2>1 DEF RowsOf
  <2>3. u[d] = IF d \in D THEN [t[d] EXCEPT !.live = FALSE] ELSE t[d]
    OBVIOUS
  <2> QED  BY <2>1, <2>2, <2>3 DEF RowsOf
<1>4. Table(u) /\ Len(u) = Len(t) /\ DOMAIN u = 1..Len(t)
  <2>1. u = [d \in 1..Len(t) |-> u[d]]
    BY <1>2
  <2> QED  BY <1>2, <1>3, <2>1, MadeTable
<1> QED  BY <1>2, <1>3, <1>4 DEF Later

\* Closing rows of a table in which near duplicates are excused.
LEMMA ClosedExcused ==
    ASSUME NEW t, NEW u, Later(t, u), DOMAIN u = DOMAIN t, Table(t), Excused(t)
    PROVE  Excused(u)
<1> SUFFICES ASSUME NEW b \in DOMAIN u, NEW a \in 1..(b - 1),
                    SaysSame(u, a, u[b].space, u[b].content), u[b].live, u[b].embedded, u[b].gated
             PROVE  u[b].probed < a \/ a \in u[b].unseen
  BY DEF Excused
<1>1. Len(t) \in Nat /\ DOMAIN t = 1..Len(t) /\ a \in DOMAIN t
  <2>1. Len(t) \in Nat /\ DOMAIN t = 1..Len(t)
    BY TableIs
  <2> QED  BY <2>1
<1>2. SaysSame(t, a, u[b].space, u[b].content)
  BY <1>1, SaidBefore
<1>3. /\ t[b].live /\ t[b].embedded /\ t[b].gated /\ u[b].space = t[b].space
      /\ u[b].content = t[b].content /\ u[b].probed = t[b].probed /\ u[b].unseen = t[b].unseen
  BY DEF Later
<1> QED  BY <1>2, <1>3 DEF Excused

NewRow(c, i) == [content |-> c.memories[i].content, space |-> c.space,
                 live |-> TRUE, embedded |-> vectors,
                 probed |-> c.probed, gated |-> c.memories[i].supersedes = {},
                 unseen |-> c.unseen[i]]

\* A row that says something new to the table, and was gated as Passed says.
LEMMA RowAdded ==
    ASSUME Table(rows), vectors \in BOOLEAN
    PROVE  \A t, u : \A c \in GateCalls : \A i \in DOMAIN c.memories :
             /\ Table(t) /\ Excused(t) /\ Later(rows, t) /\ c.probed <= Len(rows)
             /\ Passed(c, rows, i) /\ i \in DOMAIN c.unseen /\ u = Append(t, NewRow(c, i))
             => Table(u) /\ Excused(u) /\ Later(t, u) /\ Len(u) = Len(t) + 1 /\ u[Len(t) + 1] = NewRow(c, i)
<1> SUFFICES ASSUME NEW t, NEW u, NEW c \in GateCalls, NEW i \in DOMAIN c.memories,
                    Table(t), Excused(t), Later(rows, t), c.probed <= Len(rows),
                    Passed(c, rows, i), i \in DOMAIN c.unseen, u = Append(t, NewRow(c, i))
             PROVE  Table(u) /\ Excused(u) /\ Later(t, u) /\ Len(u) = Len(t) + 1 /\ u[Len(t) + 1] = NewRow(c, i)
  OBVIOUS
<1>1. PICK spaces : t \in Seq(RowsOf(spaces))
  BY DEF Table
<1> DEFINE more == spaces \cup {c.space}
           S == RowsOf(more)
           n == Len(t)
           row == NewRow(c, i)
<1>2. n \in Nat /\ DOMAIN t = 1..n /\ Len(rows) \in Nat /\ DOMAIN rows = 1..Len(rows) /\ Len(rows) <= n
  BY TableIs DEF Later
<1>3. t \in Seq(S)
  <2> DEFINE T == RowsOf(spaces)
  <2>1. T \subseteq S
    BY DEF RowsOf
  <2>2. t \in Seq(T)
    BY <1>1
  <2> HIDE DEF T, S
  <2> QED  BY <2>1, <2>2
<1>4. row \in S
  <2>3. c.unseen[i] \in SUBSET Nat
    <3>1. c.unseen \in Seq(SUBSET Nat)
      BY DEF GateCalls
    <3> QED  BY <3>1, ElementOfSeq, LenProperties
  <2>1. c.memories[i] \in Claims /\ c.probed \in Nat
    BY DEF GateCalls
  <2>2. c.memories[i].content \in Int /\ (c.memories[i].supersedes = {}) \in BOOLEAN
    BY <2>1 DEF Claims
  <2> QED  BY <2>1, <2>2, <2>3 DEF RowsOf, NewRow
<1>5. u \in Seq(S) /\ Len(u) = n + 1 /\ u[n + 1] = row /\ \A id \in 1..n : u[id] = t[id]
  <2> HIDE DEF S
  <2> QED  BY <1>2, <1>3, <1>4
<1>6. DOMAIN u = 1..(n + 1)
  BY <1>2, <1>5, LenProperties
<1>7. Later(t, u)
  BY <1>2, <1>5 DEF Later
<1>8. Excused(u)
  <2> SUFFICES ASSUME NEW b \in DOMAIN u, NEW a \in 1..(b - 1),
                      SaysSame(u, a, u[b].space, u[b].content), u[b].live, u[b].embedded, u[b].gated
               PROVE  u[b].probed < a \/ a \in u[b].unseen
    BY DEF Excused
  <2>1. a \in DOMAIN t /\ b \in Nat
    BY <1>2, <1>6
  <2>2. SaysSame(t, a, u[b].space, u[b].content)
    BY <1>7, <2>1, SaidBefore
  <2>3. CASE b \in 1..n
    BY <1>2, <1>5, <2>2, <2>3 DEF Excused
  <2>4. CASE b = n + 1
    <3>1. u[b] = row
      BY <1>5, <2>4
    <3>2. /\ row.content = c.memories[i].content /\ row.space = c.space /\ row.embedded = vectors
          /\ row.probed = c.probed /\ row.unseen = c.unseen[i]
          /\ row.gated = (c.memories[i].supersedes = {})
      BY DEF NewRow
    <3>3. CASE a <= c.probed
      <4>1. a \in 1..c.probed /\ a \in DOMAIN rows
        <5>1. c.probed \in Nat
          BY DEF GateCalls
        <5> QED  BY <1>2, <2>1, <3>3, <5>1
      <4>2. SaysSame(rows, a, c.space, c.memories[i].content)
        BY <2>2, <3>1, <3>2, <4>1, SaidBefore
      <4>3. vectors /\ c.memories[i].supersedes = {}
        BY <3>1, <3>2
      <4>4. a \in c.unseen[i]
        BY <4>1, <4>2, <4>3 DEF Passed
      <4> QED  BY <3>1, <3>2, <4>4
    <3>4. CASE ~(a <= c.probed)
      <4>1. c.probed \in Nat /\ a \in Int
        BY DEF GateCalls
      <4> QED  BY <3>1, <3>2, <3>4, <4>1
    <3> QED  BY <3>3, <3>4
  <2> QED  BY <1>2, <1>6, <2>1, <2>3, <2>4
<1> QED  BY <1>3, <1>5, <1>7, <1>8 DEF Table

\* A claim of the batch is written: it is a row the table has then, and says
\* what was sent.
LEMMA ClaimWritten ==
    ASSUME Table(rows), vectors \in BOOLEAN, NEW c \in GateCalls, NEW i \in DOMAIN c.memories,
           c.probed <= Len(rows), Passed(c, rows, i), i \in DOMAIN c.unseen,
           NEW done, i \notin done, NEW acc, Accounted(acc, c, done)
    PROVE  Accounted(Written(acc, i, c), c, done \cup {i})
<1> DEFINE claim == c.memories[i]
           same == {id \in DOMAIN acc.rows : /\ acc.rows[id].live /\ acc.rows[id].space = c.space
                                             /\ acc.rows[id].content = claim.content}
           targets == {d \in claim.supersedes : rows[d].live}
           id == IF same = {} THEN Len(acc.rows) + 1 ELSE CHOOSE d \in same : TRUE
           row == [content |-> claim.content, space |-> c.space,
                   live |-> TRUE, embedded |-> vectors,
                   probed |-> c.probed, gated |-> claim.supersedes = {},
                   unseen |-> c.unseen[i]]
           table == IF same # {} THEN acc.rows ELSE Append(acc.rows, row)
           shut == targets \ {id}
           end == [d \in DOMAIN table |->
                     IF d \in shut THEN [table[d] EXCEPT !.live = FALSE] ELSE table[d]]
           o == [id |-> id, created |-> same = {}]
           kept == Append(acc.kept, i)
           out == Append(acc.out, o)
           w == Written(acc, i, c)
<1>1. w.rows = end /\ w.kept = kept /\ w.out = out
  BY DEF Written
<1>2. /\ Table(acc.rows) /\ Excused(acc.rows) /\ Later(rows, acc.rows)
      /\ acc.kept \in Seq(Nat) /\ acc.out \in Seq(Outs) /\ Len(acc.kept) = Len(acc.out)
      /\ {acc.kept[k] : k \in DOMAIN acc.out} = done
      /\ \A k, l \in DOMAIN acc.out : acc.kept[k] = acc.kept[l] => k = l
      /\ \A k \in DOMAIN acc.out :
           /\ acc.out[k].id \in DOMAIN acc.rows
           /\ acc.rows[acc.out[k].id].content = c.memories[acc.kept[k]].content
  BY DEF Accounted
<1>3. Len(acc.rows) \in Nat /\ DOMAIN acc.rows = 1..Len(acc.rows)
  BY <1>2, TableIs
<1>4. i \in Nat
  <2>1. c.memories \in Seq(Claims)
    BY DEF GateCalls
  <2> QED  BY <2>1, LenProperties
<1>5. /\ Table(table) /\ Excused(table) /\ Later(acc.rows, table) /\ id \in DOMAIN table /\ id \in Nat
      /\ table[id].content = claim.content
  <2>1. CASE same # {}
    <3>1. id \in same /\ table = acc.rows
      BY <2>1
    <3>2. id \in DOMAIN acc.rows /\ acc.rows[id].content = claim.content
      BY <3>1
    <3> HIDE DEF same, id, table, claim
    <3>3. Later(acc.rows, acc.rows)
      BY <1>2, LaterSame
    <3> QED  BY <1>2, <1>3, <3>1, <3>2, <3>3
  <2>2. CASE same = {}
    <3> DEFINE u == Append(acc.rows, row)
    <3>1. table = u /\ id = Len(acc.rows) + 1
      BY <2>2
    <3>2. row.content = claim.content
      OBVIOUS
    <3>0. row = NewRow(c, i)
      BY DEF NewRow
    <3>5. u = Append(acc.rows, NewRow(c, i))
      BY <3>0
    <3> HIDE DEF claim, row, u, same, targets, id, table, shut, end, o, kept, out, w
    <3>3. Table(u) /\ Excused(u) /\ Later(acc.rows, u) /\ Len(u) = Len(acc.rows) + 1 /\ u[Len(acc.rows) + 1] = NewRow(c, i)
      <4>1. Table(acc.rows) /\ Excused(acc.rows) /\ Later(rows, acc.rows)
        BY <1>2
      <4>2. \A t, v : \A d \in GateCalls : \A j \in DOMAIN d.memories :
             /\ Table(t) /\ Excused(t) /\ Later(rows, t) /\ d.probed <= Len(rows)
             /\ Passed(d, rows, j) /\ j \in DOMAIN d.unseen /\ v = Append(t, NewRow(d, j))
             => Table(v) /\ Excused(v) /\ Later(t, v) /\ Len(v) = Len(t) + 1 /\ v[Len(t) + 1] = NewRow(d, j)
        BY RowAdded
      <4>3. Passed(c, rows, i) /\ i \in DOMAIN c.unseen /\ c.probed <= Len(rows)
        OBVIOUS
      <4>4. Table(u) /\ Excused(u)
        BY <4>2, <4>3, <4>1, <3>5
      <4>5. Len(u) = Len(acc.rows) + 1
        BY <4>2, <4>3, <4>1, <3>5
      <4>6. u[Len(acc.rows) + 1] = NewRow(c, i)
        BY <4>2, <4>3, <4>1, <3>5
      <4>7. Later(acc.rows, u)
        BY <4>2, <4>3, <4>1, <3>5
      <4> QED  BY <4>4, <4>5, <4>6, <4>7
    <3>4. DOMAIN u = 1..Len(u)
      BY <3>3, TableIs
    <3> QED  BY <1>3, <3>0, <3>1, <3>2, <3>3, <3>4
  <2> QED  BY <2>1, <2>2
<1> HIDE DEF table
<1>6. Table(end) /\ DOMAIN end = DOMAIN table /\ Later(table, end)
  <2> HIDE DEF shut
  <2> QED  BY <1>5, RowsClosed
<1> HIDE DEF end
<1>7. Excused(end)
  BY <1>5, <1>6, ClosedExcused
<1>8. Later(acc.rows, end) /\ Later(rows, end)
  BY <1>2, <1>5, <1>6, LaterOn
<1>9. \A d \in DOMAIN acc.rows : d \in DOMAIN end /\ end[d].content = acc.rows[d].content
  <2>1. DOMAIN end = 1..Len(end) /\ Len(end) \in Nat
    BY <1>6, TableIs
  <2> QED  BY <1>3, <1>8, <2>1 DEF Later
<1>10. id \in DOMAIN end /\ end[id].content = claim.content
  BY <1>5, <1>6 DEF Later
<1>11. o \in Outs /\ o.id = id
  BY <1>5 DEF Outs
<1> HIDE DEF id, o
<1>12. /\ kept \in Seq(Nat) /\ out \in Seq(Outs) /\ Len(kept) = Len(out)
       /\ Len(out) = Len(acc.out) + 1 /\ Len(acc.out) \in Nat
       /\ kept[Len(acc.out) + 1] = i /\ out[Len(acc.out) + 1] = o
       /\ \A k \in 1..Len(acc.out) : kept[k] = acc.kept[k] /\ out[k] = acc.out[k]
  BY <1>2, <1>4, <1>11
<1> HIDE DEF kept, out
<1>13. DOMAIN out = 1..(Len(acc.out) + 1) /\ DOMAIN acc.out = 1..Len(acc.out)
  BY <1>2, <1>12, LenProperties
<1>14. {kept[k] : k \in DOMAIN out} = done \cup {i}
  <2>1. \A k \in DOMAIN acc.out : kept[k] = acc.kept[k] /\ k \in DOMAIN out
    BY <1>12, <1>13
  <2>2. \A k \in DOMAIN out : k \in DOMAIN acc.out \/ k = Len(acc.out) + 1
    BY <1>12, <1>13
  <2>3. Len(acc.out) + 1 \in DOMAIN out
    BY <1>12, <1>13
  <2>4. \A j : j \in done <=> \E k \in DOMAIN acc.out : acc.kept[k] = j
    BY <1>2
  <2>5. \A j : j \in done \cup {i} <=> \E k \in DOMAIN out : kept[k] = j
    BY <1>12, <2>1, <2>2, <2>3, <2>4
  <2> QED  BY <2>5
<1>15. \A k, l \in DOMAIN out : kept[k] = kept[l] => k = l
  <2>1. \A k \in DOMAIN acc.out : kept[k] = acc.kept[k] /\ kept[k] \in done
    BY <1>2, <1>12, <1>13
  <2>2. \A k \in DOMAIN out : k \in DOMAIN acc.out \/ (k = Len(acc.out) + 1 /\ kept[k] = i)
    BY <1>12, <1>13
  <2> QED  BY <1>2, <2>1, <2>2
<1>16. \A k \in DOMAIN out : out[k].id \in DOMAIN end /\ end[out[k].id].content = c.memories[kept[k]].content
  <2>1. \A k \in DOMAIN acc.out : out[k] = acc.out[k] /\ kept[k] = acc.kept[k]
    BY <1>12, <1>13
  <2>2. \A k \in DOMAIN out : k \in DOMAIN acc.out \/ (out[k] = o /\ kept[k] = i)
    BY <1>12, <1>13
  <2> QED  BY <1>2, <1>9, <1>10, <1>11, <2>1, <2>2
<1> QED  BY <1>1, <1>6, <1>7, <1>8, <1>12, <1>14, <1>15, <1>16 DEF Accounted

\* The batch can be written claim by claim.
LEMMA BatchExists ==
    ASSUME NEW c, NEW n \in Nat
    PROVE  \E f : f = [i \in 0..n |->
                     IF i = 0 THEN NothingWritten
                     ELSE IF i \in Kept(c) THEN Written(f[i - 1], i, c) ELSE f[i - 1]]
<1> DEFINE next(acc, i) == IF i \in Kept(c) THEN Written(acc, i, c) ELSE acc
           F(f, k) == [i \in 0..k |-> IF i = 0 THEN NothingWritten ELSE next(f[i - 1], i)]
           Z == {k \in 0..n : ~\E f : f = F(f, k)}
<1> HIDE DEF next
<1>1. ASSUME Z # {} PROVE FALSE
  <2>1. PICK k \in Z : \A m \in Z : ~(m < k)
    <3>1. Z \in SUBSET Nat
      OBVIOUS
    <3> HIDE DEF Z
    <3> QED  BY <1>1, <3>1, LeastIndex
  <2>2. k # 0
    <3>1. F(<< >>, 0) = F(F(<< >>, 0), 0)
      OBVIOUS
    <3> QED  BY <3>1
  <2>3. k - 1 \in 0..n /\ k - 1 \notin Z /\ k \in 1..n
    BY <2>1, <2>2
  <2>4. PICK f : f = F(f, k - 1)
    BY <2>3
  <2> DEFINE g == [i \in 0..k |-> IF i = k THEN next(f[k - 1], k) ELSE f[i]]
  <2>5. ASSUME NEW i \in 0..k PROVE g[i] = IF i = 0 THEN NothingWritten ELSE next(g[i - 1], i)
    <3>1. CASE i = k
      <4>1. k - 1 \in 0..k /\ k - 1 # k /\ k # 0
        BY <2>3
      <4> QED  BY <3>1, <4>1
    <3>2. CASE i # k
      <4>1. i \in 0..(k - 1) /\ (i # 0 => i - 1 \in 0..k /\ i - 1 # k)
        BY <2>3, <3>2
      <4>2. f[i] = IF i = 0 THEN NothingWritten ELSE next(f[i - 1], i)
        BY <2>4, <4>1
      <4> QED  BY <3>2, <4>1, <4>2
    <3> QED  BY <3>1, <3>2
  <2>6. g = F(g, k)
    BY <2>5
  <2> HIDE DEF F, g
  <2> QED  BY <2>1, <2>6
<1>2. n \notin Z
  BY <1>1
<1>3. \E f : f = F(f, n)
  BY <1>2
<1> QED  BY <1>3 DEF next

\* What the batch comes to: all that the gate kept is written.
LEMMA BatchWritten ==
    ASSUME GateInv, NEW c \in GateCalls, ToInsert(c, rows)
    PROVE  Accounted(Batch(c), c, Kept(c))
<1> DEFINE n == Len(c.memories)
           F(f) == [i \in 0..n |->
                     IF i = 0 THEN NothingWritten
                     ELSE IF i \in Kept(c) THEN Written(f[i - 1], i, c) ELSE f[i - 1]]
           after == CHOOSE f : f = F(f)
           done(i) == Kept(c) \cap 1..i
           Bad == {i \in 0..n : ~Accounted(after[i], c, done(i))}
<1>1. Batch(c) = after[n]
  BY DEF Batch
<1>2. n \in Nat /\ DOMAIN c.memories = 1..n
  <2>1. c.memories \in Seq(Claims)
    BY DEF GateCalls
  <2> QED  BY <2>1, LenProperties
<1>3. after = F(after)
  <2>1. \E f : f = F(f)
    <3> HIDE DEF n
    <3> QED  BY <1>2, BatchExists
  <2> HIDE DEF F
  <2> QED  BY <2>1
<1> HIDE DEF after
<1>4. /\ after[0] = NothingWritten
      /\ \A i \in 1..n : after[i] = IF i \in Kept(c) THEN Written(after[i - 1], i, c) ELSE after[i - 1]
  BY <1>2, <1>3
<1>5. Accounted(after[0], c, done(0))
  <2>1. Table(rows) /\ Excused(rows) /\ Later(rows, rows)
    BY LaterSame DEF GateInv
  <2>2. << >> \in Seq(Nat) /\ << >> \in Seq(Outs) /\ Len(<< >>) = 0 /\ DOMAIN << >> = {}
    BY EmptySeq
  <2>3. NothingWritten.rows = rows /\ NothingWritten.kept = << >> /\ NothingWritten.out = << >>
    BY DEF NothingWritten
  <2>4. done(0) = {}
    OBVIOUS
  <2> QED  BY <1>4, <2>1, <2>2, <2>3, <2>4 DEF Accounted
<1>6. ASSUME NEW i \in 1..n, Accounted(after[i - 1], c, done(i - 1)) PROVE Accounted(after[i], c, done(i))
  <2>1. CASE i \in Kept(c)
    <3>1. done(i) = done(i - 1) \cup {i} /\ i \notin done(i - 1)
      BY <1>2, <2>1 DEF Kept
    <3>2. /\ Table(rows) /\ vectors \in BOOLEAN /\ i \in DOMAIN c.memories
          /\ c.probed <= Len(rows) /\ Passed(c, rows, i) /\ i \in DOMAIN c.unseen
      BY <1>2, <2>1 DEF GateInv, ToInsert
    <3>3. after[i] = Written(after[i - 1], i, c)
      BY <1>4, <2>1
    <3> DEFINE before == after[i - 1]
               some == done(i - 1)
    <3>4. Accounted(before, c, some) /\ i \notin some
      BY <1>6, <3>1
    <3> HIDE DEF before, some
    <3>5. Accounted(Written(before, i, c), c, some \cup {i})
      BY <3>2, <3>4, ClaimWritten
    <3> QED  BY <3>1, <3>3, <3>5 DEF before, some
  <2>2. CASE i \notin Kept(c)
    <3>1. done(i) = done(i - 1)
      BY <1>2, <2>2
    <3> QED  BY <1>4, <1>6, <2>2, <3>1
  <2> QED  BY <2>1, <2>2
<1> HIDE DEF n, F, done
<1>7. ASSUME Bad # {} PROVE FALSE
  <2>1. PICK i \in Bad : \A m \in Bad : ~(m < i)
    <3>1. Bad \in SUBSET Nat
      OBVIOUS
    <3> HIDE DEF Bad
    <3> QED  BY <1>7, <3>1, LeastIndex
  <2>2. i \in 0..n /\ i # 0
    BY <1>5, <2>1
  <2>3. i - 1 \in 0..n /\ i - 1 \notin Bad /\ i \in 1..n
    BY <1>2, <2>1, <2>2
  <2> QED  BY <1>6, <2>1, <2>3
<1>8. Accounted(after[n], c, done(n))
  BY <1>2, <1>7
<1>9. done(n) = Kept(c)
  BY <1>2 DEF done, Kept
<1> QED  BY <1>1, <1>8, <1>9

-----------------------------------------------------------------------------
(* What is reported of it *)

\* A claim of a batch that has come to end: the row it is in says just that.
LEMMA ClaimReported ==
    ASSUME NEW c \in GateCalls, NEW done \in SUBSET DOMAIN c.memories, NEW end, Accounted(end, c, done),
           NEW k \in DOMAIN end.out
    PROVE  /\ end.out[k].id \in DOMAIN end.rows /\ end.kept[k] \in done
           /\ Note(end.out[k].id, end.kept[k]) \in Notes
           /\ Gap(end.rows, c, Note(end.out[k].id, end.kept[k])) = 0
           /\ end.out[k].created \in BOOLEAN
<1>1. /\ end.out[k].id \in DOMAIN end.rows /\ end.kept[k] \in done
      /\ end.rows[end.out[k].id].content = c.memories[end.kept[k]].content
      /\ Table(end.rows) /\ end.out \in Seq(Outs)
  BY DEF Accounted
<1>2. end.rows[end.out[k].id].content \in Int
  BY <1>1, RowFields
<1>3. Gap(end.rows, c, Note(end.out[k].id, end.kept[k])) = 0
  BY <1>1, <1>2, NoteFields DEF Gap, Distance, Larger, Smaller
<1>4. end.kept[k] \in Nat
  <2>1. c.memories \in Seq(Claims) /\ end.kept[k] \in DOMAIN c.memories
    BY <1>1 DEF GateCalls
  <2> QED  BY <2>1, LenProperties
<1>5. end.out[k] \in Outs
  BY <1>1, ElementOfSeq, LenProperties
<1>6. end.out[k].id \in Nat /\ end.out[k].created \in BOOLEAN
  BY <1>5 DEF Outs
<1> QED  BY <1>1, <1>3, <1>4, <1>6 DEF Note, Notes

\* What the store made and what it found account for the batch between them.
LEMMA BatchReported ==
    ASSUME NEW c \in GateCalls, NEW done \in SUBSET DOMAIN c.memories, NEW end, Accounted(end, c, done)
    PROVE  /\ Created(end) \in SUBSET Notes /\ Reported(end) \in SUBSET Notes
           /\ Placed(c, end.rows, Created(end)) /\ Placed(c, end.rows, Reported(end))
           /\ \A note \in Created(end) \cup Reported(end) : Gap(end.rows, c, note) = 0
           /\ Of(Created(end)) \cup Of(Reported(end)) = done
           /\ Of(Created(end)) \cap Of(Reported(end)) = {}
<1>1. \A k \in DOMAIN end.out :
         /\ end.out[k].id \in DOMAIN end.rows /\ end.kept[k] \in done
         /\ Note(end.out[k].id, end.kept[k]) \in Notes
         /\ Gap(end.rows, c, Note(end.out[k].id, end.kept[k])) = 0
         /\ end.out[k].created \in BOOLEAN
  BY ClaimReported
<1>2. \A note \in Created(end) : \E k \in DOMAIN end.out :
         note = Note(end.out[k].id, end.kept[k]) /\ end.out[k].created = TRUE /\ note.of = end.kept[k]
  BY NoteFields DEF Created, Places
<1>3. \A note \in Reported(end) : \E k \in DOMAIN end.out :
         note = Note(end.out[k].id, end.kept[k]) /\ end.out[k].created = FALSE /\ note.of = end.kept[k]
  BY NoteFields DEF Reported, Places
<1>4. Created(end) \in SUBSET Notes /\ Reported(end) \in SUBSET Notes
  BY <1>1, <1>2, <1>3
<1>5. Placed(c, end.rows, Created(end)) /\ Placed(c, end.rows, Reported(end))
  BY <1>1, <1>2, <1>3, NoteFields DEF Placed
<1>6. \A note \in Created(end) \cup Reported(end) : Gap(end.rows, c, note) = 0
  BY <1>1, <1>2, <1>3
<1>7. Of(Created(end)) \subseteq done /\ Of(Reported(end)) \subseteq done
  BY <1>1, <1>2, <1>3 DEF Of
<1>8. ASSUME NEW i \in done PROVE i \in Of(Created(end)) \cup Of(Reported(end))
  <2>1. PICK k \in DOMAIN end.out : end.kept[k] = i
    BY DEF Accounted
  <2> DEFINE note == Note(end.out[k].id, end.kept[k])
  <2>2. note.of = i
    BY <2>1, NoteFields
  <2>3. CASE end.out[k].created = TRUE
    <3>1. note \in Created(end)
      BY <2>3 DEF Created, Places
    <3> QED  BY <2>2, <3>1 DEF Of
  <2>4. CASE end.out[k].created = FALSE
    <3>1. note \in Reported(end)
      BY <2>4 DEF Reported, Places
    <3> QED  BY <2>2, <3>1 DEF Of
  <2> QED  BY <1>1, <2>3, <2>4
<1>9. ASSUME NEW i \in Of(Created(end)), i \in Of(Reported(end)) PROVE FALSE
  <2>1. PICK k \in DOMAIN end.out : end.out[k].created = TRUE /\ end.kept[k] = i
    BY <1>2 DEF Of
  <2>2. PICK l \in DOMAIN end.out : end.out[l].created = FALSE /\ end.kept[l] = i
    BY <1>3, <1>9 DEF Of
  <2>3. k = l
    BY <2>1, <2>2 DEF Accounted
  <2> QED  BY <2>1, <2>2, <2>3
<1> QED  BY <1>4, <1>5, <1>6, <1>7, <1>8, <1>9

\* The transaction of remember.
LEMMA InsertStep ==
    ASSUME GateInv, NEW s \in Session, Insert(s)
    PROVE  GateInv'
<1> DEFINE c == remembering[s]
           end == Batch(c)
           made == Created(end)
           found == Reported(end)
           d == c.duplicates \cup found
           r == {note \in c.related : note.of \notin Of(d)}
           q == [c EXCEPT !.step = "done", !.created = made, !.duplicates = d, !.related = r]
           e == [c EXCEPT !.step = "done", !.related = {}]
<1>1. c \in GateCalls /\ CallInv(c, rows) /\ c.step = "insert" /\ ~c.reflect /\ ToInsert(c, rows)
  BY DEF GateInv, Insert, CallInv
<1>2. \/ /\ Kept(c) = {} /\ UNCHANGED <<rows, vectors>> /\ remembering' = [remembering EXCEPT ![s] = e]
      \/ /\ UNCHANGED <<rows, vectors>> /\ remembering' = [remembering EXCEPT ![s] = AtRest]
      \/ /\ rows' = end.rows /\ UNCHANGED vectors
         /\ remembering' = [remembering EXCEPT ![s] = q]
  BY DEF Insert, Proceed
<1>3. "done" \in Stages /\ c.duplicates \in SUBSET Notes /\ c.related \in SUBSET Notes
  BY <1>1 DEF Stages, GateCalls
<1>4. Of(c.duplicates) = DOMAIN c.memories \ Kept(c)
  <2>1. Of(c.duplicates) \subseteq DOMAIN c.memories
    BY <1>1 DEF ToInsert, Placed, Of
  <2> QED  BY <2>1 DEF Kept
<1> HIDE DEF c, end
<1>5. CASE Kept(c) = {} /\ UNCHANGED <<rows, vectors>> /\ remembering' = [remembering EXCEPT ![s] = e]
  <2>1. /\ e \in GateCalls /\ e.step = "done" /\ e.memories = c.memories /\ e.reflect = c.reflect
        /\ e.duplicates = c.duplicates /\ e.related = {} /\ e.created = c.created
    BY <1>1, <1>3 DEF GateCalls
  <2> HIDE DEF e
  <2>2. Answered(e, rows)
    <3>1. Of(e.created) = {} /\ e.created = {}
      BY <1>1, <2>1 DEF ToInsert, Of
    <3>2. Of(e.duplicates) = DOMAIN e.memories
      BY <1>4, <1>5, <2>1
    <3>3. Placed(e, rows, e.duplicates) /\ \A note \in e.duplicates : Gap(rows, e, note) <= Near
      BY <1>1, <2>1 DEF ToInsert, Placed, Gap
    <3> QED  BY <2>1, <3>1, <3>2, <3>3 DEF Answered, Placed
  <2>3. CallInv(e, rows)
    BY <1>1, <2>1, <2>2 DEF CallInv
  <2> QED  BY <1>5, <2>1, <2>3, SessionWaits
<1>6. CASE rows' = end.rows /\ UNCHANGED vectors /\ remembering' = [remembering EXCEPT ![s] = q]
  <2>1. Accounted(end, c, Kept(c)) /\ Kept(c) \in SUBSET DOMAIN c.memories
    BY <1>1, BatchWritten DEF end, Kept
  <2>2. Table(end.rows) /\ Excused(end.rows) /\ Later(rows, end.rows)
    BY <2>1 DEF Accounted
  <2>3. /\ made \in SUBSET Notes /\ found \in SUBSET Notes
        /\ Placed(c, end.rows, made) /\ Placed(c, end.rows, found)
        /\ \A note \in made \cup found : Gap(end.rows, c, note) = 0
        /\ Of(made) \cup Of(found) = Kept(c) /\ Of(made) \cap Of(found) = {}
    BY <1>1, <2>1, BatchReported
  <2>4. Of(d) = Of(c.duplicates) \cup Of(found)
    BY DEF Of
  <2> HIDE DEF made, found
  <2>5. d \in SUBSET Notes /\ r \in SUBSET Notes
    BY <1>3, <2>3
  <2>6. \A note \in r : note \in c.related /\ note.of \notin Of(d)
    OBVIOUS
  <2>7. \A note \in d : note \in c.duplicates \/ note \in found
    OBVIOUS
  <2> HIDE DEF d, r
  <2>8. /\ q \in GateCalls /\ q.step = "done" /\ q.memories = c.memories /\ q.reflect = c.reflect
        /\ q.duplicates = d /\ q.related = r /\ q.created = made
    BY <1>1, <1>3, <2>3, <2>5 DEF GateCalls
  <2> HIDE DEF q
  <2>9. ToInsert(c, end.rows)
    <3>1. Table(rows) /\ CallInv(c, end.rows)
      <4>1. Table(rows)
        BY DEF GateInv
      <4> QED  BY <1>1, <1>6, <2>2, <4>1, CallKept
    <3> QED  BY <1>1, <3>1 DEF CallInv
  <2>10. Answered(q, end.rows)
    <3>1. Of(made) \cup Of(d) = DOMAIN c.memories /\ Of(made) \cap Of(d) = {}
      BY <1>4, <2>1, <2>3, <2>4
    <3>2. Placed(c, end.rows, d) /\ Placed(c, end.rows, r)
      BY <2>3, <2>6, <2>7, <2>9 DEF ToInsert, Placed
    <3>3. \A note \in d : Gap(end.rows, c, note) <= Near
      <4>1. \A note \in c.duplicates : Gap(end.rows, c, note) <= Near
        BY <2>9 DEF ToInsert
      <4>2. \A note \in found : Gap(end.rows, c, note) <= Near
        BY <2>3, GateAssumption
      <4> QED  BY <2>7, <4>1, <4>2
    <3>4. \A note \in r : Gap(end.rows, c, note) > Near /\ note.of \notin Of(d)
      BY <2>6, <2>9 DEF ToInsert
    <3> QED  BY <2>3, <2>8, <3>1, <3>2, <3>3, <3>4 DEF Answered, Placed, Gap
  <2>11. CallInv(q, end.rows)
    BY <1>1, <2>8, <2>10 DEF CallInv
  <2> QED  BY <1>6, <2>2, <2>8, <2>11, SessionMoves
<1> QED  BY <1>2, <1>5, <1>6, Resting, SessionWaits

\* The transaction of reflect.
LEMMA ReflectInsertStep ==
    ASSUME GateInv, NEW s \in Session, ReflectInsert(s)
    PROVE  GateInv'
<1> DEFINE c == remembering[s]
           end == Written(NothingWritten, 1, c)
           one == {Note(end.out[1].id, 1)}
           q == [c EXCEPT !.step = "done", !.created = one]
           e == [c EXCEPT !.step = "done", !.related = {}, !.duplicates = one]
<1>1. c \in GateCalls /\ CallInv(c, rows) /\ c.step = "insert" /\ c.reflect /\ ToInsert(c, rows)
      /\ Len(c.memories) = 1 /\ c.duplicates = {} /\ c.created = {}
  BY DEF GateInv, ReflectInsert, CallInv, ToInsert
<1>2. \/ /\ UNCHANGED <<rows, vectors>> /\ remembering' = [remembering EXCEPT ![s] = AtRest]
      \/ /\ rows' = end.rows /\ UNCHANGED vectors
         /\ \/ remembering' = [remembering EXCEPT ![s] = q]
            \/ remembering' = [remembering EXCEPT ![s] = e]
  <2>1. CASE ~Known(c)
    BY <2>1 DEF ReflectInsert, Proceed
  <2>2. CASE Known(c) /\ end.out[1].created
    BY <2>2 DEF ReflectInsert
  <2>3. CASE Known(c) /\ ~end.out[1].created
    BY <2>3 DEF ReflectInsert
  <2> QED  BY <2>1, <2>2, <2>3
<1>3. DOMAIN c.memories = {1} /\ "done" \in Stages /\ Kept(c) = {1} /\ c.related \in SUBSET Notes
  <2>1. c.memories \in Seq(Claims) /\ c.related \in SUBSET Notes
    BY <1>1 DEF GateCalls
  <2>2. DOMAIN c.memories = {1}
    BY <1>1, <2>1, LenProperties
  <2> QED  BY <1>1, <2>1, <2>2 DEF Kept, Of, Stages
<1> HIDE DEF c
<1>4. Accounted(end, c, {1})
  <2>1. Table(rows) /\ Excused(rows) /\ Later(rows, rows) /\ vectors \in BOOLEAN
    BY LaterSame DEF GateInv
  <2>2. << >> \in Seq(Nat) /\ << >> \in Seq(Outs) /\ Len(<< >>) = 0 /\ DOMAIN << >> = {}
    BY EmptySeq
  <2>3. NothingWritten.rows = rows /\ NothingWritten.kept = << >> /\ NothingWritten.out = << >>
    BY DEF NothingWritten
  <2>4. Accounted(NothingWritten, c, {})
    BY <2>1, <2>2, <2>3 DEF Accounted
  <2>5. c.probed <= Len(rows) /\ Passed(c, rows, 1) /\ 1 \in DOMAIN c.unseen /\ 1 \in DOMAIN c.memories
    BY <1>1, <1>3 DEF ToInsert
  <2> DEFINE none == {}
  <2>6. 1 \notin none /\ none \cup {1} = {1} /\ Accounted(NothingWritten, c, none)
    BY <2>4
  <2> HIDE DEF none
  <2>7. Accounted(Written(NothingWritten, 1, c), c, none \cup {1})
    BY <1>1, <2>1, <2>5, <2>6, ClaimWritten
  <2> QED  BY <2>6, <2>7
<1> HIDE DEF end
<1>5. Table(end.rows) /\ Excused(end.rows) /\ Later(rows, end.rows)
  BY <1>4 DEF Accounted
<1>6. 1 \in DOMAIN end.out /\ end.kept[1] = 1
  <2>1. PICK k \in DOMAIN end.out : end.kept[k] = 1
    BY <1>4 DEF Accounted
  <2>2. DOMAIN end.out = 1..Len(end.out) /\ Len(end.out) \in Nat
    BY <1>4, LenProperties DEF Accounted
  <2>3. 1 \in DOMAIN end.out
    BY <2>1, <2>2
  <2> QED  BY <1>4, <2>3 DEF Accounted
<1>7. /\ one \in SUBSET Notes /\ Of(one) = {1} /\ Placed(c, end.rows, one)
      /\ \A note \in one : Gap(end.rows, c, note) = 0
  <2> DEFINE done == {1}
  <2>1. done \in SUBSET DOMAIN c.memories /\ Accounted(end, c, done)
    BY <1>3, <1>4
  <2> HIDE DEF done
  <2>2. /\ end.out[1].id \in DOMAIN end.rows
        /\ Note(end.out[1].id, end.kept[1]) \in Notes
        /\ Gap(end.rows, c, Note(end.out[1].id, end.kept[1])) = 0
    BY <1>1, <1>6, <2>1, ClaimReported
  <2> QED  BY <1>3, <1>6, <2>2, NoteFields DEF Of, Placed
<1> HIDE DEF one
<1>8. ToInsert(c, end.rows)
  <2>1. Table(rows)
    BY DEF GateInv
  <2> QED  BY <1>1, <1>2, <1>5, <2>1, CallKept DEF CallInv, ReflectInsert
<1>9. CASE rows' = end.rows /\ UNCHANGED vectors /\ remembering' = [remembering EXCEPT ![s] = q]
  <2>1. /\ q \in GateCalls /\ q.step = "done" /\ q.memories = c.memories /\ q.reflect = c.reflect
        /\ q.duplicates = c.duplicates /\ q.related = c.related /\ q.created = one
    BY <1>1, <1>3, <1>7 DEF GateCalls
  <2> HIDE DEF q
  <2>2. Answered(q, end.rows)
    <3>1. Of(q.duplicates) = {} /\ q.duplicates = {}
      BY <1>1, <2>1 DEF Of
    <3>2. Placed(c, end.rows, c.related) /\ \A note \in c.related : Gap(end.rows, c, note) > Near
      BY <1>8 DEF ToInsert
    <3> QED  BY <1>3, <1>7, <2>1, <3>1, <3>2 DEF Answered, Placed, Gap
  <2>3. CallInv(q, end.rows)
    BY <1>1, <2>1, <2>2 DEF CallInv
  <2> QED  BY <1>5, <1>9, <2>1, <2>3, SessionMoves
<1>10. CASE rows' = end.rows /\ UNCHANGED vectors /\ remembering' = [remembering EXCEPT ![s] = e]
  <2>1. /\ e \in GateCalls /\ e.step = "done" /\ e.memories = c.memories /\ e.reflect = c.reflect
        /\ e.duplicates = one /\ e.related = {} /\ e.created = c.created
    BY <1>1, <1>3, <1>7 DEF GateCalls
  <2> HIDE DEF e
  <2>2. Answered(e, end.rows)
    <3>1. Of(e.created) = {} /\ e.created = {}
      BY <1>1, <2>1 DEF Of
    <3>2. \A note \in one : Gap(end.rows, c, note) <= Near
      BY <1>7, GateAssumption
    <3> QED  BY <1>3, <1>7, <2>1, <3>1, <3>2 DEF Answered, Placed, Gap
  <2>3. CallInv(e, end.rows)
    BY <1>1, <2>1, <2>2 DEF CallInv
  <2> QED  BY <1>5, <1>10, <2>1, <2>3, SessionMoves
<1> QED  BY <1>2, <1>9, <1>10, Resting, SessionWaits

-----------------------------------------------------------------------------
(* The theorems *)

\* The invariant holds of the store as it is found.
LEMMA GateStarts == GateInit => GateInv
<1> SUFFICES ASSUME GateInit PROVE GateInv
  OBVIOUS
<1>1. Table(rows) /\ \A id \in DOMAIN rows : rows[id].probed = 0
  BY GateAssumption DEF GateInit, Table
<1>2. Excused(rows)
  <2>1. Len(rows) \in Nat /\ DOMAIN rows = 1..Len(rows)
    BY <1>1, TableIs
  <2>2. \A b \in DOMAIN rows : \A a \in 1..(b - 1) : rows[b].probed < a
    BY <1>1, <2>1
  <2> QED  BY <2>2 DEF Excused
<1> QED  BY <1>1, <1>2, Resting DEF GateInit, GateInv

\* Every step keeps it.
LEMMA GateStays == GateInv /\ [GateNext]_gateVars => GateInv'
<1> SUFFICES ASSUME GateInv, [GateNext]_gateVars PROVE GateInv'
  OBVIOUS
<1>1. CASE UNCHANGED gateVars
  <2>1. UNCHANGED <<rows, vectors, remembering>>
    BY <1>1 DEF gateVars
  <2> QED  BY <2>1 DEF GateInv, CallInv, ToInsert, Passed
<1>2. CASE GateNext
  <2>1. PICK s \in Session :
          \/ Send(s) \/ Reflect(s) \/ Embed(s) \/ EmbedFails(s) \/ Gate(s) \/ ReflectGate(s)
          \/ Insert(s) \/ ReflectInsert(s) \/ InsertFails(s) \/ RememberDone(s)
    BY <1>2 DEF GateNext
  <2> QED  BY <2>1, CallOpens, GateStep, ReflectGateStep, InsertStep, ReflectInsertStep
<1> QED  BY <1>1, <1>2

\* Every claim a caller sent to remember or reflect is answered in its report
\* under its own index, once, as created with the text sent or as a duplicate
\* of a row within the near band, for any calls, tables and number of sessions
\* (run of remember.rs and reflect.rs).
THEOREM ClaimsAreAnswered == GateSpec => []EveryClaimAnswered
<1>1. GateInv => EveryClaimAnswered
  BY DEF GateInv, CallInv, Answered, EveryClaimAnswered, Apart, Gap
<1> QED  BY <1>1, GateStarts, GateStays, PTL DEF GateSpec

\* Two live claims of a space that say the same are there only because the
\* gate of the later one could not see the earlier, or the later corrected
\* something, whatever sessions wrote between its probe and its transaction.
THEOREM NearDuplicatesAreExcused == GateSpec => []NearDuplicatesExcused
<1>1. GateInv => NearDuplicatesExcused
  BY DEF GateInv, Excused, SaysSame, NearDuplicatesExcused
<1> QED  BY <1>1, GateStarts, GateStays, PTL DEF GateSpec
===============================================================================
