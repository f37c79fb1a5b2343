-------------------------- MODULE CredentialsProofs --------------------------
(***************************************************************************)
(* Proofs about the calls that share a stored login (StoredLogins), the    *)
(* calls that share the walk of a cloud chain (CloudProvider), an attempt  *)
(* to sign in (LoginAttempt) and the doctor of a router (Access), for any  *)
(* number of calls, tokens, rungs, machines and sites.                     *)
(***************************************************************************)
EXTENDS Credentials, TLAPS

Documents ==
  [form : {"missing", "broken", "object"}, access : Nat, refresh : 0..MaxToken,
   loggedOut : BOOLEAN, others : Nat]
Answers == [kind : {"none", "ok", "failed"}, access : Nat, refresh : 0..MaxToken]
Results ==
  {"none", "token", "not_configured", "expired", "env_key", "blocked", "lock_timeout",
   "renewal_failed", "write_failed", "crashed"}
Calls ==
  [at : {"idle", "waiting", "asking", "over"}, from : Files, kept : 0..MaxToken,
   asked : 0..MaxToken, answer : Answers, seen : Documents, result : Results]
Devices == [at : {"idle", "polling", "storing", "over"}, left : Nat, interval : Nat]

LoginType ==
  /\ file \in [Files -> Documents]
  /\ holder \in [Files -> Callers \cup {"nobody"}]
  /\ call \in [Callers -> Calls]
  /\ minted \in 0..MaxToken
  /\ device \in Devices
  /\ outside \in Nat
  /\ sent \in [Generations -> Nat]
  /\ excused \subseteq Generations

Waiting(c, g) == call[c].at = "waiting" /\ call[c].kept = g
Asking(c, g) == call[c].at = "asking" /\ call[c].asked = g
Brings(c, g) == call[c].at = "asking" /\ call[c].answer.kind = "ok" /\ call[c].answer.refresh = g
Signs(g) == device.at = "storing" /\ device.left = g

\* What was minted bounds every token there is.
MintedInv ==
  /\ \A f \in Files : file[f].refresh <= minted
  /\ \A c \in Callers : call[c].kept <= minted /\ call[c].asked <= minted /\ call[c].answer.refresh <= minted
  /\ device.at = "storing" => device.left \in 1..minted
  /\ \A g \in Generations : sent[g] > 0 => g <= minted

\* A call that asks holds the lock of its file and has sent its token.
AskingInv ==
  \A c \in Callers :
    /\ call[c].at = "waiting" => call[c].kept # 0 /\ call[c].answer.kind = "none"
    /\ call[c].at = "asking" =>
         /\ holder[call[c].from] = c /\ call[c].asked # 0 /\ sent[call[c].asked] >= 1
         /\ call[c].answer.kind = "ok" => call[c].answer.refresh # 0

\* A token that needs no excuse is the business of one file.
At(f, g) ==
  \/ file[f].refresh = g
  \/ \E c \in Callers : call[c].from = f /\ (Waiting(c, g) \/ Asking(c, g) \/ Brings(c, g))
  \/ f = "own" /\ Signs(g)

OnePlace == \A g \in Generations \ excused : ~(At("own", g) /\ At("pi", g))

\* A token that is yet to be stored was not sent, and nobody can have read it.
Unused(g) ==
  /\ sent[g] = 0
  /\ \A f \in Files : file[f].refresh # g
  /\ \A c \in Callers : ~Waiting(c, g)

NewInv ==
  \A g \in Generations \ excused :
    /\ Signs(g) => Unused(g)
    /\ \A c \in Callers : Brings(c, g) => Unused(g) /\ ~Signs(g)

\* A token that was sent is asked for under the lock, or no call finds it:
\* no file has it, and who still holds it finds another in its place.
Gone(g) ==
  /\ \A f \in Files : file[f].refresh # g
  /\ \A c \in Callers : Waiting(c, g) => file[call[c].from].refresh # 0

SpentInv ==
  \A g \in Generations \ excused : sent[g] >= 1 => (\E c \in Callers : Asking(c, g)) \/ Gone(g)

LoginInv ==
  LoginType /\ MintedInv /\ AskingInv /\ OnePlace /\ NewInv /\ SpentInv /\ RefreshTokenSentOnce

-----------------------------------------------------------------------------
(* Every step of a stored login keeps LoginInv.                            *)

\* A call, an answer and a file that are nothing are of their types.
LEMMA NoCallIs ==
  /\ NoAnswer \in Answers /\ NoAnswer.kind = "none" /\ NoAnswer.refresh = 0
  /\ NoCall \in Calls /\ NoCall.at = "idle" /\ NoCall.kept = 0 /\ NoCall.asked = 0 /\ NoCall.answer = NoAnswer
  /\ Missing \in Documents /\ Missing.refresh = 0
<1>1. Missing \in Documents /\ Missing.refresh = 0
  BY LoginAssumption DEF Missing, Documents
<1>2. NoAnswer \in Answers /\ NoAnswer.kind = "none" /\ NoAnswer.refresh = 0
  BY LoginAssumption DEF NoAnswer, Answers
<1>3. 0 \in 0..MaxToken /\ "own" \in Files /\ "none" \in Results
  BY LoginAssumption DEF Files, Results
<1> HIDE DEF NoAnswer, Missing
<1> QED BY <1>1, <1>2, <1>3 DEF NoCall, Calls

\* What End leaves of a call.
LEMMA Ended ==
  ASSUME LoginType, NEW c \in Callers, NEW result \in Results, End(c, result)
  PROVE  /\ call' \in [Callers -> Calls]
         /\ call'[c].at = "over" /\ call'[c].kept = 0 /\ call'[c].asked = 0 /\ call'[c].answer.refresh = 0
         /\ \A d \in Callers : d # c => call'[d] = call[d]
<1> DEFINE over == [NoCall EXCEPT !.at = "over"]
           new == [over EXCEPT !.result = result]
<1>1. /\ over \in Calls /\ over.at = "over" /\ over.kept = 0 /\ over.asked = 0 /\ over.answer = NoAnswer
  BY NoCallIs DEF Calls, Results
<1>2. call' = [call EXCEPT ![c] = new]
  BY DEF End
<1> HIDE DEF over
<1>3. /\ new \in Calls /\ new.at = "over" /\ new.kept = 0 /\ new.asked = 0 /\ new.answer = NoAnswer
  BY <1>1 DEF Calls
<1> HIDE DEF new
<1> QED BY <1>2, <1>3, NoCallIs DEF LoginType

(* A call that ends without having asked, or that failed or died with its  *)
(* token excused.                                                          *)
LEMMA EndingKeeps ==
  ASSUME LoginInv, NEW c \in Callers, NEW result \in Results, End(c, result),
         excused' \subseteq Generations, excused \subseteq excused',
         call[c].at = "asking" => call[c].asked \in excused',
         holder' \in [Files -> Callers \cup {"nobody"}],
         \A f \in Files : holder'[f] = holder[f] \/ holder[f] = c,
         UNCHANGED <<shop, file, minted, device, outside, sent>>
  PROVE  LoginInv'
<1> USE LoginAssumption DEF LoginInv
<1>1. /\ call' \in [Callers -> Calls]
      /\ call'[c].at = "over" /\ call'[c].kept = 0 /\ call'[c].asked = 0 /\ call'[c].answer.refresh = 0
      /\ \A d \in Callers : d # c => call'[d] = call[d]
  BY Ended
<1>2. LoginType'
  BY <1>1 DEF LoginType
<1>3. MintedInv'
  BY <1>1 DEF MintedInv, LoginType
<1>4. AskingInv'
  <2>1. \A d \in Callers : call[d].from \in Files
    BY DEF LoginType, Calls
  <2> QED BY <1>1, <2>1 DEF AskingInv
<1>5. OnePlace'
  BY <1>1 DEF OnePlace, At, Waiting, Asking, Brings, Signs
<1>6. NewInv'
  BY <1>1 DEF NewInv, Unused, Waiting, Brings, Signs
<1>7. SpentInv'
  BY <1>1 DEF SpentInv, Gone, Waiting, Asking
<1>8. RefreshTokenSentOnce'
  BY DEF RefreshTokenSentOnce
<1> QED BY <1>2, <1>3, <1>4, <1>5, <1>6, <1>7, <1>8

\* Calls that end without a new token: refused, served, late, failed or dead.
LEMMA EndingsKeep ==
  ASSUME LoginInv, NEW c \in Callers,
         Refused(c) \/ Served(c) \/ SharesRenewal(c) \/ GivesUp(c) \/ LockTimesOut(c) \/ Fails(c) \/ Crashes(c)
  PROVE  LoginInv'
<1>1. LoginType /\ call[c] \in Calls
  BY DEF LoginInv, LoginType
<1>2. CASE Refused(c) \/ Served(c) \/ SharesRenewal(c) \/ GivesUp(c) \/ LockTimesOut(c)
  <2>1. /\ call[c].at # "asking"
        /\ UNCHANGED <<shop, file, holder, minted, device, outside, sent, excused>>
    BY <1>2 DEF Refused, Served, SharesRenewal, GivesUp, LockTimesOut, Granted
  <2>2. \E result \in Results : End(c, result)
    BY <1>2 DEF Refused, Served, SharesRenewal, GivesUp, LockTimesOut, Results
  <2> QED BY <1>1, <2>1, <2>2, EndingKeeps DEF LoginType
<1>3. CASE Fails(c)
  <2>1. /\ call[c].at = "asking"
        /\ excused' = excused \cup {call[c].asked} /\ call[c].asked \in 0..MaxToken /\ call[c].asked # 0
        /\ holder' = [holder EXCEPT ![call[c].from] = "nobody"] /\ holder[call[c].from] = c
        /\ UNCHANGED <<shop, file, minted, device, outside, sent>>
    BY <1>1, <1>3 DEF Fails, Release, LoginInv, AskingInv, Calls
  <2>2. \E result \in Results : End(c, result)
    BY <1>3 DEF Fails, Results
  <2>3. call[c].asked \in Generations
    BY <2>1, LoginAssumption DEF Generations
  <2> QED BY <1>1, <2>1, <2>2, <2>3, EndingKeeps DEF LoginType
<1>4. CASE Crashes(c)
  <2>1. /\ End(c, "crashed")
        /\ excused' = excused \cup ({call[c].asked} \ {0}) /\ call[c].asked \in 0..MaxToken
        /\ call[c].at = "asking" => call[c].asked # 0
        /\ holder' = [f \in Files |-> IF holder[f] = c THEN "nobody" ELSE holder[f]]
        /\ UNCHANGED <<shop, file, minted, device, outside, sent>>
    BY <1>1, <1>4 DEF Crashes, LoginInv, AskingInv, Calls
  <2>2. {call[c].asked} \ {0} \subseteq Generations
    BY <2>1, LoginAssumption DEF Generations
  <2>3. excused' \subseteq Generations /\ (call[c].at = "asking" => call[c].asked \in excused')
    BY <1>1, <2>1, <2>2 DEF LoginType
  <2> QED BY <1>1, <2>1, <2>3, EndingKeeps DEF LoginType, Results
<1> QED BY <1>2, <1>3, <1>4

\* A call that waits holds the token it read from its file.
LEMMA WaitsKeeps ==
  ASSUME LoginInv, NEW c \in Callers, Waits(c)
  PROVE  LoginInv'
<1> USE LoginAssumption DEF LoginInv
<1> DEFINE token == file[Source].refresh
           waiting == [NoCall EXCEPT !.at = "waiting"]
           placed == [waiting EXCEPT !.from = Source]
           new == [placed EXCEPT !.kept = token]
<1>1. Source \in Files
  <2>1. Found # {} /\ Found \subseteq {1, 2} /\ Found \subseteq DOMAIN Places
    BY DEF Waits, Found, Places
  <2>2. \E i \in Found : \A j \in Found : i <= j
    <3>1. CASE 1 \in Found  BY <2>1, <3>1
    <3>2. CASE Found = {2}  BY <3>2
    <3> QED BY <2>1, <3>1, <3>2
  <2>3. \E i \in DOMAIN Places : Source = Places[i]
    BY <2>1, <2>2 DEF Source
  <2> QED BY <2>3 DEF Places, Files
<1>2. token \in 0..MaxToken /\ token # 0 /\ token <= minted
  BY <1>1 DEF Waits, LoginType, Documents, MintedInv
<1>3. /\ waiting \in Calls /\ waiting.at = "waiting" /\ waiting.asked = 0 /\ waiting.answer = NoAnswer
  BY NoCallIs DEF Calls, Results
<1>4. call' = [call EXCEPT ![c] = new]
  BY DEF Waits
<1> HIDE DEF waiting, token
<1>5. /\ placed \in Calls /\ placed.at = "waiting" /\ placed.asked = 0 /\ placed.answer = NoAnswer
      /\ placed.from = Source
  BY <1>1, <1>3 DEF Calls
<1> HIDE DEF placed
<1>6. /\ new \in Calls /\ new.at = "waiting" /\ new.asked = 0 /\ new.answer = NoAnswer
      /\ new.from = Source /\ new.kept = token
  BY <1>2, <1>5 DEF Calls
<1> HIDE DEF new
<1>7. /\ call' \in [Callers -> Calls]
      /\ call'[c].at = "waiting" /\ call'[c].kept = token /\ call'[c].asked = 0 /\ call'[c].answer.refresh = 0
      /\ call'[c].from = Source /\ call'[c].answer.kind = "none"
      /\ \A d \in Callers : d # c => call'[d] = call[d]
  BY <1>4, <1>6, NoCallIs DEF LoginType
<1>8. /\ call[c].at = "idle" /\ token = file[Source].refresh
      /\ UNCHANGED <<shop, file, holder, minted, device, outside, sent, excused>>
  BY DEF Waits, token
<1>9. LoginType'
  BY <1>7, <1>8 DEF LoginType
<1>10. MintedInv'
  BY <1>2, <1>7, <1>8 DEF MintedInv, LoginType
<1>11. AskingInv'
  BY <1>2, <1>7, <1>8, NoCallIs, <1>6 DEF AskingInv
<1>12. OnePlace'
  BY <1>7, <1>8 DEF OnePlace, At, Waiting, Asking, Brings, Signs
<1>13. NewInv'
  BY <1>1, <1>7, <1>8 DEF NewInv, Unused, Waiting, Brings, Signs
<1>14. SpentInv'
  BY <1>1, <1>2, <1>7, <1>8 DEF SpentInv, Gone, Waiting, Asking
<1>15. RefreshTokenSentOnce'
  BY <1>8 DEF RefreshTokenSentOnce
<1> QED BY <1>9, <1>10, <1>11, <1>12, <1>13, <1>14, <1>15

\* The token a call sends is one its file or the call itself holds.
LEMMA AsksKeeps ==
  ASSUME LoginInv, NEW c \in Callers, Asks(c)
  PROVE  LoginInv'
<1> USE LoginAssumption DEF LoginInv
<1> DEFINE f == call[c].from
           token == TokenToSend(c)
           asking == [call[c] EXCEPT !.at = "asking"]
           told == [asking EXCEPT !.asked = token]
           new == [told EXCEPT !.seen = file[f]]
<1>1. /\ f \in Files /\ file[f] \in Documents /\ call[c] \in Calls
  BY DEF LoginType, Calls
<1>2. /\ token # 0 /\ call[c].at = "waiting" /\ holder[f] = "nobody"
      /\ token = file[f].refresh \/ (token = call[c].kept /\ file[f].refresh = 0)
  BY DEF Asks, Granted, TokenToSend
<1>3. token \in Generations /\ token <= minted
  BY <1>1, <1>2 DEF Generations, Documents, Calls, MintedInv
<1>4. /\ call' = [call EXCEPT ![c] = new]
      /\ sent' = [sent EXCEPT ![token] = @ + 1]
      /\ holder' = [holder EXCEPT ![f] = c]
      /\ UNCHANGED <<shop, file, minted, device, outside, excused>>
  BY DEF Asks
<1> HIDE DEF f, token
<1>5. /\ asking \in Calls /\ asking.at = "asking" /\ asking.answer = call[c].answer
      /\ asking.from = f /\ asking.kept = call[c].kept
  BY <1>1 DEF Calls, f
<1> HIDE DEF asking
<1>6. /\ told \in Calls /\ told.at = "asking" /\ told.answer = call[c].answer
      /\ told.from = f /\ told.kept = call[c].kept /\ told.asked = token
  BY <1>3, <1>5 DEF Calls, Generations
<1> HIDE DEF told
<1>7. /\ new \in Calls /\ new.at = "asking" /\ new.answer = call[c].answer
      /\ new.from = f /\ new.kept = call[c].kept /\ new.asked = token
  BY <1>1, <1>6 DEF Calls
<1> HIDE DEF new
<1>8. /\ call' \in [Callers -> Calls]
      /\ call'[c].at = "asking" /\ call'[c].asked = token /\ call'[c].answer = call[c].answer
      /\ call'[c].from = call[c].from /\ call'[c].kept = call[c].kept
      /\ \A d \in Callers : d # c => call'[d] = call[d]
  BY <1>4, <1>7 DEF LoginType, f
<1>9. /\ sent' \in [Generations -> Nat] /\ sent'[token] = sent[token] + 1
      /\ \A g \in Generations : g # token => sent'[g] = sent[g]
  BY <1>3, <1>4 DEF LoginType
<1>10. At(f, token)
  BY <1>2 DEF At, Waiting, f
<1>11. \A d \in Callers : call[d].at = "asking" => call[d].from \in Files /\ call[d].from # f
  BY <1>2 DEF AskingInv, LoginType, Calls
<1>12. token \in excused \/ sent[token] = 0
  <2> SUFFICES ASSUME token \notin excused, sent[token] # 0 PROVE FALSE
    OBVIOUS
  <2>1. sent[token] >= 1
    BY <1>3 DEF LoginType
  <2>2. CASE Gone(token)
    BY <1>1, <1>2, <2>2 DEF Gone, Waiting, f
  <2>3. CASE \E d \in Callers : Asking(d, token)
    <3>1. PICK d \in Callers : Asking(d, token)
      BY <2>3
    <3>2. call[d].from \in Files /\ call[d].from # f /\ At(call[d].from, token)
      BY <1>11, <3>1 DEF At, Asking
    <3> QED BY <1>1, <1>3, <1>10, <3>2 DEF OnePlace, Files
  <2> QED BY <1>3, <2>1, <2>2, <2>3 DEF SpentInv
<1> QED
  <2>1. call[c].answer.kind = "none"
    BY <1>2 DEF AskingInv
  <2>2. LoginType'
    BY <1>1, <1>4, <1>8, <1>9 DEF LoginType
  <2>3. MintedInv'
    BY <1>3, <1>4, <1>8, <1>9 DEF MintedInv
  <2>4. AskingInv'
    <3>1. holder'[f] = c /\ \A e \in Files : e # f => holder'[e] = holder[e]
      BY <1>1, <1>4 DEF LoginType
    <3>2. \A g \in Generations : sent'[g] >= sent[g]
      BY <1>9 DEF LoginType
    <3>3. \A d \in Callers : call[d].at = "asking" => call[d].asked \in Generations
      BY DEF AskingInv, LoginType, Calls, Generations
    <3>4. sent'[token] >= 1
      BY <1>3, <1>9 DEF LoginType
    <3>5. \A d \in Callers : call[d].at = "asking" => sent'[call[d].asked] >= 1
      BY <1>9, <3>2, <3>3 DEF AskingInv, LoginType
    <3>6. \A d \in Callers : d # c =>
            /\ call'[d].at = "waiting" => call'[d].kept # 0 /\ call'[d].answer.kind = "none"
            /\ call'[d].at = "asking" =>
                 /\ holder'[call'[d].from] = d /\ call'[d].asked # 0 /\ sent'[call'[d].asked] >= 1
                 /\ call'[d].answer.kind = "ok" => call'[d].answer.refresh # 0
      BY <1>8, <1>11, <3>1, <3>5 DEF AskingInv
    <3> QED BY <1>2, <1>8, <2>1, <3>1, <3>4, <3>6 DEF AskingInv, f
  <2>5. OnePlace'
    <3>1. \A e \in Files, g \in Generations : At(e, g)' => At(e, g)
      BY <1>2, <1>4, <1>8, <1>10, <2>1 DEF At, Waiting, Asking, Brings, Signs, f
    <3> QED BY <1>4, <3>1 DEF OnePlace, Files
  <2>6. NewInv'
    <3>1. \A g \in Generations : Unused(g) => Unused(g)'
      BY <1>1, <1>2, <1>3, <1>4, <1>8, <1>9 DEF Unused, Waiting, f
    <3>2. \A d \in Callers, g \in Generations : Brings(d, g)' => Brings(d, g)
      BY <1>8, <2>1 DEF Brings
    <3>3. \A g \in Generations : Signs(g)' <=> Signs(g)
      BY <1>4 DEF Signs
    <3> HIDE DEF Unused, Brings, Signs
    <3> QED BY <1>4, <3>1, <3>2, <3>3 DEF NewInv
  <2>7. SpentInv'
    BY <1>2, <1>3, <1>4, <1>8, <1>9 DEF SpentInv, Gone, Waiting, Asking, f
  <2>8. RefreshTokenSentOnce'
    BY <1>3, <1>4, <1>9, <1>12 DEF RefreshTokenSentOnce, LoginType
  <2> QED BY <2>2, <2>3, <2>4, <2>5, <2>6, <2>7, <2>8

\* Nobody has a token that was not minted yet.
LEMMA NotYetMinted ==
  ASSUME LoginInv, NEW g \in Generations, g > minted
  PROVE  Unused(g) /\ ~Signs(g) /\ \A d \in Callers : ~Asking(d, g) /\ ~Brings(d, g)
<1> USE LoginAssumption DEF LoginInv
<1>1. g \in Nat /\ minted \in Nat /\ ~(g <= minted)
  BY DEF LoginType, Generations
<1>2. sent[g] = 0
  BY <1>1 DEF MintedInv, LoginType
<1>3. \A f \in Files : file[f].refresh # g
  BY <1>1 DEF MintedInv
<1>4. \A d \in Callers : call[d].kept # g /\ call[d].asked # g /\ call[d].answer.refresh # g
  BY <1>1 DEF MintedInv
<1>5. ~Signs(g)
  BY <1>1 DEF MintedInv, Signs
<1> QED BY <1>2, <1>3, <1>4, <1>5 DEF Unused, Waiting, Asking, Brings

(* The issuer's answer brings a token minted just now, one that is the     *)
(* excused token asked for, or none.                                       *)
LEMMA AnsweringKeeps ==
  ASSUME LoginInv, NEW c \in Callers, Asked(c), NEW answer \in Answers, Answering(c, answer),
         excused' \subseteq Generations, excused \subseteq excused',
         minted' \in 0..MaxToken, minted <= minted', answer.refresh <= minted',
         answer.kind = "ok" =>
           /\ answer.refresh # 0
           /\ answer.refresh > minted \/ answer.refresh \in excused',
         UNCHANGED <<shop, file, holder, device, outside, sent>>
  PROVE  LoginInv'
<1> USE LoginAssumption DEF LoginInv
<1> DEFINE new == [call[c] EXCEPT !.answer = answer]
<1>1. call[c] \in Calls /\ call[c].at = "asking"
  BY DEF LoginType, Asked
<1>2. call' = [call EXCEPT ![c] = new]
  BY DEF Answering
<1>3. /\ new \in Calls /\ new.at = "asking" /\ new.answer = answer
      /\ new.from = call[c].from /\ new.kept = call[c].kept /\ new.asked = call[c].asked
  BY <1>1 DEF Calls
<1> HIDE DEF new
<1>4. /\ call' \in [Callers -> Calls]
      /\ call'[c].at = "asking" /\ call'[c].asked = call[c].asked /\ call'[c].answer = answer
      /\ call'[c].from = call[c].from /\ call'[c].kept = call[c].kept
      /\ \A d \in Callers : d # c => call'[d] = call[d]
  BY <1>2, <1>3 DEF LoginType
<1>5. \A g \in Generations, d \in Callers : Brings(d, g)' => Brings(d, g) \/ g > minted \/ g \in excused'
  BY <1>4 DEF Brings
<1>6. \A g \in Generations : g > minted =>
        /\ Unused(g) /\ ~Signs(g)
        /\ \A d \in Callers : ~Asking(d, g) /\ ~Brings(d, g)
  BY NotYetMinted
<1>7. /\ \A g \in Generations, d \in Callers : (Waiting(d, g)' <=> Waiting(d, g)) /\ (Asking(d, g)' <=> Asking(d, g))
      /\ \A g \in Generations : Signs(g)' <=> Signs(g)
      /\ \A d \in Callers : call'[d].from = call[d].from
  BY <1>1, <1>4 DEF Waiting, Asking, Signs
<1>8. LoginType'
  BY <1>4 DEF LoginType
<1>9. MintedInv'
  <2>1. \A d \in Callers : call'[d].kept <= minted' /\ call'[d].asked <= minted' /\ call'[d].answer.refresh <= minted'
    BY <1>4, <1>8 DEF MintedInv, LoginType, Calls, Answers
  <2>2. \A f \in Files : file[f].refresh <= minted'
    BY DEF MintedInv, LoginType, Documents
  <2>3. device.at = "storing" => device.left \in 1..minted'
    BY DEF MintedInv, LoginType
  <2>4. \A g \in Generations : sent[g] > 0 => g <= minted'
    BY DEF MintedInv, LoginType, Generations
  <2> QED BY <2>1, <2>2, <2>3, <2>4 DEF MintedInv
<1>10. AskingInv'
  BY <1>1, <1>4 DEF AskingInv
<1>11. OnePlace'
  <2>1. \A e \in Files, g \in Generations : At(e, g)' => At(e, g) \/ g > minted \/ g \in excused'
    BY <1>5, <1>7 DEF At
  <2>2. \A g \in Generations : g > minted => ~(At("own", g)' /\ At("pi", g)')
    <3> SUFFICES ASSUME NEW g \in Generations, g > minted PROVE ~(At("own", g)' /\ At("pi", g)')
      OBVIOUS
    <3>1. \A e \in Files : At(e, g)' => e = call[c].from
      BY <1>4, <1>6, <1>7 DEF At, Unused, Waiting, Asking, Brings, Signs
    <3> QED BY <3>1 DEF Files
  <2> QED BY <2>1, <2>2 DEF OnePlace, Files
<1>12. NewInv'
  <2>1. \A g \in Generations : Unused(g) => Unused(g)'
    BY <1>7 DEF Unused
  <2> HIDE DEF Unused, Brings, Signs
  <2>2. \A g \in Generations \ excused' : Signs(g)' => Unused(g)'
    BY <2>1, <1>7 DEF NewInv
  <2>3. \A g \in Generations \ excused', d \in Callers : Brings(d, g)' => Unused(g)' /\ ~Signs(g)'
    BY <2>1, <1>5, <1>6, <1>7 DEF NewInv
  <2> QED BY <2>2, <2>3 DEF NewInv
<1>13. SpentInv'
  <2>1. \A g \in Generations : Gone(g) => Gone(g)'
    BY <1>7 DEF Gone
  <2>2. \A g \in Generations : (\E d \in Callers : Asking(d, g)) => \E d \in Callers : Asking(d, g)'
    BY <1>7
  <2> HIDE DEF Gone, Asking
  <2> QED BY <2>1, <2>2 DEF SpentInv
<1>14. RefreshTokenSentOnce'
  BY DEF RefreshTokenSentOnce
<1> QED BY <1>8, <1>9, <1>10, <1>11, <1>12, <1>13, <1>14

\* Whatever the issuer answers.
LEMMA IssuerKeepsInv ==
  ASSUME LoginInv, NEW c \in Callers, IssuerRotates(c) \/ IssuerKeeps(c) \/ IssuerRefuses(c)
  PROVE  LoginInv'
<1> USE LoginAssumption
<1> DEFINE none == [NoAnswer EXCEPT !.kind = "failed"]
           fresh == [kind |-> "ok", access |-> minted', refresh |-> minted']
           kept == [kind |-> "ok", access |-> minted', refresh |-> call[c].asked]
<1>1. none \in Answers /\ none.kind = "failed" /\ none.refresh = 0
  BY NoCallIs DEF Answers
<1>2. /\ call[c].asked \in Generations /\ call[c].asked <= minted
      /\ minted \in 0..MaxToken /\ excused \subseteq Generations
  BY DEF IssuerRotates, IssuerKeeps, IssuerRefuses, Asked, LoginInv, LoginType, Calls, AskingInv, MintedInv,
         Generations
<1>3. UNCHANGED <<shop, file, holder, device, outside, sent>> /\ Asked(c)
  BY DEF IssuerRotates, IssuerKeeps, IssuerRefuses
<1>4. CASE IssuerRotates(c)
  <2>1. minted' = minted + 1 /\ minted' \in 0..MaxToken /\ fresh \in Answers /\ fresh.kind = "ok" /\ fresh.refresh = minted'
    BY <1>2, <1>4 DEF IssuerRotates, Answers
  <2> HIDE DEF none, fresh
  <2>2. \/ Answering(c, fresh) /\ excused' = excused
        \/ Answering(c, none) /\ excused' = excused \cup {call[c].asked}
    BY <1>4 DEF IssuerRotates, none, fresh
  <2>3. CASE Answering(c, fresh) /\ excused' = excused
    BY <1>2, <1>3, <2>1, <2>3, AnsweringKeeps
  <2>4. CASE Answering(c, none) /\ excused' = excused \cup {call[c].asked}
    BY <1>1, <1>2, <1>3, <2>1, <2>4, AnsweringKeeps
  <2> QED BY <2>2, <2>3, <2>4
<1>5. CASE IssuerKeeps(c)
  <2>1. /\ minted' = minted + 1 /\ minted' \in 0..MaxToken /\ excused' = excused \cup {call[c].asked}
        /\ kept \in Answers /\ kept.kind = "ok" /\ kept.refresh = call[c].asked
    BY <1>2, <1>5 DEF IssuerKeeps, Answers, Generations
  <2> HIDE DEF none, kept
  <2>2. Answering(c, none) \/ Answering(c, kept)
    BY <1>5 DEF IssuerKeeps, none, kept
  <2>3. kept.refresh # 0 /\ kept.refresh <= minted' /\ kept.refresh \in excused'
    BY <1>2, <2>1 DEF Generations
  <2>4. CASE Answering(c, none)
    BY <1>1, <1>2, <1>3, <2>1, <2>4, AnsweringKeeps
  <2>5. CASE Answering(c, kept)
    BY <1>2, <1>3, <2>1, <2>3, <2>5, AnsweringKeeps
  <2> QED BY <2>2, <2>4, <2>5
<1>6. CASE IssuerRefuses(c)
  <2>1. /\ minted' = minted /\ excused' = excused \cup {call[c].asked}
        /\ Answering(c, none)
    BY <1>6 DEF IssuerRefuses
  <2> HIDE DEF none
  <2> QED BY <1>1, <1>2, <1>3, <2>1, AnsweringKeeps
<1> QED BY <1>4, <1>5, <1>6

(* The exchange's tokens are stored: the file's token is replaced, and the *)
(* one that was sent is nowhere any more.                                  *)
LEMMA StoresKeeps ==
  ASSUME LoginInv, NEW c \in Callers, Stores(c)
  PROVE  LoginInv'
<1> USE LoginAssumption DEF LoginInv
<1> DEFINE f == call[c].from
           h == call[c].answer.refresh
           base == IF shop = "xai" THEN call[c].seen ELSE file[f]
           formed == [base EXCEPT !.form = "object"]
           opened == [formed EXCEPT !.access = call[c].answer.access]
           new == [opened EXCEPT !.refresh = h]
<1>1. /\ f \in Files /\ call[c] \in Calls /\ call[c].at = "asking" /\ call[c].answer.kind = "ok"
      /\ call[c].answer \in Answers /\ h \in Generations /\ h <= minted /\ call[c].asked \in Generations
      /\ holder[f] = c
  BY DEF Stores, LoginType, Calls, Answers, AskingInv, Generations, MintedInv
<1>2. base \in Documents
  BY <1>1 DEF LoginType, Calls
<1>3. /\ file' = [file EXCEPT ![f] = new] /\ End(c, "token") /\ holder' = [holder EXCEPT ![f] = "nobody"]
      /\ UNCHANGED <<minted, device, outside, sent, excused>>
  BY DEF Stores, Stored, Release
<1> HIDE DEF base
<1>4. formed \in Documents
  BY <1>2 DEF Documents
<1> HIDE DEF formed
<1>5. opened \in Documents
  BY <1>1, <1>4 DEF Documents, Answers
<1> HIDE DEF opened
<1>6. new \in Documents /\ new.refresh = h
  BY <1>1, <1>5 DEF Documents, Generations
<1> HIDE DEF new
<1>7. /\ call' \in [Callers -> Calls]
      /\ call'[c].at = "over" /\ call'[c].kept = 0 /\ call'[c].asked = 0 /\ call'[c].answer.refresh = 0
      /\ \A d \in Callers : d # c => call'[d] = call[d]
  BY <1>3, Ended DEF Results
<1>8. /\ file' \in [Files -> Documents] /\ file'[f].refresh = h
      /\ \A e \in Files : e # f => file'[e] = file[e]
  BY <1>1, <1>3, <1>6 DEF LoginType
<1>9. Brings(c, h) /\ Asking(c, call[c].asked) /\ sent[call[c].asked] >= 1 /\ h # 0
  BY <1>1 DEF Brings, Asking, AskingInv, Generations
<1>10. \A d \in Callers : call[d].at = "asking" /\ d # c => call[d].from \in Files /\ call[d].from # f
  BY <1>1 DEF AskingInv, LoginType, Calls
<1>11. /\ \A g \in Generations, d \in Callers : (Waiting(d, g)' => Waiting(d, g)) /\ (Brings(d, g)' => Brings(d, g) /\ d # c)
       /\ \A g \in Generations : Signs(g)' <=> Signs(g)
  BY <1>3, <1>7 DEF Waiting, Brings, Signs
<1>12. h \notin excused => sent[h] = 0
  BY <1>1, <1>9 DEF NewInv, Unused
<1>13. LoginType'
  BY <1>1, <1>3, <1>7, <1>8 DEF LoginType
<1>14. MintedInv'
  BY <1>1, <1>3, <1>7, <1>8 DEF MintedInv, LoginType
<1>15. AskingInv'
  <2>1. \A e \in Files : e # f => holder'[e] = holder[e]
    BY <1>3 DEF LoginType
  <2> QED BY <1>3, <1>7, <1>10, <2>1 DEF AskingInv
<1>16. OnePlace'
  <2>1. \A e \in Files, g \in Generations : At(e, g)' => At(e, g)
    BY <1>1, <1>3, <1>7, <1>8, <1>9 DEF At, Waiting, Asking, Brings, Signs
  <2> QED BY <1>3, <2>1 DEF OnePlace, Files
<1>17. NewInv'
  <2>1. \A g \in Generations : Unused(g) /\ g # h => Unused(g)'
    BY <1>1, <1>3, <1>8, <1>11 DEF Unused
  <2>2. h \notin excused => ~Signs(h)
    BY <1>1, <1>9 DEF NewInv
  <2>3. h \notin excused => \A d \in Callers : d # c => ~Brings(d, h)
    <3> SUFFICES ASSUME h \notin excused, NEW d \in Callers, d # c, Brings(d, h) PROVE FALSE
      OBVIOUS
    <3>1. call[d].from \in Files /\ call[d].from # f
      BY <1>10 DEF Brings
    <3>2. At(call[d].from, h) /\ At(f, h)
      BY <1>9 DEF At
    <3> QED BY <1>1, <3>1, <3>2 DEF OnePlace, Files
  <2> HIDE DEF h
  <2> QED BY <1>1, <1>3, <1>11, <2>1, <2>2, <2>3 DEF NewInv
<1>18. SpentInv'
  <2> SUFFICES ASSUME NEW g \in Generations, g \notin excused, sent[g] >= 1, \A d \in Callers : ~Asking(d, g)'
               PROVE  Gone(g)'
    BY <1>3 DEF SpentInv
  <2>1. g # h
    BY <1>12
  <2>2. \A d \in Callers : Waiting(d, g)' => Waiting(d, g) /\ call'[d].from = call[d].from
    BY <1>7 DEF Waiting
  <2>3. CASE g = call[c].asked
    <3>1. \A e \in Files : e # f => ~At(e, g)
      BY <1>1, <1>9, <2>3 DEF OnePlace, At, Files
    <3>2. \A e \in Files : file'[e].refresh # g
      BY <1>8, <2>1, <3>1 DEF At
    <3>3. \A d \in Callers : Waiting(d, g) => call[d].from = f
      BY <3>1 DEF At, LoginType, Calls
    <3> QED BY <1>8, <1>9, <2>2, <3>2, <3>3 DEF Gone
  <2>4. CASE g # call[c].asked
    <3>1. \A d \in Callers : ~Asking(d, g)
      BY <1>7, <2>4 DEF Asking
    <3>2. Gone(g)
      BY <3>1 DEF SpentInv
    <3>3. \A e \in Files : file'[e].refresh # g
      BY <1>8, <2>1, <3>2 DEF Gone
    <3>4. \A d \in Callers : Waiting(d, g) => call[d].from \in Files /\ file'[call[d].from].refresh # 0
      BY <1>8, <1>9, <3>2 DEF Gone, LoginType, Calls
    <3> QED BY <2>2, <3>3, <3>4 DEF Gone
  <2> QED BY <2>3, <2>4
<1>19. RefreshTokenSentOnce'
  BY <1>3 DEF RefreshTokenSentOnce
<1> QED BY <1>13, <1>14, <1>15, <1>16, <1>17, <1>18, <1>19

\* Steps that only the clock, the issuer or another scene takes.
LEMMA OthersKeep ==
  ASSUME LoginInv, UNCHANGED <<file, holder, call, minted, device, outside, sent, excused>>
  PROVE  LoginInv'
BY DEF LoginInv, LoginType, MintedInv, AskingInv, OnePlace, NewInv, SpentInv, RefreshTokenSentOnce, Unused, Gone,
       At, Waiting, Asking, Brings, Signs

(* A file is rewritten outside of the calls: what it then holds, and what  *)
(* calls hold that wait for it, is excused.                                *)
LEMMA RewritingKeeps ==
  ASSUME LoginInv, NEW f \in Files, file' \in [Files -> Documents],
         \A e \in Files : e # f => file'[e] = file[e],
         file'[f].refresh <= minted, file'[f].refresh # 0 => file'[f].refresh \in excused',
         excused \subseteq excused', excused' \subseteq Generations, HeldFrom(f) \subseteq excused',
         outside' \in Nat,
         UNCHANGED <<holder, call, minted, device, sent>>
  PROVE  LoginInv'
<1> USE LoginAssumption DEF LoginInv
<1>1. \A g \in Generations : g \notin excused' => g \notin excused /\ file'[f].refresh # g
  BY DEF Generations
<1>2. \A g \in Generations, d \in Callers : g \notin excused' /\ Waiting(d, g) => call[d].from # f
  BY DEF HeldFrom, Waiting
<1>3. LoginType'
  BY DEF LoginType
<1>4. MintedInv'
  BY DEF MintedInv, LoginType
<1>5. AskingInv'
  BY DEF AskingInv
<1>6. OnePlace'
  <2>1. \A e \in Files, g \in Generations : g \notin excused' /\ At(e, g)' => At(e, g)
    BY <1>1 DEF At, Waiting, Asking, Brings, Signs
  <2> QED BY <1>1, <2>1 DEF OnePlace, Files
<1>7. NewInv'
  <2>1. \A g \in Generations : g \notin excused' /\ Unused(g) => Unused(g)'
    BY <1>1 DEF Unused, Waiting
  <2>2. \A g \in Generations, d \in Callers : (Brings(d, g)' <=> Brings(d, g)) /\ (Signs(g)' <=> Signs(g))
    BY DEF Brings, Signs
  <2>3. \A g \in Generations : Signs(g)' <=> Signs(g)
    BY DEF Signs
  <2> HIDE DEF Unused, Brings, Signs
  <2> QED BY <1>1, <2>1, <2>2, <2>3 DEF NewInv
<1>8. SpentInv'
  <2>1. \A g \in Generations : g \notin excused' /\ Gone(g) => Gone(g)'
    BY <1>1, <1>2 DEF Gone, Waiting, LoginType, Calls
  <2>2. \A g \in Generations, d \in Callers : Asking(d, g)' <=> Asking(d, g)
    BY DEF Asking
  <2> HIDE DEF Gone, Asking
  <2> QED BY <1>1, <2>1, <2>2 DEF SpentInv
<1>9. RefreshTokenSentOnce'
  BY DEF RefreshTokenSentOnce
<1> QED BY <1>3, <1>4, <1>5, <1>6, <1>7, <1>8, <1>9

\* A call that waits holds a token, not nothing.
LEMMA HeldIsAToken ==
  ASSUME LoginInv, NEW f \in Files
  PROVE  HeldFrom(f) \subseteq Generations
BY LoginAssumption DEF HeldFrom, LoginInv, LoginType, Calls, AskingInv, Generations

\* The tool that owns the file writes it.
LEMMA OutsideKeeps ==
  ASSUME LoginInv, OutsideWrites
  PROVE  LoginInv'
<1> USE LoginAssumption
<1>1. PICK f \in Tools :
        /\ \/ \E g \in 1..minted, kept \in BOOLEAN :
                file' = [file EXCEPT ![f] =
                  [Document(g, IF kept THEN g ELSE 0) EXCEPT !.others = outside']]
           \/ file' = [file EXCEPT ![f] = Missing]
           \/ file' = [file EXCEPT ![f] = [Missing EXCEPT !.form = "broken"]]
        /\ excused' = excused \cup HeldFrom(f) \cup ({file'[f].refresh} \ {0})
  BY DEF OutsideWrites
<1>2. f \in Files
  BY DEF Tools, Files
<1>3. /\ outside' = outside + 1 /\ UNCHANGED <<holder, call, minted, device, sent>>
      /\ outside' \in Nat /\ minted \in 0..MaxToken /\ file \in [Files -> Documents] /\ excused \subseteq Generations
  BY DEF OutsideWrites, LoginInv, LoginType
<1>4. PICK document \in Documents : document.refresh <= minted /\ file' = [file EXCEPT ![f] = document]
  <2>1. CASE file' = [file EXCEPT ![f] = Missing]
    <3>1. Missing \in Documents /\ Missing.refresh <= minted
      BY <1>3, NoCallIs
    <3> QED BY <2>1, <3>1
  <2>2. CASE file' = [file EXCEPT ![f] = [Missing EXCEPT !.form = "broken"]]
    <3> DEFINE broken == [Missing EXCEPT !.form = "broken"]
    <3>1. broken \in Documents /\ broken.refresh = 0
      BY NoCallIs DEF Documents
    <3>2. file' = [file EXCEPT ![f] = broken]
      BY <2>2
    <3> HIDE DEF broken
    <3>3. broken.refresh <= minted
      BY <1>3, <3>1
    <3> QED BY <3>1, <3>2, <3>3
  <2>3. CASE \E g \in 1..minted, kept \in BOOLEAN :
               file' = [file EXCEPT ![f] = [Document(g, IF kept THEN g ELSE 0) EXCEPT !.others = outside']]
    <3>1. PICK g \in 1..minted, kept \in BOOLEAN :
            file' = [file EXCEPT ![f] = [Document(g, IF kept THEN g ELSE 0) EXCEPT !.others = outside']]
      BY <2>3
    <3> DEFINE refresh == IF kept THEN g ELSE 0
               plain == Document(g, refresh)
               written == [plain EXCEPT !.others = outside']
    <3>2. refresh \in 0..MaxToken /\ refresh <= minted /\ g \in Nat
      BY <1>3
    <3>3. file' = [file EXCEPT ![f] = written]
      BY <3>1
    <3> HIDE DEF refresh
    <3>4. plain \in Documents /\ plain.refresh = refresh
      BY <3>2 DEF Document, Documents
    <3> HIDE DEF plain
    <3>5. written \in Documents /\ written.refresh = refresh
      BY <1>3, <3>4 DEF Documents
    <3> HIDE DEF written
    <3> QED BY <3>2, <3>3, <3>5
  <2> QED BY <1>1, <2>1, <2>2, <2>3
<1>5. /\ file' \in [Files -> Documents] /\ file'[f] = document /\ \A e \in Files : e # f => file'[e] = file[e]
  BY <1>2, <1>3, <1>4
<1>6. document.refresh \in 0..MaxToken
  BY <1>4 DEF Documents
<1>7. HeldFrom(f) \subseteq Generations
  BY <1>2, HeldIsAToken
<1>8. excused' \subseteq Generations /\ (file'[f].refresh # 0 => file'[f].refresh \in excused')
  BY <1>1, <1>3, <1>5, <1>6, <1>7 DEF Generations
<1> QED BY <1>1, <1>2, <1>3, <1>4, <1>5, <1>8, RewritingKeeps

\* The managed store signs the provider out.
LEMMA SigningOutKeeps ==
  ASSUME LoginInv, ManagerSignsOut
  PROVE  LoginInv'
<1> USE LoginAssumption
<1> DEFINE cleared == [file["own"] EXCEPT !.access = 0]
           emptied == [cleared EXCEPT !.refresh = 0]
           marked == [emptied EXCEPT !.loggedOut = TRUE]
<1>1. /\ file \in [Files -> Documents] /\ "own" \in Files /\ minted \in 0..MaxToken /\ outside \in Nat
      /\ excused \subseteq Generations
  BY DEF LoginInv, LoginType, Files
<1>2. cleared \in Documents
  BY <1>1 DEF Documents
<1>3. /\ file' = [file EXCEPT !["own"] = marked] /\ excused' = excused \cup HeldFrom("own")
      /\ UNCHANGED <<holder, call, minted, device, outside, sent>>
  BY DEF ManagerSignsOut
<1> HIDE DEF cleared
<1>4. emptied \in Documents /\ emptied.refresh = 0
  BY <1>2 DEF Documents
<1> HIDE DEF emptied
<1>5. marked \in Documents /\ marked.refresh = 0
  BY <1>4 DEF Documents
<1> HIDE DEF marked
<1>6. /\ file' \in [Files -> Documents] /\ file'["own"].refresh = 0
      /\ \A e \in Files : e # "own" => file'[e] = file[e]
  BY <1>1, <1>3, <1>5
<1>7. HeldFrom("own") \subseteq Generations
  BY <1>1, HeldIsAToken
<1> QED BY <1>1, <1>3, <1>6, <1>7, RewritingKeeps

\* A device sign-in ends, or gets a token minted just now.
LEMMA SigningInKeeps ==
  ASSUME LoginInv, DeviceStarts \/ DevicePolls
  PROVE  LoginInv'
<1> USE LoginAssumption DEF LoginInv
<1>1. UNCHANGED <<file, holder, call, outside, sent, excused>>
  BY DEF DeviceStarts, DevicePolls
<1>2. /\ minted' \in 0..MaxToken /\ minted' >= minted /\ device' \in Devices
      /\ device'.at = "storing" => device'.left = minted' /\ minted' = minted + 1
  <2>1. device \in Devices /\ minted \in 0..MaxToken /\ DeviceOver \in Devices /\ DeviceOver.at = "over"
    BY DEF LoginType, DeviceOver, Devices
  <2>2. CASE DeviceStarts
    <3> DEFINE polling == [device EXCEPT !.at = "polling"]
               started == [polling EXCEPT !.left = MaxPolls]
    <3>1. (device' = started \/ device' = DeviceOver) /\ minted' = minted
      BY <2>2 DEF DeviceStarts
    <3>2. polling \in Devices /\ polling.at = "polling"
      BY <2>1 DEF Devices
    <3> HIDE DEF polling
    <3>3. started \in Devices /\ started.at = "polling"
      BY <3>2 DEF Devices
    <3> HIDE DEF started
    <3> QED BY <2>1, <3>1, <3>3
  <2>3. CASE DevicePolls
    <3> DEFINE left == IF device.interval < device.left THEN device.left - device.interval ELSE 0
               ticking == [device EXCEPT !.left = left]
               slower == [ticking EXCEPT !.interval = @ + 1]
               granted == [device EXCEPT !.at = "storing"]
               storing == [granted EXCEPT !.left = minted']
    <3>1. left \in Nat
      BY <2>1 DEF Devices
    <3>2. \/ device' = DeviceOver /\ minted' = minted
          \/ device' = ticking /\ minted' = minted
          \/ device' = slower /\ minted' = minted
          \/ minted < MaxToken /\ minted' = minted + 1 /\ device' = storing
      BY <2>3 DEF DevicePolls
    <3> HIDE DEF left
    <3>3. ticking \in Devices /\ ticking.at = "polling"
      BY <2>1, <2>3, <3>1 DEF Devices, DevicePolls
    <3> HIDE DEF ticking
    <3>4. slower \in Devices /\ slower.at = "polling"
      BY <3>3 DEF Devices
    <3>5. granted \in Devices /\ granted.at = "storing"
      BY <2>1 DEF Devices
    <3> HIDE DEF slower, granted
    <3>6. minted' = minted + 1 => storing \in Devices /\ storing.left = minted'
      BY <2>1, <3>5 DEF Devices
    <3> HIDE DEF storing
    <3> QED BY <2>1, <3>2, <3>3, <3>4, <3>6
  <2> QED BY <2>2, <2>3
<1>3. \A g \in Generations : Signs(g)' => g > minted
  BY <1>2 DEF Signs, LoginType
<1>4. \A g \in Generations, d \in Callers :
        /\ Waiting(d, g)' <=> Waiting(d, g)
        /\ Asking(d, g)' <=> Asking(d, g)
        /\ Brings(d, g)' <=> Brings(d, g)
  BY <1>1 DEF Waiting, Asking, Brings
<1>5. \A g \in Generations : Unused(g)' <=> Unused(g)
  BY <1>1, <1>4 DEF Unused
<1>6. \A g \in Generations : Gone(g)' <=> Gone(g)
  BY <1>1, <1>4 DEF Gone
<1>7. LoginType'
  BY <1>1, <1>2 DEF LoginType
<1>8. MintedInv'
  <2>1. \A d \in Callers : call[d].kept \in Nat /\ call[d].asked \in Nat /\ call[d].answer.refresh \in Nat
    BY DEF LoginType, Calls, Answers
  <2>2. \A f \in Files : file[f].refresh \in Nat
    BY DEF LoginType, Documents
  <2> QED BY <1>1, <1>2, <2>1, <2>2 DEF MintedInv, LoginType, Generations
<1>9. AskingInv'
  BY <1>1 DEF AskingInv
<1>10. OnePlace'
  <2> SUFFICES ASSUME NEW g \in Generations, g \notin excused PROVE ~(At("own", g)' /\ At("pi", g)')
    BY <1>1 DEF OnePlace
  <2>1. CASE Signs(g)'
    <3>1. Unused(g) /\ \A d \in Callers : ~Asking(d, g) /\ ~Brings(d, g)
      BY <1>3, <2>1, NotYetMinted
    <3> QED BY <1>1, <1>4, <3>1 DEF At, Unused, Files
  <2>2. CASE ~Signs(g)'
    BY <1>1, <1>4, <2>2 DEF OnePlace, At, Files
  <2> QED BY <2>1, <2>2
<1>11. NewInv'
  <2> HIDE DEF Unused, Brings, Signs, LoginInv
  <2>1. \A g \in Generations : Signs(g)' => Unused(g) /\ \A d \in Callers : ~Brings(d, g)
    BY <1>3, NotYetMinted
  <2> QED BY <1>1, <1>4, <1>5, <2>1 DEF NewInv, LoginInv
<1>12. SpentInv'
  <2> HIDE DEF Gone, Asking
  <2> QED BY <1>1, <1>4, <1>6 DEF SpentInv
<1>13. RefreshTokenSentOnce'
  BY <1>1 DEF RefreshTokenSentOnce
<1> QED BY <1>7, <1>8, <1>9, <1>10, <1>11, <1>12, <1>13

\* A device sign-in stores a token that nobody has sent or read.
LEMMA DeviceStoresKeeps ==
  ASSUME LoginInv, DeviceStores
  PROVE  LoginInv'
<1> USE LoginAssumption DEF LoginInv
<1> DEFINE h == device.left
           formed == [file["own"] EXCEPT !.form = "object"]
           opened == [formed EXCEPT !.access = h]
<1>1. /\ device.at = "storing" /\ holder["own"] = "nobody" /\ device' = DeviceOver
      /\ UNCHANGED <<holder, call, minted, outside, sent, excused>>
      /\ h \in Generations /\ h <= minted /\ h \in Nat /\ Signs(h)
      /\ "own" \in Files /\ file["own"] \in Documents /\ file["own"].refresh <= minted
  BY DEF DeviceStores, MintedInv, LoginType, Generations, Signs, Files
<1>2. PICK refresh \in {h, file["own"].refresh} :
        file' = [file EXCEPT !["own"] = [opened EXCEPT !.refresh = refresh]]
  BY DEF DeviceStores
<1> DEFINE new == [opened EXCEPT !.refresh = refresh]
<1>3. formed \in Documents
  BY <1>1 DEF Documents
<1> HIDE DEF formed
<1>4. opened \in Documents
  BY <1>1, <1>3 DEF Documents
<1> HIDE DEF opened
<1>5. refresh \in 0..MaxToken /\ refresh <= minted
  BY <1>1 DEF Documents, Generations
<1>6. new \in Documents /\ new.refresh = refresh
  BY <1>4, <1>5 DEF Documents
<1>7. file' = [file EXCEPT !["own"] = new]
  BY <1>2
<1> HIDE DEF new
<1>8. /\ file' \in [Files -> Documents] /\ file'["own"].refresh = refresh
      /\ \A e \in Files : e # "own" => file'[e] = file[e]
  BY <1>1, <1>6, <1>7 DEF LoginType
<1>9. DeviceOver \in Devices /\ \A g \in Generations : ~Signs(g)'
  BY <1>1 DEF DeviceOver, Devices, Signs
<1>10. \A g \in Generations, d \in Callers :
         /\ Waiting(d, g)' <=> Waiting(d, g)
         /\ Asking(d, g)' <=> Asking(d, g)
         /\ Brings(d, g)' <=> Brings(d, g)
  BY <1>1 DEF Waiting, Asking, Brings
<1>11. \A g \in Generations : refresh = g => g = h \/ file["own"].refresh = g
  BY <1>2
<1>12. LoginType'
  BY <1>1, <1>8, <1>9 DEF LoginType
<1>13. MintedInv'
  <2>1. \A f \in Files : file'[f].refresh <= minted
    BY <1>5, <1>8 DEF MintedInv
  <2>2. device'.at # "storing"
    BY <1>1 DEF DeviceOver
  <2> QED BY <1>1, <2>1, <2>2 DEF MintedInv
<1>14. AskingInv'
  BY <1>1 DEF AskingInv
<1>15. OnePlace'
  <2>1. \A e \in Files, g \in Generations : At(e, g)' => At(e, g)
    BY <1>1, <1>8, <1>9, <1>10, <1>11 DEF At
  <2> QED BY <1>1, <2>1 DEF OnePlace, Files
<1>16. NewInv'
  <2>1. \A g \in Generations : Unused(g) /\ g # h => Unused(g)'
    BY <1>1, <1>8, <1>10, <1>11 DEF Unused
  <2>2. \A g \in Generations \ excused, d \in Callers : Brings(d, g) => g # h /\ Unused(g)
    BY <1>1 DEF NewInv
  <2> HIDE DEF Unused, Brings, Signs
  <2> QED BY <1>1, <1>9, <1>10, <2>1, <2>2 DEF NewInv
<1>17. SpentInv'
  <2>1. \A g \in Generations : Gone(g) /\ g # h => Gone(g)'
    <3> SUFFICES ASSUME NEW g \in Generations, Gone(g), g # h PROVE Gone(g)'
      OBVIOUS
    <3>1. \A f \in Files : file'[f].refresh # g
      BY <1>8, <1>11 DEF Gone
    <3>2. \A d \in Callers : call[d].from \in Files
      BY DEF LoginType, Calls
    <3>3. \A f \in Files : file[f].refresh # 0 => file'[f].refresh # 0
      BY <1>1, <1>2, <1>8 DEF Generations
    <3> QED BY <1>1, <1>10, <3>1, <3>2, <3>3 DEF Gone
  <2>2. h \notin excused => sent[h] = 0
    BY <1>1 DEF NewInv, Unused
  <2> HIDE DEF Gone, Asking
  <2> QED BY <1>1, <1>10, <2>1, <2>2 DEF SpentInv
<1>18. RefreshTokenSentOnce'
  BY <1>1 DEF RefreshTokenSentOnce
<1> QED BY <1>12, <1>13, <1>14, <1>15, <1>16, <1>17, <1>18

\* So every step of a stored login keeps the invariant.
LEMMA LoginStep ==
  ASSUME LoginInv, LoginNext
  PROVE  LoginInv'
<1>1. CASE \E c \in Callers :
        \/ Refused(c) \/ Served(c) \/ Waits(c)
        \/ SharesRenewal(c) \/ GivesUp(c) \/ Asks(c) \/ LockTimesOut(c)
        \/ IssuerRotates(c) \/ IssuerKeeps(c) \/ IssuerRefuses(c)
        \/ Stores(c) \/ Fails(c) \/ Crashes(c)
  BY <1>1, EndingsKeep, WaitsKeeps, AsksKeeps, IssuerKeepsInv, StoresKeeps
<1>2. CASE Ages
  BY <1>2, OthersKeep DEF Ages
<1>3. CASE OutsideWrites \/ ManagerSignsOut
  BY <1>3, OutsideKeeps, SigningOutKeeps
<1>4. CASE DeviceStarts \/ DevicePolls \/ DeviceStores
  BY <1>4, SigningInKeeps, DeviceStoresKeeps
<1> QED BY <1>1, <1>2, <1>3, <1>4 DEF LoginNext

-----------------------------------------------------------------------------
(* The initial states: nobody has called, two logins were minted, and no   *)
(* two files have the same one.                                            *)

\* Such a state satisfies the invariant.
LEMMA Beginning ==
  ASSUME file \in [Files -> Documents], \A f \in Files : file[f].refresh \in {0, 1, 2},
         file["own"].refresh = file["pi"].refresh => file["own"].refresh = 0,
         holder = [f \in Files |-> "nobody"], call = [c \in Callers |-> NoCall], minted = 2, outside = 0,
         device = [at |-> "idle", left |-> 0, interval |-> 1],
         sent = [g \in Generations |-> 0], excused = {}
  PROVE  LoginInv
<1> USE LoginAssumption
<1>1. \A c \in Callers : call[c] = NoCall
  OBVIOUS
<1>2. \A g \in Generations : sent[g] = 0 /\ g # 0
  BY DEF Generations
<1>3. device \in Devices /\ device.at = "idle"
  BY DEF Devices
<1>4. /\ \A c \in Callers : /\ call[c].at = "idle" /\ call[c].kept = 0 /\ call[c].asked = 0
                            /\ call[c].answer.refresh = 0
      /\ call \in [Callers -> Calls]
  BY <1>1, NoCallIs
<1>5. \A g \in Generations, c \in Callers : ~Waiting(c, g) /\ ~Asking(c, g) /\ ~Brings(c, g) /\ ~Signs(g)
  BY <1>3, <1>4 DEF Waiting, Asking, Brings, Signs
<1>6. LoginType
  BY <1>3, <1>4 DEF LoginType
<1>7. MintedInv
  BY <1>2, <1>3, <1>4 DEF MintedInv
<1>8. AskingInv
  BY <1>4 DEF AskingInv
<1>9. OnePlace
  <2>1. \A g \in Generations, f \in Files : At(f, g) => file[f].refresh = g
    BY <1>3, <1>5 DEF At, Signs
  <2> QED BY <1>2, <2>1 DEF OnePlace, Files
<1>10. NewInv
  BY <1>3, <1>5 DEF NewInv, Signs
<1>11. SpentInv /\ RefreshTokenSentOnce
  BY <1>2 DEF SpentInv, RefreshTokenSentOnce
<1> QED BY <1>6, <1>7, <1>8, <1>9, <1>10, <1>11 DEF LoginInv

\* It holds in the beginning, in the other scenes too.
LEMMA LoginBegins == LoginInit \/ LoginIdle => LoginInv
<1> USE LoginAssumption
<1>1. ASSUME NEW access \in Nat, NEW refresh \in 0..MaxToken
      PROVE  /\ Document(access, refresh) \in Documents
             /\ Document(access, refresh).refresh = refresh /\ Document(access, refresh).access = access
  BY DEF Document, Documents
<1>2. {0, 1, 2} \subseteq 0..MaxToken
  OBVIOUS
<1>3. Missing \in Documents /\ Missing.refresh = 0 /\ Missing.access = 0
  BY NoCallIs DEF Missing
<1>4. "own" \in Files /\ "pi" \in Files
  BY DEF Files
<1>5. ASSUME LoginIdle PROVE LoginInv
  BY <1>3, <1>4, <1>5, Beginning DEF LoginIdle
<1>6. ASSUME LoginInit PROVE LoginInv
  <2>1. /\ file \in [Files -> {Missing, Document(1, 1), Document(2, 2), Document(2, 0)}]
        /\ file["own"].access # 2 /\ file["pi"].access \in {0, 2}
    BY <1>6 DEF LoginInit
  <2> HIDE DEF Document, Missing
  <2>2. /\ Document(1, 1) \in Documents /\ Document(1, 1).refresh = 1 /\ Document(1, 1).access = 1
        /\ Document(2, 2) \in Documents /\ Document(2, 2).refresh = 2 /\ Document(2, 2).access = 2
        /\ Document(2, 0) \in Documents /\ Document(2, 0).refresh = 0 /\ Document(2, 0).access = 2
    BY <1>1, <1>2
  <2>3. file \in [Files -> Documents] /\ \A f \in Files : file[f].refresh \in {0, 1, 2}
    BY <1>3, <2>1, <2>2
  <2>4. file["own"].refresh \in {0, 1} /\ file["pi"].refresh \in {0, 2}
    BY <1>3, <1>4, <2>1, <2>2
  <2> QED BY <1>6, <2>3, <2>4, Beginning DEF LoginInit
<1> QED BY <1>5, <1>6

(* A refresh token is spent by one exchange (auth/stores.ts): however many *)
(* calls find the same expired login, its token is sent once, unless an    *)
(* answer was refused or lost, a process died, a write failed, or the      *)
(* login was replaced or removed under a waiting call.                     *)
THEOREM TokensAreSentOnce == Spec => []RefreshTokenSentOnce
<1>1. Init => LoginInv
  BY LoginBegins DEF Init
<1>2. LoginInv /\ [Next]_credentialVars => LoginInv'
  <2> SUFFICES ASSUME LoginInv, [Next]_credentialVars PROVE LoginInv'
    OBVIOUS
  <2>1. CASE LoginNext
    BY <2>1, LoginStep
  <2>2. CASE UNCHANGED loginVars
    BY <2>2, OthersKeep DEF loginVars
  <2> QED BY <2>1, <2>2 DEF Next, credentialVars
<1>3. LoginInv => RefreshTokenSentOnce
  BY DEF LoginInv
<1> QED BY <1>1, <1>2, <1>3, PTL DEF Spec

-----------------------------------------------------------------------------
(* The shared walk of a cloud chain.                                       *)

Kept == [life : {"fresh", "past"}, kept : BOOLEAN, dated : BOOLEAN]
MayKeep(value) == value = Null \/ (value \in Kept /\ (value.dated \/ value.kept))

Current(u) ==
  LET answer == user[u].answer IN
  /\ answer.by = "walk" => answer.walk > user[u].since
  /\ answer.by = "cache" => answer.value.dated \/ answer.value.kept
  /\ answer.value # Null => answer.value.life = "fresh"

\* What is kept may be used again, and nobody waits for a walk that ended.
ProviderInv ==
  /\ walk.ended \in Nat /\ walk = [rung |-> walk.rung, failed |-> walk.failed, ended |-> walk.ended]
  /\ MayKeep(cached)
  /\ user = [u \in Users |-> user[u]]
  /\ \A u \in Users :
       /\ user[u] = [at |-> user[u].at, since |-> user[u].since, answer |-> user[u].answer]
       /\ user[u].at = "waits" => user[u].since \in Nat /\ user[u].since <= walk.ended
       /\ user[u].at = "over" => Current(u)

\* A walk ends: those who wait are answered with a fresh value or an error.
LEMMA SettlingKeeps ==
  ASSUME ProviderInv, NEW answer, answer # Null => answer.life = "fresh", Settle(answer), MayKeep(cached')
  PROVE  ProviderInv'
<1> DEFINE given == [value |-> answer, by |-> "walk", walk |-> walk.ended + 1]
<1>1. walk' = [rung |-> 0, failed |-> FALSE, ended |-> walk.ended + 1]
  BY DEF Settle
<1>2. user' = [u \in Users |-> IF user[u].at # "waits" THEN user[u]
                              ELSE [user[u] EXCEPT !.at = "over", !.answer = given]]
  BY DEF Settle
<1>3. walk.ended \in Nat
  BY DEF ProviderInv
<1> SUFFICES ASSUME NEW u \in Users
             PROVE  /\ user'[u] = [at |-> user'[u].at, since |-> user'[u].since, answer |-> user'[u].answer]
                    /\ user'[u].at = "waits" => user'[u].since \in Nat /\ user'[u].since <= walk'.ended
                    /\ user'[u].at = "over" => Current(u)'
  <2>1. walk'.ended \in Nat /\ walk' = [rung |-> walk'.rung, failed |-> walk'.failed, ended |-> walk'.ended]
    BY <1>1, <1>3
  <2>2. user' = [u \in Users |-> user'[u]]
    BY <1>2
  <2> QED BY <2>1, <2>2 DEF ProviderInv
<1>4. CASE user[u].at # "waits"
  <2>1. user'[u] = user[u]
    BY <1>2, <1>4
  <2> QED BY <1>4, <2>1 DEF ProviderInv, Current
<1>5. CASE user[u].at = "waits"
  <2>1. user[u].since \in Nat /\ user[u].since <= walk.ended
    BY <1>5 DEF ProviderInv
  <2>2. user[u] = [at |-> user[u].at, since |-> user[u].since, answer |-> user[u].answer]
    BY DEF ProviderInv
  <2>3. user'[u] = [at |-> "over", since |-> user[u].since, answer |-> given]
    BY <1>2, <1>5, <2>2
  <2>4. given.value = answer /\ given.by = "walk" /\ given.walk > user[u].since
    BY <1>3, <2>1
  <2> QED BY <2>3, <2>4 DEF Current
<1> QED BY <1>4, <1>5

\* One call begins, waits or is answered from the cache.
LEMMA CallingKeeps ==
  ASSUME ProviderInv, NEW u \in Users, NEW at, NEW since, NEW answer,
         user' = [user EXCEPT ![u] = [at |-> at, since |-> since, answer |-> answer]],
         at = "waits" => since \in Nat /\ since <= walk.ended,
         at = "over" => /\ answer.by # "walk" /\ (answer.by = "cache" => answer.value.dated \/ answer.value.kept)
                        /\ answer.value.life = "fresh",
         walk' = [rung |-> walk'.rung, failed |-> walk'.failed, ended |-> walk.ended], UNCHANGED cached
  PROVE  ProviderInv'
<1>1. walk'.ended = walk.ended /\ walk' = [rung |-> walk'.rung, failed |-> walk'.failed, ended |-> walk'.ended]
  OBVIOUS
<1>2. user' = [v \in Users |-> user'[v]]
  BY DEF ProviderInv
<1>3. user'[u] = [at |-> at, since |-> since, answer |-> answer]
  BY DEF ProviderInv
<1>4. \A v \in Users : v # u => user'[v] = user[v]
  BY DEF ProviderInv
<1>5. /\ user'[u] = [at |-> user'[u].at, since |-> user'[u].since, answer |-> user'[u].answer]
      /\ user'[u].at = "waits" => user'[u].since \in Nat /\ user'[u].since <= walk'.ended
      /\ user'[u].at = "over" => Current(u)'
  BY <1>1, <1>3 DEF Current
<1>6. ASSUME NEW v \in Users, v # u
      PROVE  /\ user'[v] = [at |-> user'[v].at, since |-> user'[v].since, answer |-> user'[v].answer]
             /\ user'[v].at = "waits" => user'[v].since \in Nat /\ user'[v].since <= walk'.ended
             /\ user'[v].at = "over" => Current(v)'
  BY <1>1, <1>4, <1>6 DEF ProviderInv, Current
<1>7. walk'.ended \in Nat /\ MayKeep(cached')
  BY <1>1 DEF ProviderInv
<1> QED BY <1>1, <1>2, <1>5, <1>6, <1>7 DEF ProviderInv

\* What a rung yields says whether it is kept and whether it has an end.
LEMMA LivesIs == \A r : Lives(r) \subseteq Kept
<1> SUFFICES ASSUME NEW r, NEW value \in Lives(r) PROVE value \in Kept
  OBVIOUS
<1> DEFINE own == r = "credential_process"
           dateless == [life |-> "fresh", kept |-> own, dated |-> FALSE]
<1>1. own \in BOOLEAN
  OBVIOUS
<1>2. \/ value = [life |-> "fresh", kept |-> TRUE, dated |-> FALSE]
      \/ value \in [life : {"fresh", "past"}, kept : {TRUE}, dated : {TRUE}]
      \/ value = dateless
  BY DEF Lives
<1> HIDE DEF own
<1>3. dateless \in Kept
  BY <1>1 DEF Kept
<1>4. [life |-> "fresh", kept |-> TRUE, dated |-> FALSE] \in Kept
  BY DEF Kept
<1>5. [life : {"fresh", "past"}, kept : {TRUE}, dated : {TRUE}] \subseteq Kept
  BY Zenon DEF Kept
<1> HIDE DEF dateless, Kept
<1> QED BY <1>2, <1>3, <1>4, <1>5

\* Every step of a shared walk keeps its invariant.
LEMMA ProviderStep ==
  ASSUME ProviderInv, ProviderNext
  PROVE  ProviderInv'
<1>1. ASSUME NEW u \in Users, ServedFromCache(u) PROVE ProviderInv'
  <2>1. cached \in Kept /\ cached.life = "fresh" /\ (cached.dated \/ cached.kept)
    BY <1>1 DEF ServedFromCache, Usable, ProviderInv, MayKeep
  <2> QED BY <1>1, <2>1, CallingKeeps DEF ServedFromCache, ProviderInv
<1>2. ASSUME NEW u \in Users, Awaits(u) PROVE ProviderInv'
  <2>1. user' = [user EXCEPT ![u] = [at |-> "waits", since |-> walk.ended, answer |-> Null]]
    <3> DEFINE waiting == [NotCalled EXCEPT !.at = "waits"]
    <3>1. waiting = [at |-> "waits", since |-> 0, answer |-> Null]
      BY DEF NotCalled
    <3>2. user' = [user EXCEPT ![u] = [waiting EXCEPT !.since = walk.ended]]
      BY <1>2 DEF Awaits
    <3> HIDE DEF waiting
    <3>3. [waiting EXCEPT !.since = walk.ended] = [at |-> "waits", since |-> walk.ended, answer |-> Null]
      BY <3>1
    <3> QED BY <3>2, <3>3
  <2>2. walk' = [rung |-> walk'.rung, failed |-> walk'.failed, ended |-> walk.ended] /\ UNCHANGED cached
    BY <1>2 DEF Awaits, ProviderInv
  <2> QED BY <2>1, <2>2, CallingKeeps DEF ProviderInv
<1>3. ASSUME NEW u \in Users, CallsAgain(u) PROVE ProviderInv'
  <2>1. user' = [user EXCEPT ![u] = [at |-> "idle", since |-> 0, answer |-> Null]] /\ UNCHANGED <<walk, cached>>
    BY <1>3 DEF CallsAgain, NotCalled
  <2>2. walk' = [rung |-> walk'.rung, failed |-> walk'.failed, ended |-> walk.ended]
    BY <2>1 DEF ProviderInv
  <2>3. "idle" # "waits" /\ "idle" # "over"
    OBVIOUS
  <2> QED BY <2>1, <2>2, <2>3, CallingKeeps, Zenon
<1>4. CASE RungYieldsNothing
  <2>1. UNCHANGED <<user, cached>> /\ walk'.ended = walk.ended
        /\ walk' = [rung |-> walk'.rung, failed |-> walk'.failed, ended |-> walk'.ended]
    BY <1>4 DEF RungYieldsNothing, ProviderInv
  <2> QED BY <2>1 DEF ProviderInv, Current
<1>5. CASE WalkFails
  <2>1. Settle(Null) /\ UNCHANGED cached
    BY <1>5 DEF WalkFails
  <2> QED BY <2>1, SettlingKeeps DEF ProviderInv
<1>6. CASE WalkYields
  <2>1. PICK value \in Lives(Rungs[walk.rung]) :
          IF value.life = "past" THEN Settle(Null) /\ UNCHANGED cached
          ELSE Settle(value) /\ cached' = Keeps(value)
    BY <1>6 DEF WalkYields
  <2>2. value \in Kept
    BY LivesIs
  <2>3. CASE value.life = "past"
    BY <2>1, <2>3, SettlingKeeps DEF ProviderInv
  <2>4. CASE value.life # "past"
    <3>1. value.life = "fresh" /\ MayKeep(Keeps(value))
      BY <2>2, <2>4 DEF Kept, MayKeep, Keeps
    <3> QED BY <2>1, <2>4, <3>1, SettlingKeeps
  <2> QED BY <2>3, <2>4
<1>7. CASE RunsOut
  <2>1. cached \in Kept /\ cached.dated /\ cached' = [cached EXCEPT !.life = "past"] /\ UNCHANGED <<user, walk>>
    BY <1>7 DEF RunsOut, Usable, ProviderInv, MayKeep
  <2>2. MayKeep(cached')
    BY <2>1 DEF Kept, MayKeep
  <2> QED BY <2>1, <2>2 DEF ProviderInv, Current
<1>8. CASE MachineChanges
  BY <1>8 DEF MachineChanges, ProviderInv, Current
<1> QED BY <1>1, <1>2, <1>3, <1>4, <1>5, <1>6, <1>7, <1>8 DEF ProviderNext

(* Every answer of a shared walk is of its time (AUTH-2, AUTH-3): it is of *)
(* a walk that ended after the call began, or of a cache that keeps no     *)
(* token without an expiry, and never expired.                             *)
THEOREM SharedAnswersAreCurrent == Spec => []AnswersAreCurrent
<1>1. Init => ProviderInv
  BY DEF Init, ProviderInit, ProviderIdle, NotCalled, ProviderInv, MayKeep
<1>2. ProviderInv /\ [Next]_credentialVars => ProviderInv'
  <2> SUFFICES ASSUME ProviderInv, [Next]_credentialVars PROVE ProviderInv'
    OBVIOUS
  <2>1. CASE ProviderNext
    BY <2>1, ProviderStep
  <2>2. CASE UNCHANGED providerVars
    BY <2>2 DEF providerVars, ProviderInv, Current
  <2> QED BY <2>1, <2>2 DEF Next, credentialVars
<1>3. ProviderInv => AnswersAreCurrent
  BY DEF ProviderInv, AnswersAreCurrent, Current
<1> QED BY <1>1, <1>2, <1>3, PTL DEF Spec
-----------------------------------------------------------------------------
(* One attempt of a login flow.                                            *)

\* The shapes of the records, and what an attempt is at its points.
AttemptShape ==
  /\ attempt = [at |-> attempt.at, result |-> attempt.result, heeded |-> attempt.heeded]
  /\ request = [ask |-> request.ask, answer |-> request.answer, spent |-> request.spent]
  /\ remaining \in Nat /\ interval \in Nat
  /\ order.method \in Methods

\* A request in flight is of its errand, and a foreign code is exchanged in vain.
AskingIs ==
  attempt.at = "asking" =>
    /\ order.errand = "login" <=> request.ask # "renew"
    /\ attempt.heeded = "foreign" => request.ask = "exchange" /\ request.answer # "ok"

AttemptPoints ==
  /\ attempt.at # "over" => attempt.result = "none"
  /\ attempt.at \in {"new", "returning"} => ~request.spent
  /\ attempt.at \in {"new", "returning", "waiting"} => attempt.heeded # "foreign"
  /\ attempt.at \in {"asking", "waiting"} => listener # "open"
  /\ attempt.at \in {"returning", "waiting"} => order.errand = "login"
  /\ attempt.at = "returning" => order.method.after = "exchange"
  /\ order.errand = "login" /\ attempt.at \in {"returning", "asking", "waiting"} => ~CutOff

SpentIs == request.spent => Consumes(request.ask) /\ request.answer \in {"ok", "refused", "server_error"}

AttemptInv == AttemptShape /\ AskingIs /\ AttemptPoints /\ SpentIs /\ AttemptKeepsItsWord

LEMMA MethodsAre ==
  \A m \in Methods : m.after \in {"exchange", "mint", "none"} /\ (m.way # "device" => m.after = "exchange")
<1>1. \A m \in {ClaudeHosted, ClaudeLoopback, CodexBrowser, OpenRouter} : m.after = "exchange"
  <2>1. ClaudeHosted.after = "exchange" /\ ClaudeLoopback.after = "exchange" /\ CodexBrowser.after = "exchange"
    BY DEF ClaudeHosted, ClaudeLoopback, CodexBrowser, ByCode
  <2>2. OpenRouter.after = "exchange"
    BY DEF OpenRouter, ByCode
  <2> QED BY <2>1, <2>2
<1>2. \A m \in {CodexDevice, Copilot, Meta} : m.way = "device" /\ m.after \in {"exchange", "mint"}
  BY DEF CodexDevice, Copilot, Meta, ByDevice, ByCode
<1>3. \A m \in {Kimi, Xai} : m.way = "device" /\ m.after = "none"
  BY DEF Kimi, Xai, ByDevice, ByCode
<1> QED BY <1>1, <1>2, <1>3 DEF Methods

\* Whoever ends an attempt must say so truly.
LEMMA AttemptEnding ==
  ASSUME AttemptInv, NEW result, NEW heeded, Ends(result, heeded),
         order.method.state => heeded # "foreign",
         result = "kept" => heeded # "foreign",
         result = "kept" /\ order.errand = "login" => ~cancelled /\ remaining > 0,
         result \in {"unreachable", "unavailable", "rate_limited"} => ~request.spent
  PROVE  AttemptInv'
<1>1. attempt' = [at |-> "over", result |-> result, heeded |-> heeded] /\ listener' # "open"
      /\ UNCHANGED <<order, request, cancelled, remaining, interval>>
  BY DEF Ends, Closed
<1>2. AttemptShape'
  BY <1>1 DEF AttemptInv, AttemptShape
<1>3. AskingIs' /\ AttemptPoints'
  BY <1>1 DEF AskingIs, AttemptPoints
<1>4. SpentIs'
  BY <1>1 DEF AttemptInv, SpentIs, Consumes, method
<1>5. AttemptKeepsItsWord'
  BY <1>1 DEF AttemptInv, AttemptKeepsItsWord
<1> QED BY <1>2, <1>3, <1>4, <1>5 DEF AttemptInv

\* An end that is not kept and invites no other try says nothing false.
LEMMA FailingKeeps ==
  ASSUME AttemptInv, NEW result, EndsWith(result), attempt.at # "over",
         result \notin {"kept", "unreachable", "unavailable", "rate_limited"}
  PROVE  AttemptInv'
<1>1. order.method.state => attempt.heeded # "foreign"
  BY DEF AttemptInv, AttemptKeepsItsWord
<1> QED BY <1>1, AttemptEnding DEF EndsWith

LEMMA WhyStoppedIs == WhyStopped \in {"cancelled", "expired"}
BY DEF WhyStopped

\* A request goes out for its errand, with no foreign return but to be exchanged.
LEMMA SendingKeeps ==
  ASSUME AttemptInv, NEW ask, NEW heeded, Sends(ask, heeded),
         order.errand = "login" <=> ask # "renew",
         heeded = "foreign" => ask = "exchange",
         order.method.state => heeded # "foreign",
         order.errand = "login" => ~CutOff,
         CutOff => ~request.spent
  PROVE  AttemptInv'
<1>1. CASE Stopped \/ CutOff
  <2>1. PICK why \in {"cancelled", "expired", "unavailable"} : Ends(why, heeded) /\ (why = "unavailable" => CutOff)
    BY <1>1, WhyStoppedIs DEF Sends
  <2>2. why # "kept" /\ (why \in {"unreachable", "unavailable", "rate_limited"} => ~request.spent)
    BY <2>1
  <2> QED BY <2>1, <2>2, AttemptEnding
<1>2. CASE ~(Stopped \/ CutOff)
  <2>1. /\ attempt' = [at |-> "asking", result |-> "none", heeded |-> heeded] /\ listener' # "open"
        /\ request' = [ask |-> ask, answer |-> "none", spent |-> FALSE]
        /\ UNCHANGED <<order, cancelled, remaining, interval>>
    BY <1>2 DEF Sends, Closed
  <2>2. AttemptShape' /\ AskingIs' /\ SpentIs'
    BY <2>1 DEF AttemptInv, AttemptShape, AskingIs, SpentIs
  <2>3. AttemptPoints'
    BY <2>1 DEF AttemptPoints, CutOff, method, venue
  <2>4. AttemptKeepsItsWord'
    BY <2>1 DEF AttemptKeepsItsWord
  <2> QED BY <2>2, <2>3, <2>4 DEF AttemptInv
<1> QED BY <1>1, <1>2

\* An attempt at a point before its last one acted on no foreign return.
LEMMA HeededSoFar ==
  ASSUME AttemptInv
  PROVE  /\ order.method.state => attempt.heeded # "foreign"
         /\ attempt.at \in {"new", "returning", "waiting"} => attempt.heeded # "foreign"
         /\ attempt.at \in {"new", "returning"} => ~request.spent
         /\ attempt.at # "over" => attempt.result = "none"
BY DEF AttemptInv, AttemptKeepsItsWord, AttemptPoints

LEMMA BeginningKeeps ==
  ASSUME AttemptInv, SignInBegins \/ RenewalBegins
  PROVE  AttemptInv'
<1>1. attempt.at = "new"
  BY DEF SignInBegins, RenewalBegins
<1>2. attempt.heeded # "foreign" /\ ~request.spent /\ attempt.result = "none"
  BY <1>1, HeededSoFar
<1>3. ASSUME EndsWith("unavailable") \/ EndsWith("denied") \/ (EndsWith("kept") /\ order.errand # "login")
      PROVE  AttemptInv'
  BY <1>2, <1>3, AttemptEnding DEF EndsWith
<1>4. CASE RenewalBegins
  <2>1. order.errand = "renewal"
    BY <1>4 DEF RenewalBegins
  <2>2. CASE Sends("renew", "none")
    <3>1. "none" # "foreign" /\ (order.errand = "login" <=> "renew" # "renew")
      BY <2>1
    <3> QED BY <1>2, <2>1, <2>2, <3>1, SendingKeeps
  <2> QED BY <1>3, <1>4, <2>1, <2>2 DEF RenewalBegins
<1>5. CASE SignInBegins /\ CutOff
  <2>1. Availability = "unavailable"
    BY <1>5 DEF Availability, CutOff
  <2> QED BY <1>3, <1>5, <2>1 DEF SignInBegins
<1>6. CASE SignInBegins /\ ~CutOff
  <2>1. order.errand = "login" /\ order.method \in Methods
    BY <1>6 DEF SignInBegins, AttemptInv, AttemptShape
  <2>2. CASE Sends("start", "none") /\ method.way = "device"
    <3>1. "none" # "foreign" /\ (order.errand = "login" <=> "start" # "renew")
      BY <2>1
    <3> QED BY <1>6, <2>2, <3>1, SendingKeeps
  <2>3. ASSUME OpensListener, method.way # "device" PROVE AttemptInv'
    <3>1. order.method.after = "exchange"
      BY <2>1, <2>3, MethodsAre DEF method
    <3>2. ASSUME NEW opened \in {"none", "open"}, AwaitsReturn(opened) PROVE AttemptInv'
      <4>1. CASE Stopped
        BY <1>1, <3>2, <4>1, WhyStoppedIs, FailingKeeps DEF AwaitsReturn
      <4>2. CASE ~Stopped
        <5>1. attempt' = [attempt EXCEPT !.at = "returning"] /\ UNCHANGED <<order, request, cancelled, remaining, interval>>
          BY <3>2, <4>2 DEF AwaitsReturn
        <5>2. attempt' = [at |-> "returning", result |-> attempt.result, heeded |-> attempt.heeded]
          BY <5>1 DEF AttemptInv, AttemptShape
        <5>3. AttemptShape' /\ AskingIs' /\ AttemptPoints'
          BY <1>2, <1>6, <2>1, <3>1, <5>1, <5>2 DEF AttemptInv, AttemptShape, AskingIs, AttemptPoints, CutOff, method, venue
        <5>4. SpentIs' /\ AttemptKeepsItsWord'
          BY <1>2, <5>1, <5>2 DEF AttemptInv, SpentIs, AttemptKeepsItsWord
        <5> QED BY <5>3, <5>4 DEF AttemptInv
      <4> QED BY <4>1, <4>2
    <3> QED BY <1>3, <2>3, <3>2 DEF OpensListener
  <2> QED BY <1>3, <1>6, <2>2, <2>3 DEF SignInBegins
<1> QED BY <1>4, <1>5, <1>6

\* What is heeded of a return with a state is of this sign-in.
LEMMA ReadingIsTrue ==
  ASSUME NEW r, Read(r) # "invalid"
  PROVE  order.method.state => r.owner # "foreign"
BY DEF Read, OurState, method

LEMMA ReturningKeeps ==
  ASSUME AttemptInv, NEW r \in Return, Pastes(r) \/ CallsBack(r) \/ PromptFails
  PROVE  AttemptInv'
<1>1. attempt.at = "returning"
  BY DEF Pastes, CallsBack, PromptFails
<1>2. /\ order.errand = "login" /\ ~CutOff /\ order.method.after = "exchange"
      /\ attempt.heeded # "foreign" /\ ~request.spent
  BY <1>1 DEF AttemptInv, AttemptPoints
<1>3. ASSUME Heeds(r) PROVE AttemptInv'
  <2>1. order.method.state => r.owner # "foreign"
    BY <1>3, ReadingIsTrue DEF Heeds
  <2>2. CASE Ends("denied", r.owner)
    <3>1. "denied" \notin {"kept", "unreachable", "unavailable", "rate_limited"}
      OBVIOUS
    <3> QED BY <2>1, <2>2, <3>1, AttemptEnding
  <2>3. CASE Sends("exchange", r.owner)
    <3>1. order.errand = "login" <=> "exchange" # "renew"
      BY <1>2
    <3> QED BY <1>2, <2>1, <2>3, <3>1, SendingKeeps
  <2> QED BY <1>2, <1>3, <2>2, <2>3 DEF Heeds, method
<1>4. ASSUME NEW result \in {"cancelled", "expired", "error"}, EndsWith(result) PROVE AttemptInv'
  BY <1>1, <1>4, FailingKeeps
<1> QED BY <1>3, <1>4, WhyStoppedIs DEF Pastes, CallsBack, PromptFails

LEMMA AttemptAnswered ==
  ASSUME AttemptInv, ProviderAnswers
  PROVE  AttemptInv'
<1>1. PICK answer \in AnswersTo(request.ask) : \E used \in Spends(request.ask, answer) :
        request' = [request EXCEPT !.answer = answer, !.spent = used]
  BY DEF ProviderAnswers
<1>2. PICK used \in Spends(request.ask, answer) : request' = [request EXCEPT !.answer = answer, !.spent = used]
  BY <1>1
<1>3. request' = [ask |-> request.ask, answer |-> answer, spent |-> used]
  BY <1>2 DEF AttemptInv, AttemptShape
<1>4. attempt.at = "asking" /\ UNCHANGED <<order, attempt, listener, cancelled, remaining, interval>>
  BY DEF ProviderAnswers
<1>5. used => Consumes(request.ask) /\ answer \in {"ok", "refused", "server_error"}
  BY <1>2 DEF Spends
<1>6. attempt.heeded = "foreign" => request.ask = "exchange" /\ answer # "ok"
  BY <1>1, <1>4 DEF AttemptInv, AskingIs, AnswersTo
<1>7. AttemptShape' /\ AskingIs'
  BY <1>3, <1>4, <1>6 DEF AttemptInv, AttemptShape, AskingIs
<1>8. AttemptPoints'
  BY <1>3, <1>4 DEF AttemptInv, AttemptPoints, CutOff, method, venue
<1>9. SpentIs'
  BY <1>3, <1>4, <1>5 DEF SpentIs, Consumes, method
<1>10. AttemptKeepsItsWord'
  BY <1>4, HeededSoFar DEF AttemptKeepsItsWord
<1> QED BY <1>7, <1>8, <1>9, <1>10 DEF AttemptInv

LEMMA LosingKeeps ==
  ASSUME AttemptInv, Unheard \/ BreaksOff \/ HearsFailure
  PROVE  AttemptInv'
<1>1. attempt.at = "asking"
  BY DEF Unheard, BreaksOff, HearsFailure, Heard
<1>2. ASSUME NEW result, EndsWith(result), result # "kept",
             result \in {"unreachable", "unavailable", "rate_limited"} => ~request.spent
      PROVE  AttemptInv'
  BY <1>2, HeededSoFar, AttemptEnding DEF EndsWith
<1>3. request.spent => Consumes(request.ask) /\ request.answer \in {"ok", "refused", "server_error"}
  BY DEF AttemptInv, SpentIs
<1>4. CASE HearsFailure
  <2>1. PICK result : EndsWith(result) /\ result = Failure[request.answer] /\ request.answer \in DOMAIN Failure
    BY <1>4 DEF HearsFailure
  <2>2. result # "kept" /\ (result \in {"unreachable", "unavailable", "rate_limited"} => request.answer \in {"redirect", "limited"})
    BY <2>1 DEF Failure
  <2> QED BY <1>2, <1>3, <2>1, <2>2
<1>5. CASE BreaksOff
  <2>1. PICK result : EndsWith(result) /\ result \in {"cancelled", "expired", "indeterminate", "unavailable"}
                      /\ (result = "unavailable" => ~Consumes(request.ask))
    BY <1>5, WhyStoppedIs DEF BreaksOff
  <2> QED BY <1>2, <1>3, <2>1
<1>6. CASE Unheard
  <2>1. PICK result : EndsWith(result) /\ result \in {"cancelled", "expired", "indeterminate", "unavailable", "unreachable"}
                      /\ (result = "unavailable" => ~Consumes(request.ask)) /\ (result = "unreachable" => request.answer = "none")
    BY <1>6, WhyStoppedIs DEF Unheard
  <2> QED BY <1>2, <1>3, <2>1
<1> QED BY <1>4, <1>5, <1>6

\* A wait begins, or the attempt has stopped.
LEMMA WaitingKeeps ==
  ASSUME AttemptInv, NEW time \in Nat, NEW pace \in Nat, WaitsFor(time, pace),
         attempt.at = "asking", request.ask \in {"start", "poll"}
  PROVE  AttemptInv'
<1>1. CASE Stopped
  BY <1>1, WhyStoppedIs, FailingKeeps DEF WaitsFor
<1>2. CASE ~Stopped
  <2>1. /\ attempt' = [at |-> "waiting", result |-> attempt.result, heeded |-> attempt.heeded]
        /\ remaining' = time /\ interval' = pace /\ UNCHANGED <<order, listener, request, cancelled>>
    BY <1>2 DEF WaitsFor, AttemptInv, AttemptShape
  <2>2. order.errand = "login" /\ attempt.heeded # "foreign"
    BY DEF AttemptInv, AskingIs
  <2>3. AttemptShape' /\ AskingIs'
    BY <2>1 DEF AttemptInv, AttemptShape, AskingIs
  <2>4. AttemptPoints'
    BY <2>1, <2>2 DEF AttemptInv, AttemptPoints, CutOff, method, venue
  <2>5. SpentIs'
    BY <2>1 DEF AttemptInv, SpentIs, Consumes, method
  <2>6. AttemptKeepsItsWord'
    BY <2>1, HeededSoFar DEF AttemptKeepsItsWord
  <2> QED BY <2>3, <2>4, <2>5, <2>6 DEF AttemptInv
<1> QED BY <1>1, <1>2

LEMMA PollingKeeps ==
  ASSUME AttemptInv, Starts \/ PollsAgain \/ WaitIsOver
  PROVE  AttemptInv'
<1> USE AttemptAssumption
<1>1. remaining \in Nat /\ interval \in Nat
  BY DEF AttemptInv, AttemptShape
<1>2. CASE Starts
  <2>1. PICK time \in 1..MaxTime, pace \in 1..MaxTime : WaitsFor(time, pace)
    BY <1>2 DEF Starts
  <2>2. time \in Nat /\ pace \in Nat
    BY <2>1
  <2> QED BY <1>2, <2>1, <2>2, WaitingKeeps DEF Starts, Heard
<1>3. CASE PollsAgain
  <2>1. PICK pace \in Nat : WaitsFor(remaining, pace)
    BY <1>1, <1>3 DEF PollsAgain
  <2>2. attempt.at = "asking" /\ request.ask = "poll"
    BY <1>3 DEF PollsAgain, Heard
  <2> QED BY <1>1, <2>1, <2>2, WaitingKeeps
<1>4. CASE WaitIsOver
  <2>1. attempt.at = "waiting"
    BY <1>4 DEF WaitIsOver
  <2>2. attempt.heeded # "foreign" /\ order.errand = "login" /\ ~CutOff /\ listener # "open" /\ attempt.result = "none"
    BY <2>1 DEF AttemptInv, AttemptPoints
  <2>3. CASE EndsWith("cancelled")
    <3>1. "cancelled" \notin {"kept", "unreachable", "unavailable", "rate_limited"}
      OBVIOUS
    <3> QED BY <2>1, <2>3, <3>1, FailingKeeps
  <2>4. CASE /\ attempt' = [attempt EXCEPT !.at = "over", !.result = "expired"] /\ remaining' = 0
             /\ UNCHANGED <<order, listener, request, cancelled, interval>>
    <3>1. attempt' = [at |-> "over", result |-> "expired", heeded |-> attempt.heeded]
      BY <2>4 DEF AttemptInv, AttemptShape
    <3>2. AttemptShape' /\ AskingIs' /\ AttemptPoints'
      BY <2>4, <3>1 DEF AttemptInv, AttemptShape, AskingIs, AttemptPoints
    <3>3. SpentIs'
      BY <2>4 DEF AttemptInv, SpentIs, Consumes, method
    <3>4. AttemptKeepsItsWord'
      BY <2>2, <2>4, <3>1 DEF AttemptKeepsItsWord
    <3> QED BY <3>2, <3>3, <3>4 DEF AttemptInv
  <2>5. CASE /\ attempt' = [attempt EXCEPT !.at = "asking"] /\ remaining' = remaining - interval /\ remaining > interval
             /\ request' = [ask |-> "poll", answer |-> "none", spent |-> FALSE]
             /\ UNCHANGED <<order, listener, cancelled, interval>>
    <3>1. attempt' = [at |-> "asking", result |-> "none", heeded |-> attempt.heeded]
      BY <2>2, <2>5 DEF AttemptInv, AttemptShape
    <3>2. remaining' \in Nat
      BY <1>1, <2>5
    <3>3. AttemptShape' /\ AskingIs' /\ SpentIs'
      BY <2>2, <2>5, <3>1, <3>2 DEF AttemptInv, AttemptShape, AskingIs, SpentIs
    <3>4. AttemptPoints' /\ AttemptKeepsItsWord'
      BY <2>2, <2>5, <3>1 DEF AttemptPoints, AttemptKeepsItsWord, CutOff, method, venue
    <3> QED BY <3>3, <3>4 DEF AttemptInv
  <2> QED BY <1>1, <1>4, <2>3, <2>4, <2>5 DEF WaitIsOver
<1> QED BY <1>2, <1>3, <1>4

LEMMA FinishingKeeps ==
  ASSUME AttemptInv, Approved \/ Exchanges \/ Renews
  PROVE  AttemptInv'
<1>1. attempt.at = "asking" /\ request.answer = "ok"
  BY DEF Approved, Exchanges, Renews, Heard
<1>2. attempt.heeded # "foreign"
  BY <1>1 DEF AttemptInv, AskingIs
<1>3. ASSUME Finishes PROVE AttemptInv'
  <2>1. CASE Stopped
    BY <1>1, <1>3, <2>1, WhyStoppedIs, FailingKeeps DEF Finishes
  <2>2. CASE ~Stopped
    <3>1. ~cancelled /\ remaining > 0
      BY <2>2 DEF Stopped, AttemptInv, AttemptShape
    <3> QED BY <1>2, <1>3, <2>2, <3>1, AttemptEnding DEF Finishes, EndsWith
  <2> QED BY <2>1, <2>2
<1>4. CASE Renews
  <2>1. order.errand # "login"
    BY <1>1, <1>4 DEF Renews, AttemptInv, AskingIs
  <2> QED BY <1>2, <1>4, <2>1, AttemptEnding DEF Renews, EndsWith
<1>5. CASE Approved
  <2>1. order.errand = "login" /\ ~CutOff
    BY <1>1, <1>5 DEF Approved, AttemptInv, AskingIs, AttemptPoints
  <2>2. ASSUME Sends(method.after, attempt.heeded) PROVE AttemptInv'
    <3>1. method.after # "renew"
      BY MethodsAre DEF AttemptInv, AttemptShape, method
    <3> QED BY <1>2, <2>1, <2>2, <3>1, SendingKeeps
  <2> QED BY <1>3, <1>5, <2>2 DEF Approved
<1> QED BY <1>3, <1>4, <1>5 DEF Exchanges

\* The caller cancels, or time passes: what ended is not touched.
LEMMA StoppingKeeps ==
  ASSUME AttemptInv, Cancels \/ TimePasses
  PROVE  AttemptInv'
<1>1. /\ attempt.at # "over" /\ UNCHANGED <<order, attempt, listener, request, interval>>
      /\ remaining' \in Nat
  BY DEF Cancels, TimePasses, AttemptInv, AttemptShape
<1>2. AttemptShape' /\ AskingIs' /\ AttemptPoints' /\ SpentIs'
  BY <1>1 DEF AttemptInv, AttemptShape, AskingIs, AttemptPoints, SpentIs, CutOff, Consumes, method, venue
<1>3. AttemptKeepsItsWord'
  BY <1>1, HeededSoFar DEF AttemptKeepsItsWord
<1> QED BY <1>2, <1>3 DEF AttemptInv

LEMMA AttemptStep ==
  ASSUME AttemptInv, AttemptNext
  PROVE  AttemptInv'
<1>1. Garbled \in Return
  BY DEF Return
<1> QED BY <1>1, BeginningKeeps, ReturningKeeps, AttemptAnswered, LosingKeeps, PollingKeeps, FinishingKeeps, StoppingKeeps
        DEF AttemptNext

LEMMA AttemptBegins == AttemptInit \/ AttemptIdle => AttemptInv
<1> USE AttemptAssumption
<1>1. Xai \in Methods
  BY DEF Methods
<1> SUFFICES ASSUME AttemptInit \/ AttemptIdle PROVE AttemptInv
  OBVIOUS
<1>2. /\ attempt = [at |-> attempt.at, result |-> "none", heeded |-> "none"] /\ attempt.at \in {"new", "idle"}
      /\ listener = "none" /\ request = NotAsked /\ remaining \in Nat /\ interval = 1
  BY DEF AttemptInit, AttemptIdle
<1>3. order.method \in Methods
  BY <1>1 DEF AttemptInit, AttemptIdle
<1>4. request = [ask |-> "none", answer |-> "none", spent |-> FALSE]
  BY <1>2 DEF NotAsked
<1>5. AttemptShape /\ AskingIs /\ SpentIs
  BY <1>2, <1>3, <1>4 DEF AttemptShape, AskingIs, SpentIs
<1>6. AttemptPoints /\ AttemptKeepsItsWord
  BY <1>2, <1>4 DEF AttemptPoints, AttemptKeepsItsWord
<1> QED BY <1>5, <1>6 DEF AttemptInv

(* An attempt keeps its word (AUTH-18, AUTH-20.6): another sign-in's       *)
(* return never moves one that has a state, a login is kept only of the    *)
(* person's own return before the deadline, an end that invites another    *)
(* try spent nothing, and no end leaves a listener open.                   *)
THEOREM AttemptsKeepTheirWord == Spec => []AttemptKeepsItsWord
<1>1. Init => AttemptInv
  BY AttemptBegins DEF Init
<1>2. AttemptInv /\ [Next]_credentialVars => AttemptInv'
  <2> SUFFICES ASSUME AttemptInv, [Next]_credentialVars PROVE AttemptInv'
    OBVIOUS
  <2>1. CASE AttemptNext
    BY <2>1, AttemptStep
  <2>2. CASE UNCHANGED attemptVars
    <3>1. UNCHANGED <<order, attempt, listener, request, cancelled, remaining, interval>>
      BY <2>2 DEF attemptVars
    <3> QED BY <3>1 DEF AttemptInv, AttemptShape, AskingIs, AttemptPoints, SpentIs, AttemptKeepsItsWord,
                       CutOff, Consumes, method, venue
  <2> QED BY <2>1, <2>2 DEF Next, credentialVars
<1>3. AttemptInv => AttemptKeepsItsWord
  BY DEF AttemptInv
<1> QED BY <1>1, <1>2, <1>3, PTL DEF Spec

-----------------------------------------------------------------------------
(***************************************************************************)
(* The doctor and the router.  Three walks over the same sources - the     *)
(* doctor's probes, the branches of the router and the acquires of a       *)
(* request - come to the same source: rung by rung for a chain, and step   *)
(* by step for the rest, by what a list of steps offers and tells          *)
(* (Truthful), which is kept when lists are put one behind another.        *)
(***************************************************************************)

Lists == INSTANCE FoldLemmas WITH Op <- Then

RungsOf(policy) ==
  CASE policy = "aws-chain" -> ToSet(AwsRungs)
    [] policy = "azure-chain" -> ToSet(AzureRungs)
    [] policy = "gcp-chain" -> ToSet(GcpRungs)

Chains == {"aws-chain", "azure-chain", "gcp-chain"}

\* What a rung says offline and what it does at request time.
Agrees(probe, acquire, stops) ==
  /\ probe = "usable" => acquire = "value"
  /\ acquire = "value" => probe # "absent"
  /\ probe = "absent" /\ ~stops => acquire = "nothing"

\* The rungs of the three chains.
LEMMA RungSets ==
  /\ ToSet(AwsRungs) = {"env:AWS_ACCESS_KEY_ID", "assume-role", "web-identity", "sso", "shared-credentials-file",
        "login", "credential_process", "config-file", "container", "imds"}
  /\ ToSet(AzureRungs) = {"environment", "workload-identity", "managed-identity", "az", "pwsh", "azd"}
  /\ ToSet(GcpRungs) = {"adc-env", "adc-file", "metadata", "gcloud"}
<1>1. DOMAIN AwsRungs = 1..10 /\ DOMAIN AzureRungs = 1..6 /\ DOMAIN GcpRungs = 1..4
  BY DEF AwsRungs, AzureRungs, GcpRungs
<1>2. 1..10 = {1,2,3,4,5,6,7,8,9,10} /\ 1..6 = {1,2,3,4,5,6} /\ 1..4 = {1,2,3,4}
  OBVIOUS
<1>3. ToSet(AwsRungs) = {AwsRungs[i] : i \in {1,2,3,4,5,6,7,8,9,10}} /\ ToSet(AzureRungs) = {AzureRungs[i] : i \in {1,2,3,4,5,6}}
      /\ ToSet(GcpRungs) = {GcpRungs[i] : i \in {1,2,3,4}}
  BY <1>1, <1>2 DEF ToSet
<1> QED BY <1>3 DEF AwsRungs, AzureRungs, GcpRungs

\* What a rung of a cloud says offline agrees with what it does.
LEMMA AwsAgrees ==
  ASSUME NEW m, NEW r \in ToSet(AwsRungs), NEW named
  PROVE  Agrees(AwsProbe(m, r), AwsAcquire(m, r), StopsUnseen(m, "aws-chain", named, r))
<1>1. CASE ReadsProfile(m, r) /\ ~AwsReadable(m)
  BY <1>1 DEF AwsProbe, AwsAcquire, Agrees, StopsUnseen
<1>2. CASE ~(ReadsProfile(m, r) /\ ~AwsReadable(m))
  <2> DEFINE S == StopsUnseen(m, "aws-chain", named, r)
  <2>1. CASE r \in {"env:AWS_ACCESS_KEY_ID", "assume-role", "shared-credentials-file", "config-file"}
    BY <1>2, <2>1 DEF AwsProbe, AwsAcquire, Agrees, If
  <2>2. CASE r = "web-identity"
    BY <1>2, <2>2 DEF AwsProbe, AwsAcquire, Agrees, If, WebIdentityAcquire
  <2>3. CASE r = "sso"
    BY <1>2, <2>3 DEF AwsProbe, AwsAcquire, Agrees, If, SsoAcquire
  <2>4. CASE r = "login"
    BY <1>2, <2>4 DEF AwsProbe, AwsAcquire, Agrees, If, LoginAcquire
  <2>5. CASE r = "credential_process"
    BY <1>2, <2>5 DEF AwsProbe, AwsAcquire, Agrees, If, ProcessAcquire, Run, Exchanged, StopsUnseen
  <2>6. CASE r = "container"
    BY <1>2, <2>6 DEF AwsProbe, AwsAcquire, Agrees, If, ContainerAcquire, ContainerConfig, StopsUnseen
  <2>7. CASE r = "imds"
    BY <1>2, <2>7 DEF AwsProbe, AwsAcquire, Agrees, If, ImdsAcquire, FromMetadata
  <2> QED BY <2>1, <2>2, <2>3, <2>4, <2>5, <2>6, <2>7, RungSets
<1> QED BY <1>1, <1>2

\* No rung of Azure stops unseen.
LEMMA AzureAgrees ==
  ASSUME NEW m, NEW r \in ToSet(AzureRungs)
  PROVE  Agrees(AzureProbe(m, r), AzureAcquire(m, r), FALSE)
<1>1. CASE Narrowed(m, r)
  BY <1>1 DEF AzureProbe, AzureAcquire, Agrees
<1>2. CASE ~Narrowed(m, r)
  <2>1. CASE r = "environment"
    <3>1. Null # "secret"
      BY NamesAssumption
    <3> QED BY <1>2, <2>1, <3>1 DEF AzureProbe, AzureAcquire, Agrees, If, EnvironmentAcquire
  <2>2. CASE r = "workload-identity"
    BY <1>2, <2>2 DEF AzureProbe, AzureAcquire, Agrees, If, WorkloadAcquire
  <2>3. CASE r = "managed-identity"
    BY <1>2, <2>3 DEF AzureProbe, AzureAcquire, Agrees, If
  <2>4. CASE r \in {"az", "pwsh", "azd"}
    BY <1>2, <2>4 DEF AzureProbe, AzureAcquire, Agrees, If, CliAcquire, Exchanged
  <2> QED BY <2>1, <2>2, <2>3, <2>4, RungSets
<1> QED BY <1>1, <1>2

\* The credential files of Google that do not parse stop unseen.
LEMMA GcpAgrees ==
  ASSUME NEW m, NEW r \in ToSet(GcpRungs), NEW named
  PROVE  Agrees(GcpProbe(m, r), GcpAcquire(m, r), StopsUnseen(m, "gcp-chain", named, r))
<1>1. CASE r = "adc-env"
  BY <1>1 DEF GcpProbe, GcpAcquire, Agrees, If, FileProbe, FileAcquire, StopsUnseen
<1>2. CASE r = "adc-file"
  BY <1>2 DEF GcpProbe, GcpAcquire, Agrees, If, FileProbe, FileAcquire, StopsUnseen
<1>3. CASE r = "metadata"
  BY <1>3 DEF GcpProbe, GcpAcquire, Agrees, If, FromMetadata
<1>4. CASE r = "gcloud"
  BY <1>4 DEF GcpProbe, GcpAcquire, Agrees, If, GcloudAcquire, Exchanged
<1> QED BY <1>1, <1>2, <1>3, <1>4, RungSets

\* So it is with every rung of every chain.
LEMMA RungAgrees ==
  ASSUME NEW m, NEW policy \in Chains, NEW door, NEW named, NEW r \in {"door"} \cup RungsOf(policy)
  PROVE  Agrees(Probe(m, policy, door, named, r), Acquire(m, policy, door, named, r),
                StopsUnseen(m, policy, named, r))
<1>1. CASE r = "door"
  BY <1>1 DEF Probe, Acquire, Agrees, If
<1>2. CASE r # "door" /\ Mismatch(m, policy, named)
  BY <1>2 DEF Probe, Acquire, Agrees, StopsUnseen
<1>3. CASE r # "door" /\ ~Mismatch(m, policy, named)
  <2>1. CASE policy = "aws-chain"
    <3>1. /\ Probe(m, policy, door, named, r) = AwsProbe(m, r)
          /\ Acquire(m, policy, door, named, r) = AwsAcquire(m, r)
          /\ r \in ToSet(AwsRungs)
      BY <1>3, <2>1 DEF Probe, Acquire, RungsOf
    <3> QED BY <2>1, <3>1, AwsAgrees
  <2>2. CASE policy = "azure-chain"
    <3>1. /\ Probe(m, policy, door, named, r) = AzureProbe(m, r)
          /\ Acquire(m, policy, door, named, r) = AzureAcquire(m, r)
          /\ r \in ToSet(AzureRungs)
      BY <1>3, <2>2 DEF Probe, Acquire, RungsOf
    <3> QED BY <3>1, AzureAgrees DEF Agrees
  <2>3. CASE policy = "gcp-chain"
    <3>1. /\ Probe(m, policy, door, named, r) = GcpProbe(m, r)
          /\ Acquire(m, policy, door, named, r) = GcpAcquire(m, r)
          /\ r \in ToSet(GcpRungs)
      BY <1>3, <2>3 DEF Probe, Acquire, RungsOf
    <3> QED BY <2>3, <3>1, GcpAgrees
  <2> QED BY <2>1, <2>2, <2>3 DEF Chains
<1> QED BY <1>1, <1>2, <1>3


\* One sequence after another is the same in both modules.
LEMMA FlattenIs == \A seqs : FlattenSeq(seqs) = Lists!FlattenSeq(seqs)
BY DEF FlattenSeq, Lists!FlattenSeq

\* A sequence of one.
LEMMA OneIs ==
  ASSUME NEW e
  PROVE  Lists!ASeq(<<e>>) /\ Len(<<e>>) = 1 /\ DOMAIN <<e>> = {1} /\ <<e>>[1] = e
<1>1. <<e>> \in Seq({e})
  OBVIOUS
<1>2. Lists!ASeq(<<e>>)
  BY <1>1, Lists!SeqOfSet
<1>3. Len(<<e>>) = 1 /\ <<e>>[1] = e
  OBVIOUS
<1>4. DOMAIN <<e>> = 1..1
  BY <1>2, <1>3, Lists!SeqLen
<1>5. 1..1 = {1}
  OBVIOUS
<1> QED BY <1>2, <1>3, <1>4, <1>5

\* A sequence of none.
LEMMA NoneIs == Lists!ASeq(<<>>) /\ Len(<<>>) = 0 /\ DOMAIN <<>> = {}
BY Lists!EmptyIsASeq, Lists!SeqLen

\* A walk is a sequence of rungs of its chain, behind the door if there is one.
LEMMA WalkIs ==
  ASSUME NEW policy \in Chains, NEW door, NEW named
  PROVE  /\ Lists!ASeq(Walk(policy, door, named))
         /\ \A i \in DOMAIN Walk(policy, door, named) :
              /\ Walk(policy, door, named)[i] \in {"door"} \cup RungsOf(policy)
              /\ door = Null => Walk(policy, door, named)[i] \in RungsOf(policy)
<1> DEFINE first == IF door = Null THEN <<>> ELSE <<"door">>
           rest == CASE policy = "aws-chain" -> AwsRungs
                     [] policy = "azure-chain" -> AzureRungs
                     [] policy = "gcp-chain" -> GcpRungs
           list == ChainFor(policy, door)
           Good(r) == r \in RungsOf(policy) \/ (r = "door" /\ door # Null)
<1>1. Lists!ASeq(rest) /\ RungsOf(policy) = ToSet(rest)
  <2>1. Lists!ASeq(AwsRungs) /\ Lists!ASeq(AzureRungs) /\ Lists!ASeq(GcpRungs)
    BY DEF AwsRungs, AzureRungs, GcpRungs, Lists!ASeq
  <2> QED BY <2>1 DEF Chains, RungsOf
<1>2. Lists!ASeq(first) /\ \A i \in DOMAIN first : first[i] = "door" /\ door # Null
  <2>1. CASE door = Null
    BY <2>1, NoneIs
  <2>2. CASE door # Null
    BY <2>2, OneIs
  <2> QED BY <2>1, <2>2
<1>3. list = first \o rest
  BY DEF ChainFor
<1> HIDE DEF first, rest, list
<1>4. Lists!ASeq(list) /\ \A i \in DOMAIN list : Good(list[i])
  <2>1. DOMAIN first = 1..Len(first) /\ DOMAIN rest = 1..Len(rest) /\ Len(first) \in Nat /\ Len(rest) \in Nat
    BY <1>1, <1>2, Lists!SeqLen
  <2>2. /\ Lists!ASeq(list) /\ Len(list) = Len(first) + Len(rest)
        /\ \A i \in 1..(Len(first) + Len(rest)) :
             list[i] = IF i <= Len(first) THEN first[i] ELSE rest[i - Len(first)]
    BY <1>1, <1>2, <1>3, Lists!Concatenated
  <2>3. DOMAIN list = 1..(Len(first) + Len(rest))
    BY <2>2, Lists!SeqLen
  <2>4. ASSUME NEW i \in DOMAIN list PROVE Good(list[i])
    <3>1. CASE i <= Len(first)
      BY <1>2, <2>1, <2>2, <2>3, <3>1
    <3>2. CASE ~(i <= Len(first))
      <4>1. i - Len(first) \in DOMAIN rest /\ list[i] = rest[i - Len(first)]
        BY <2>1, <2>2, <2>3, <3>2
      <4> QED BY <1>1, <4>1 DEF ToSet
    <3> QED BY <3>1, <3>2
  <2> QED BY <2>2, <2>4
<1>5. CASE named = Null
  BY <1>4, <1>5 DEF Walk, list
<1>6. CASE named # Null
  <2> DEFINE wanted == NamedRungs(policy, named)
             parts == [i \in DOMAIN list |-> IF list[i] \in wanted THEN <<list[i]>> ELSE <<>>]
  <2>1. Walk(policy, door, named) = FlattenSeq(parts)
    BY <1>6 DEF Walk, list
  <2> HIDE DEF wanted
  <2>2. Len(list) \in Nat /\ DOMAIN list = 1..Len(list)
    BY <1>4, Lists!SeqLen
  <2>3. Lists!ASeq(parts) /\ DOMAIN parts = DOMAIN list
    BY <2>2, Lists!Tabled
  <2>4. \A i \in DOMAIN parts : Lists!ASeq(parts[i]) /\ \A j \in DOMAIN parts[i] : Good(parts[i][j])
    <3> SUFFICES ASSUME NEW i \in DOMAIN parts
                 PROVE  Lists!ASeq(parts[i]) /\ \A j \in DOMAIN parts[i] : Good(parts[i][j])
      OBVIOUS
    <3>1. Good(list[i])
      BY <1>4, <2>3
    <3> HIDE DEF Good
    <3>2. CASE list[i] \in wanted
      BY <2>3, <3>1, <3>2, OneIs
    <3>3. CASE list[i] \notin wanted
      BY <2>3, <3>3, NoneIs
    <3> QED BY <3>2, <3>3
  <2> HIDE DEF parts, Good
  <2>5. /\ Lists!ASeq(FlattenSeq(parts))
        /\ \A k \in DOMAIN FlattenSeq(parts) :
             \E i \in DOMAIN parts : \E j \in DOMAIN parts[i] : FlattenSeq(parts)[k] = parts[i][j]
    <3>1. Lists!ASeq(parts) /\ \A i \in DOMAIN parts : Lists!ASeq(parts[i])
      BY <2>3, <2>4
    <3> QED BY <3>1, Lists!Flattened, FlattenIs
  <2>6. \A k \in DOMAIN FlattenSeq(parts) : Good(FlattenSeq(parts)[k])
    BY <2>4, <2>5
  <2> QED BY <2>1, <2>5, <2>6 DEF Good
<1> QED BY <1>5, <1>6

\* The least of some places of a sequence.
LEMMA LeastIs ==
  ASSUME NEW n \in Nat, NEW S \in SUBSET (1..n), S # {}
  PROVE  \E x \in S : \A y \in S : x <= y
<1>1. Lists!Min(S) \in S /\ \A x \in S : Lists!Min(S) <= x
  BY Lists!MinInside
<1> QED BY <1>1

(* A walk: what ends it is the first rung that does not go on. *)
LEMMA ResolveIs ==
  ASSUME NEW m, NEW policy \in Chains, NEW door, NEW named,
         NEW i \in DOMAIN Walk(policy, door, named),
         \A j \in DOMAIN Walk(policy, door, named) :
           j < i => Acquire(m, policy, door, named, Walk(policy, door, named)[j]) = "nothing",
         Acquire(m, policy, door, named, Walk(policy, door, named)[i]) = "value"
  PROVE  Resolve(m, policy, door, named) = [at |-> Walk(policy, door, named)[i], outcome |-> "value"]
<1> DEFINE rungs == Walk(policy, door, named)
           outcome == [k \in DOMAIN rungs |-> Acquire(m, policy, door, named, rungs[k])]
           ends == {k \in DOMAIN rungs : ~GoesOn(policy, rungs[k], outcome[k])}
           first == CHOOSE k \in ends : \A j \in ends : k <= j
<1>1. DOMAIN rungs = 1..Len(rungs) /\ Len(rungs) \in Nat
  BY WalkIs, Lists!SeqLen
<1>2. i \in ends /\ ends \subseteq Nat
  BY <1>1 DEF GoesOn
<1>3. \A k \in ends : i <= k
  BY <1>1 DEF GoesOn
<1>4. first = i
  BY <1>2, <1>3
<1> QED BY <1>2, <1>4 DEF Resolve

(* A walk that yields stopped at a rung that did, and no rung before it    *)
(* could have.                                                             *)
LEMMA ResolvedAt ==
  ASSUME NEW m, NEW policy \in Chains, NEW door, NEW named,
         Resolve(m, policy, door, named).outcome = "value"
  PROVE  \E i \in DOMAIN Walk(policy, door, named) :
           /\ Resolve(m, policy, door, named).at = Walk(policy, door, named)[i]
           /\ Acquire(m, policy, door, named, Walk(policy, door, named)[i]) = "value"
           /\ \A j \in DOMAIN Walk(policy, door, named) :
                j < i => Acquire(m, policy, door, named, Walk(policy, door, named)[j]) # "value"
<1> DEFINE rungs == Walk(policy, door, named)
           outcome == [k \in DOMAIN rungs |-> Acquire(m, policy, door, named, rungs[k])]
           ends == {k \in DOMAIN rungs : ~GoesOn(policy, rungs[k], outcome[k])}
           first == CHOOSE k \in ends : \A j \in ends : k <= j
<1>1. DOMAIN rungs = 1..Len(rungs) /\ Len(rungs) \in Nat
  BY WalkIs, Lists!SeqLen
<1>2. ends # {}
  BY DEF Resolve
<1>3. first \in ends /\ \A j \in ends : first <= j
  <2> HIDE DEF outcome
  <2>1. ends \in SUBSET (1..Len(rungs))
    BY <1>1
  <2> HIDE DEF rungs, ends
  <2>2. \E k \in ends : \A j \in ends : k <= j
    BY <1>1, <1>2, <2>1, LeastIs
  <2> QED BY <2>2
<1>4. Resolve(m, policy, door, named) = [at |-> rungs[first], outcome |-> outcome[first]]
  BY <1>2 DEF Resolve
<1> HIDE DEF first
<1>5. \A j \in DOMAIN rungs : j < first => outcome[j] # "value"
  BY <1>1, <1>3 DEF GoesOn
<1>6. first \in DOMAIN rungs /\ outcome[first] = "value"
  BY <1>3, <1>4
<1> QED BY <1>4, <1>5, <1>6

Told(m, policy, door, named, i) ==
  LET probe == Probe(m, policy, door, named, Walk(policy, door, named)[i]) IN
  [kind |-> Walk(policy, door, named)[i],
   state |-> IF probe = "absent" THEN "absent"
             ELSE IF \E j \in 1..(i - 1) :
                       Probe(m, policy, door, named, Walk(policy, door, named)[j]) = "usable"
                  THEN "shadowed"
             ELSE IF probe = "usable" THEN "selected" ELSE "unprobed"]

\* What the doctor tells of a chain when the caller handed nothing over.
Offline(m, policy, door, named) == Explain(m, policy, door, named, FALSE)

\* A step for each rung of the walk.
LEMMA ExplainIs ==
  ASSUME NEW m, NEW policy \in Chains, NEW door, NEW named
  PROVE  /\ Lists!ASeq(Offline(m, policy, door, named))
         /\ DOMAIN Offline(m, policy, door, named) = DOMAIN Walk(policy, door, named)
         /\ \A i \in DOMAIN Walk(policy, door, named) :
              Offline(m, policy, door, named)[i] = Told(m, policy, door, named, i)
<1>1. DOMAIN Walk(policy, door, named) = 1..Len(Walk(policy, door, named)) /\ Len(Walk(policy, door, named)) \in Nat
  BY WalkIs, Lists!SeqLen
<1>2. Offline(m, policy, door, named)
        = [i \in DOMAIN Walk(policy, door, named) |-> Told(m, policy, door, named, i)]
  <2>1. \A i \in DOMAIN Walk(policy, door, named) : \A j \in 1..(i - 1) : j \in DOMAIN Walk(policy, door, named)
    BY <1>1
  <2> QED BY <2>1 DEF Offline, Explain, Told
<1>3. Lists!ASeq([i \in DOMAIN Walk(policy, door, named) |-> Told(m, policy, door, named, i)])
  BY <1>1, Lists!Tabled
<1> QED BY <1>2, <1>3

\* Beside an entry of the caller's, no rung is selected.
LEMMA ExplainShadowed ==
  ASSUME NEW m, NEW policy \in Chains, NEW door, NEW named
  PROVE  /\ Lists!ASeq(Explain(m, policy, door, named, TRUE))
         /\ \A i \in DOMAIN Explain(m, policy, door, named, TRUE) :
              Explain(m, policy, door, named, TRUE)[i].state # "selected"
<1> DEFINE step(i) ==
             [kind |-> Walk(policy, door, named)[i],
              state |-> IF Probe(m, policy, door, named, Walk(policy, door, named)[i]) = "absent"
                        THEN "absent" ELSE "shadowed"]
<1>1. DOMAIN Walk(policy, door, named) = 1..Len(Walk(policy, door, named)) /\ Len(Walk(policy, door, named)) \in Nat
  BY WalkIs, Lists!SeqLen
<1>2. Explain(m, policy, door, named, TRUE) = [i \in DOMAIN Walk(policy, door, named) |-> step(i)]
  BY DEF Explain
<1>3. Lists!ASeq([i \in DOMAIN Walk(policy, door, named) |-> step(i)])
  BY <1>1, Lists!Tabled
<1>4. \A i : step(i).state # "selected"
  OBVIOUS
<1> DEFINE told == Explain(m, policy, door, named, TRUE)
<1>5. told = [i \in DOMAIN Walk(policy, door, named) |-> step(i)]
  BY <1>2
<1> HIDE DEF step
<1>6. Lists!ASeq(told) /\ \A i \in DOMAIN told : told[i].state # "selected"
  <2> HIDE DEF told
  <2> QED BY <1>3, <1>4, <1>5
<1> QED BY <1>6

\* The doctor's walk offers what the walk of a request finds.
LEMMA FoundIsOffered ==
  ASSUME NEW m, NEW policy \in Chains, NEW door, NEW named,
         Resolve(m, policy, door, named).outcome = "value"
  PROVE  \E i \in DOMAIN Offline(m, policy, door, named) :
           /\ Offline(m, policy, door, named)[i].kind = Resolve(m, policy, door, named).at
           /\ Offline(m, policy, door, named)[i].state \in {"selected", "unprobed"}
           /\ \A j \in 1..(i - 1) : Offline(m, policy, door, named)[j].state # "selected"
<1> DEFINE rungs == Walk(policy, door, named)
           steps == Offline(m, policy, door, named)
<1>1. PICK i \in DOMAIN rungs :
        /\ Resolve(m, policy, door, named).at = rungs[i]
        /\ Acquire(m, policy, door, named, rungs[i]) = "value"
        /\ \A j \in DOMAIN rungs : j < i => Acquire(m, policy, door, named, rungs[j]) # "value"
  BY ResolvedAt
<1>2. DOMAIN rungs = 1..Len(rungs) /\ Len(rungs) \in Nat /\ \A k \in DOMAIN rungs : rungs[k] \in {"door"} \cup RungsOf(policy)
  BY WalkIs, Lists!SeqLen
<1>3. \A k \in DOMAIN rungs : Agrees(Probe(m, policy, door, named, rungs[k]), Acquire(m, policy, door, named, rungs[k]),
                                     StopsUnseen(m, policy, named, rungs[k]))
  BY <1>2, RungAgrees
<1>4. DOMAIN steps = DOMAIN rungs /\ \A k \in DOMAIN rungs : steps[k] = Told(m, policy, door, named, k)
  BY ExplainIs
<1> HIDE DEF rungs, steps
<1>5. Probe(m, policy, door, named, rungs[i]) # "absent"
  BY <1>1, <1>3 DEF Agrees
<1>6. \A j \in 1..(i - 1) : j \in DOMAIN rungs /\ Probe(m, policy, door, named, rungs[j]) # "usable"
  <2> SUFFICES ASSUME NEW j \in 1..(i - 1) PROVE j \in DOMAIN rungs /\ Probe(m, policy, door, named, rungs[j]) # "usable"
    OBVIOUS
  <2>1. j \in DOMAIN rungs /\ j < i
    BY <1>2
  <2> QED BY <1>1, <1>3, <2>1 DEF Agrees
<1>7. steps[i].kind = rungs[i] /\ steps[i].state \in {"selected", "unprobed"}
  BY <1>4, <1>5, <1>6 DEF Told, rungs
<1>8. \A j \in 1..(i - 1) : steps[j].state # "selected"
  <2> SUFFICES ASSUME NEW j \in 1..(i - 1) PROVE steps[j].state # "selected"
    OBVIOUS
  <2>1. Probe(m, policy, door, named, rungs[j]) # "usable" /\ steps[j] = Told(m, policy, door, named, j)
    BY <1>4, <1>6
  <2> QED BY <2>1 DEF Told, rungs
<1> QED BY <1>1, <1>4, <1>7, <1>8 DEF steps

\* A rung told to be selected is used, unless one before it answers.
LEMMA SelectedIsFound ==
  ASSUME NEW m, NEW policy \in Chains, NEW door, NEW named,
         NEW i \in DOMAIN Offline(m, policy, door, named),
         Offline(m, policy, door, named)[i].state = "selected",
         \A j \in 1..(i - 1) :
           /\ Offline(m, policy, door, named)[j].state = "absent"
           /\ ~StopsUnseen(m, policy, named, Offline(m, policy, door, named)[j].kind)
  PROVE  Resolve(m, policy, door, named)
           = [at |-> Offline(m, policy, door, named)[i].kind, outcome |-> "value"]
<1> DEFINE rungs == Walk(policy, door, named)
           steps == Offline(m, policy, door, named)
<1>2. DOMAIN rungs = 1..Len(rungs) /\ Len(rungs) \in Nat /\ \A k \in DOMAIN rungs : rungs[k] \in {"door"} \cup RungsOf(policy)
  BY WalkIs, Lists!SeqLen
<1>3. \A k \in DOMAIN rungs : Agrees(Probe(m, policy, door, named, rungs[k]), Acquire(m, policy, door, named, rungs[k]),
                                     StopsUnseen(m, policy, named, rungs[k]))
  BY <1>2, RungAgrees
<1>4. DOMAIN steps = DOMAIN rungs /\ \A k \in DOMAIN rungs : steps[k] = Told(m, policy, door, named, k)
  BY ExplainIs
<1>5. /\ i \in DOMAIN steps /\ steps[i].state = "selected"
      /\ \A j \in 1..(i - 1) : steps[j].state = "absent" /\ ~StopsUnseen(m, policy, named, steps[j].kind)
  OBVIOUS
<1> HIDE DEF rungs, steps
<1>6. i \in DOMAIN rungs /\ Probe(m, policy, door, named, rungs[i]) = "usable" /\ steps[i].kind = rungs[i]
  BY <1>4, <1>5 DEF Told, rungs
<1>7. Acquire(m, policy, door, named, rungs[i]) = "value"
  BY <1>3, <1>6 DEF Agrees
<1>8. ASSUME NEW j \in DOMAIN rungs, j < i PROVE Acquire(m, policy, door, named, rungs[j]) = "nothing"
  <2>1. j \in 1..(i - 1)
    BY <1>2, <1>6, <1>8
  <2>2. steps[j].state = "absent" /\ steps[j] = Told(m, policy, door, named, j)
        /\ ~StopsUnseen(m, policy, named, steps[j].kind)
    BY <1>4, <1>5, <2>1
  <2>3. Probe(m, policy, door, named, rungs[j]) = "absent" /\ steps[j].kind = rungs[j]
    BY <2>2 DEF Told, rungs
  <2> QED BY <1>3, <2>2, <2>3 DEF Agrees
<1>9. Resolve(m, policy, door, named) = [at |-> rungs[i], outcome |-> "value"]
  <2> USE DEF rungs
  <2>1. i \in DOMAIN Walk(policy, door, named)
    BY <1>6
  <2> QED BY <1>7, <1>8, <2>1, ResolveIs
<1> QED BY <1>6, <1>9 DEF steps

EnvNames ==
  {"OPENAI_API_KEY", "GEMINI_API_KEY", "GOOGLE_API_KEY", "XAI_API_KEY", "AWS_BEARER_TOKEN_BEDROCK",
   "ANTHROPIC_FOUNDRY_API_KEY"}

\* A sequence of two.
LEMMA TwoIs ==
  ASSUME NEW d, NEW e
  PROVE  Lists!ASeq(<<d, e>>) /\ Len(<<d, e>>) = 2 /\ DOMAIN <<d, e>> = {1, 2} /\ <<d, e>>[1] = d /\ <<d, e>>[2] = e
<1>1. <<d, e>> \in Seq({d, e})
  OBVIOUS
<1>2. Lists!ASeq(<<d, e>>)
  BY <1>1, Lists!SeqOfSet
<1>3. Len(<<d, e>>) = 2 /\ <<d, e>>[1] = d /\ <<d, e>>[2] = e
  OBVIOUS
<1>4. DOMAIN <<d, e>> = 1..2
  BY <1>2, <1>3, Lists!SeqLen
<1>5. 1..2 = {1, 2}
  OBVIOUS
<1> QED BY <1>2, <1>3, <1>4, <1>5

\* What the rows of the table have in common.
LEMMA RowIs ==
  ASSUME NEW d \in Rows
  PROVE  /\ d.policy \in {"key", "oauth", "oauth-unless-explicit"} \cup Chains
         /\ Chained(d) => d.hosted
         /\ d.hosted => ~d.placeholder /\ (Chained(d) \/ d.policy = "key")
         /\ d.placeholder => d.policy = "key"
BY DEF Rows, Row, Chains, Chained

\* The variables of a row.
LEMMA RowKeys ==
  ASSUME NEW d \in Rows
  PROVE  /\ Lists!ASeq(d.envKeys)
         /\ \A i \in DOMAIN d.envKeys : d.envKeys[i] \in EnvNames
<1>1. \/ d.envKeys = <<>>
      \/ \E a \in EnvNames : d.envKeys = <<a>>
      \/ \E a, b \in EnvNames : d.envKeys = <<a, b>>
  BY DEF Rows, Row, EnvNames
<1>2. CASE d.envKeys = <<>>
  BY <1>2, NoneIs
<1>3. CASE \E a \in EnvNames : d.envKeys = <<a>>
  BY <1>3, OneIs
<1>4. CASE \E a, b \in EnvNames : d.envKeys = <<a, b>>
  BY <1>4, TwoIs
<1> QED BY <1>1, <1>2, <1>3, <1>4

\* The first of a list that is in a set.
LEMMA FirstInIs ==
  ASSUME NEW list, Lists!ASeq(list), NEW set, \A i \in DOMAIN list : list[i] # Null
  PROVE  /\ FirstIn(list, set) = Null => \A i \in DOMAIN list : list[i] \notin set
         /\ FirstIn(list, set) # Null =>
              \E i \in DOMAIN list : /\ FirstIn(list, set) = list[i] /\ list[i] \in set
                                     /\ \A j \in 1..(i - 1) : list[j] \notin set
<1> DEFINE found == {i \in DOMAIN list : list[i] \in set}
<1>1. Len(list) \in Nat /\ DOMAIN list = 1..Len(list) /\ found \in SUBSET (1..Len(list))
  BY Lists!SeqLen
<1>2. CASE found = {}
  BY <1>2 DEF FirstIn
<1>3. CASE found # {}
  <2>1. Min(found) \in found /\ \A y \in found : Min(found) <= y
    <3> HIDE DEF found
    <3>1. \E x \in found : \A y \in found : x <= y
      BY <1>1, <1>3, LeastIs
    <3> QED BY <3>1 DEF Min
  <2>2. FirstIn(list, set) = list[Min(found)]
    BY <1>3 DEF FirstIn
  <2>3. \A k \in found : k \in 1..Len(list) /\ list[k] \in set
    BY <1>1
  <2>4. \A k \in 1..Len(list) : list[k] \in set => k \in found
    BY <1>1
  <2> DEFINE first == Min(found)
  <2>5. first \in found /\ (\A y \in found : first <= y) /\ FirstIn(list, set) = list[first]
    BY <2>1, <2>2
  <2> HIDE DEF found, first
  <2>6. \A j \in 1..(first - 1) : list[j] \notin set
    BY <1>1, <2>3, <2>4, <2>5
  <2> QED BY <1>1, <2>3, <2>5, <2>6
<1> QED BY <1>2, <1>3

\* The schemes a kind of credential travels under.
LEMMA AcceptedIs ==
  /\ Lists!ASeq(Accepted("bearer_token")) /\ DOMAIN Accepted("bearer_token") = {1, 2}
  /\ Accepted("bearer_token")[1] = "bearer" /\ Accepted("bearer_token")[2] = "x-api-key"
  /\ {"bearer", "x-api-key", "query-key"} \subseteq ToSet(Accepted("api_key"))
  /\ "sigv4" \in ToSet(Accepted("aws"))
<1>1. Accepted("bearer_token") = <<"bearer", "x-api-key">>
  BY DEF Accepted
<1>2. Accepted("api_key") = <<"bearer", "x-api-key", "api-key", "query-key">> /\ DOMAIN Accepted("api_key") = 1..4
  BY DEF Accepted
<1>3. Accepted("aws") = <<"sigv4">>
  BY DEF Accepted
<1>4. 1 \in 1..4 /\ 2 \in 1..4 /\ 4 \in 1..4
  OBVIOUS
<1> QED BY <1>1, <1>2, <1>3, <1>4, OneIs, TwoIs DEF ToSet

\* The schemes of a row: one for a key, and for what its policy acquires.
LEMMA RowSchemes ==
  ASSUME NEW d \in Rows
  PROVE  /\ Lists!ASeq(d.schemes) /\ \A i \in DOMAIN d.schemes : d.schemes[i] \in Schemes
         /\ \E i \in DOMAIN d.schemes : d.schemes[i] \in {"bearer", "x-api-key", "query-key"}
         /\ d.policy # "key" => \E i \in DOMAIN d.schemes : d.schemes[i] \in {"bearer", "x-api-key"}
         /\ d.policy = "aws-chain" => \E i \in DOMAIN d.schemes : d.schemes[i] = "sigv4"
<1>1. \/ d.schemes = <<"bearer">>
      \/ d.schemes \in {<<"x-api-key">>, <<"query-key">>} /\ d.policy = "key"
      \/ d.schemes = <<"sigv4", "x-api-key">>
      \/ d.schemes = <<"x-api-key", "bearer">>
  BY DEF Rows, Row
<1>2. d.policy = "aws-chain" => d.schemes = <<"sigv4", "x-api-key">>
  BY DEF Rows, Row
<1>3. CASE d.schemes = <<"bearer">>
  BY <1>2, <1>3, OneIs DEF Schemes
<1>4. CASE d.schemes \in {<<"x-api-key">>, <<"query-key">>} /\ d.policy = "key"
  BY <1>2, <1>4, OneIs DEF Schemes
<1>5. CASE d.schemes = <<"sigv4", "x-api-key">>
  BY <1>2, <1>5, TwoIs DEF Schemes
<1>6. CASE d.schemes = <<"x-api-key", "bearer">>
  BY <1>2, <1>6, TwoIs DEF Schemes
<1> QED BY <1>1, <1>3, <1>4, <1>5, <1>6

\* A key can be carried to every door, a token and a signature to those that may get one.
LEMMA SchemeFound ==
  ASSUME NEW d \in Rows
  PROVE  /\ SelectScheme(d, "api_key") # Null
         /\ d.policy # "key" => SelectScheme(d, "bearer_token") # Null
         /\ d.policy = "aws-chain" => SelectScheme(d, "aws") # Null
<1>1. Null \notin Schemes
  BY NamesAssumption
<1>2. \A i \in DOMAIN d.schemes : d.schemes[i] # Null
  BY <1>1, RowSchemes
<1>3. SelectScheme(d, "api_key") # Null
  <2>1. SelectScheme(d, "api_key") = FirstIn(d.schemes, ToSet(Accepted("api_key")))
    BY DEF SelectScheme
  <2>2. \E i \in DOMAIN d.schemes : d.schemes[i] \in ToSet(Accepted("api_key"))
    BY RowSchemes, AcceptedIs
  <2> QED BY <1>2, <2>1, <2>2, RowSchemes, FirstInIs
<1>4. ASSUME d.policy # "key" PROVE SelectScheme(d, "bearer_token") # Null
  <2>1. SelectScheme(d, "bearer_token") = FirstIn(Accepted("bearer_token"), ToSet(d.schemes))
    BY DEF SelectScheme
  <2>2. \E i \in DOMAIN Accepted("bearer_token") : Accepted("bearer_token")[i] \in ToSet(d.schemes)
    BY <1>4, RowSchemes, AcceptedIs DEF ToSet
  <2>3. \A i \in DOMAIN Accepted("bearer_token") : Accepted("bearer_token")[i] # Null
    BY <1>1, AcceptedIs DEF Schemes
  <2> QED BY <2>1, <2>2, <2>3, AcceptedIs, FirstInIs
<1>5. ASSUME d.policy = "aws-chain" PROVE SelectScheme(d, "aws") # Null
  <2>1. SelectScheme(d, "aws") = FirstIn(d.schemes, ToSet(Accepted("aws")))
    BY DEF SelectScheme
  <2>2. \E i \in DOMAIN d.schemes : d.schemes[i] \in ToSet(Accepted("aws"))
    BY <1>5, RowSchemes, AcceptedIs
  <2> QED BY <1>2, <2>1, <2>2, RowSchemes, FirstInIs
<1> QED BY <1>3, <1>4, <1>5

\* What a source holds can be carried to its door.
Carried(d, from) == SelectScheme(d, KindOf(d, from)) # Null

\* So what any source holds can be carried to the doors it serves.
LEMMA SourcesCarried ==
  ASSUME NEW d \in Rows
  PROVE  /\ \A from \in {"api_keys", "placeholder", "named"} \cup EnvNames : Carried(d, from)
         /\ d.policy # "key" => Carried(d, "stored")
         /\ Carried(d, "connection")
         /\ d.policy \in Chains => \A r \in {"door"} \cup RungsOf(d.policy) : Carried(d, r)
<1> USE RungSets
<1>1. ASSUME NEW from \in {"api_keys", "placeholder", "named"} \cup EnvNames PROVE Carried(d, from)
  <2>1. KindOf(d, from) = "api_key"
    BY DEF KindOf, EnvNames
  <2> QED BY <2>1, SchemeFound DEF Carried
<1>2. ASSUME d.policy # "key" PROVE Carried(d, "stored")
  <2>1. KindOf(d, "stored") = "bearer_token"
    BY DEF KindOf
  <2> QED BY <1>2, <2>1, SchemeFound DEF Carried
<1>3. Carried(d, "connection")
  <2>1. KindOf(d, "connection") = IF d.policy = "oauth" THEN "bearer_token" ELSE "api_key"
    BY DEF KindOf
  <2> QED BY <2>1, SchemeFound DEF Carried
<1>4. ASSUME d.policy \in Chains, NEW r \in {"door"} \cup RungsOf(d.policy) PROVE Carried(d, r)
  <2>1. CASE r = "door"
    <3>1. KindOf(d, r) \in {"bearer_token", "api_key"}
      BY <2>1 DEF KindOf
    <3> QED BY <1>4, <3>1, SchemeFound DEF Carried, Chains
  <2>2. CASE r # "door" /\ d.policy = "aws-chain"
    <3>1. KindOf(d, r) = "aws"
      BY <1>4, <2>2 DEF KindOf, RungsOf
    <3> QED BY <2>2, <3>1, SchemeFound DEF Carried
  <2>3. CASE r # "door" /\ d.policy \in {"azure-chain", "gcp-chain"}
    <3>1. KindOf(d, r) = "bearer_token"
      BY <1>4, <2>3 DEF KindOf, RungsOf
    <3> QED BY <2>3, <3>1, SchemeFound DEF Carried
  <2> QED BY <1>4, <2>1, <2>2, <2>3 DEF Chains
<1> QED BY <1>1, <1>2, <1>3, <1>4

\* What the doctor offers a request, and what it tells it will be used.
Offers(steps, from) ==
  \E i \in DOMAIN steps :
    /\ steps[i].kind = from /\ Offered(steps, i)
    /\ \A j \in 1..(i - 1) : steps[j].state # "selected"

Passed(s, d, step) == step.state = "absent" /\ ~StopsUnseen(s.machine, d.policy, s.named, step.kind)

Leads(s, d, steps, from) ==
  \A i \in DOMAIN steps :
    steps[i].state = "selected" /\ (\A j \in 1..(i - 1) : Passed(s, d, steps[j])) => from = steps[i].kind

Truthful(s, d, steps, from) == (from # Null => Offers(steps, from)) /\ Leads(s, d, steps, from)
Clear(steps) == \A i \in DOMAIN steps : steps[i].state # "selected"

\* A source is taken unless none is selected.
LEMMA NotTaken == \A steps : Taken(steps) <=> ~Clear(steps)
BY DEF Taken, Clear

Follows(c, a, b) == \A k \in DOMAIN b : Len(a) + k \in DOMAIN c /\ c[Len(a) + k] = b[k]

\* One list of steps behind another.
LEMMA Joined ==
  ASSUME NEW a, Lists!ASeq(a), NEW b, Lists!ASeq(b)
  PROVE  /\ Lists!ASeq(a \o b) /\ DOMAIN (a \o b) = 1..(Len(a) + Len(b))
         /\ Len(a) \in Nat /\ DOMAIN a = 1..Len(a) /\ Len(b) \in Nat /\ DOMAIN b = 1..Len(b)
         /\ \A i \in DOMAIN a : i \in DOMAIN (a \o b) /\ (a \o b)[i] = a[i]
         /\ Follows(a \o b, a, b)
<1> DEFINE c == a \o b
<1>1. Len(a) \in Nat /\ DOMAIN a = 1..Len(a) /\ Len(b) \in Nat /\ DOMAIN b = 1..Len(b)
  BY Lists!SeqLen
<1>2. Lists!ASeq(c) /\ Len(c) = Len(a) + Len(b)
      /\ \A i \in 1..(Len(a) + Len(b)) : c[i] = IF i <= Len(a) THEN a[i] ELSE b[i - Len(a)]
  BY Lists!Concatenated
<1>3. DOMAIN c = 1..(Len(a) + Len(b))
  BY <1>2, Lists!SeqLen
<1> HIDE DEF c
<1>4. \A i \in DOMAIN a : i \in DOMAIN c /\ c[i] = a[i]
  BY <1>1, <1>2, <1>3
<1>5. \A i \in DOMAIN b : Len(a) + i \in DOMAIN c /\ c[Len(a) + i] = b[i]
  <2> SUFFICES ASSUME NEW i \in DOMAIN b PROVE Len(a) + i \in DOMAIN c /\ c[Len(a) + i] = b[i]
    OBVIOUS
  <2>1. Len(a) + i \in 1..(Len(a) + Len(b)) /\ ~(Len(a) + i <= Len(a)) /\ (Len(a) + i) - Len(a) = i
    BY <1>1
  <2> QED BY <1>2, <1>3, <2>1
<1>6. Follows(c, a, b)
  BY <1>5 DEF Follows
<1> QED BY <1>1, <1>2, <1>3, <1>4, <1>6 DEF c

\* A step of the whole is one of the front or one of the back.
LEMMA Parts ==
  ASSUME NEW a, Lists!ASeq(a), NEW b, Lists!ASeq(b), NEW i \in DOMAIN (a \o b)
  PROVE  i \in DOMAIN a \/ \E k \in DOMAIN b : i = Len(a) + k
<1>1. i \in 1..(Len(a) + Len(b)) /\ Len(a) \in Nat /\ Len(b) \in Nat /\ DOMAIN a = 1..Len(a) /\ DOMAIN b = 1..Len(b)
  BY Joined
<1>2. CASE i <= Len(a)
  BY <1>1, <1>2
<1>3. CASE ~(i <= Len(a))
  <2>1. i - Len(a) \in 1..Len(b) /\ i = Len(a) + (i - Len(a))
    BY <1>1, <1>3
  <2> QED BY <1>1, <2>1
<1> QED BY <1>2, <1>3

\* None is selected if none is in the front and none in the back.
LEMMA ClearBoth ==
  ASSUME NEW a, Lists!ASeq(a), Clear(a), NEW b, Lists!ASeq(b), Clear(b)
  PROVE  Clear(a \o b)
<1> SUFFICES ASSUME NEW i \in DOMAIN (a \o b) PROVE (a \o b)[i].state # "selected"
  BY DEF Clear
<1>1. i \in DOMAIN a \/ \E k \in DOMAIN b : i = Len(a) + k
  BY Parts
<1>2. CASE i \in DOMAIN a
  BY <1>2, Joined DEF Clear
<1>3. CASE \E k \in DOMAIN b : i = Len(a) + k
  <2>1. PICK k \in DOMAIN b : i = Len(a) + k
    BY <1>3
  <2>2. (a \o b)[i] = b[k]
    <3> DEFINE c == a \o b
    <3>1. Follows(c, a, b)
      BY Joined
    <3> HIDE DEF c
    <3>2. c[i] = b[k]
      BY <2>1, <3>1 DEF Follows
    <3> QED BY <3>2 DEF c
  <2> QED BY <2>2 DEF Clear
<1> QED BY <1>1, <1>2, <1>3

\* Where none is selected, nothing may be used.
LEMMA ClearIsTruthful ==
  ASSUME NEW s, NEW d, NEW steps, Clear(steps)
  PROVE  Truthful(s, d, steps, Null)
BY DEF Truthful, Leads, Clear

\* What the front offers is offered, whatever follows.
LEMMA FrontIsTruthful ==
  ASSUME NEW s, NEW d, NEW a, Lists!ASeq(a), NEW b, Lists!ASeq(b), NEW from, from # Null,
         Truthful(s, d, a, from)
  PROVE  Truthful(s, d, a \o b, from)
<1> DEFINE c == a \o b
<1>1. /\ Len(a) \in Nat /\ DOMAIN a = 1..Len(a) /\ Len(b) \in Nat /\ DOMAIN b = 1..Len(b)
      /\ \A i \in DOMAIN a : i \in DOMAIN c /\ c[i] = a[i]
  BY Joined
<1>2. PICK i \in DOMAIN a : /\ a[i].kind = from /\ Offered(a, i)
                            /\ \A j \in 1..(i - 1) : a[j].state # "selected"
  BY DEF Truthful, Offers
<1>3. \A j \in 1..(i - 1) : j \in DOMAIN a
  BY <1>1
<1>4. \A k \in DOMAIN c : k \in DOMAIN a \/ \E l \in DOMAIN b : k = Len(a) + l
  BY Parts
<1> HIDE DEF c
<1>5. Offers(c, from)
  BY <1>1, <1>2, <1>3 DEF Offers, Offered
<1>6. ASSUME NEW k \in DOMAIN c, c[k].state = "selected", \A j \in 1..(k - 1) : Passed(s, d, c[j])
      PROVE  from = c[k].kind
  <2>1. CASE k \in DOMAIN a
    <3>1. \A j \in 1..(k - 1) : j \in DOMAIN a /\ c[j] = a[j]
      BY <1>1, <2>1
    <3> QED BY <1>1, <1>6, <2>1, <3>1 DEF Truthful, Leads
  <2>2. CASE \E l \in DOMAIN b : k = Len(a) + l
    <3>1. i \in 1..(k - 1)
      BY <1>1, <2>2
    <3>2. c[i].state = "absent" /\ c[i] = a[i]
      BY <1>1, <1>6, <3>1 DEF Passed
    <3> QED BY <1>2, <3>2 DEF Offered
  <2> QED BY <1>4, <2>1, <2>2
<1> QED BY <1>5, <1>6 DEF Truthful, Leads, c

\* Behind steps none of which is selected, the rest is as true as it was.
LEMMA BackIsTruthful ==
  ASSUME NEW s, NEW d, NEW a, Lists!ASeq(a), Clear(a), NEW b, Lists!ASeq(b), NEW from,
         Truthful(s, d, b, from)
  PROVE  Truthful(s, d, a \o b, from)
<1> DEFINE c == a \o b
<1>1. /\ Len(a) \in Nat /\ DOMAIN a = 1..Len(a) /\ Len(b) \in Nat /\ DOMAIN b = 1..Len(b)
      /\ DOMAIN c = 1..(Len(a) + Len(b))
      /\ \A i \in DOMAIN a : i \in DOMAIN c /\ c[i] = a[i]
      /\ Follows(c, a, b)
  BY Joined
<1>2. \A k \in DOMAIN c : k \in DOMAIN a \/ \E l \in DOMAIN b : k = Len(a) + l
  BY Parts
<1> HIDE DEF c
<1>3. ASSUME from # Null PROVE Offers(c, from)
  <2>1. PICK i \in DOMAIN b : /\ b[i].kind = from /\ Offered(b, i)
                              /\ \A j \in 1..(i - 1) : b[j].state # "selected"
    BY <1>3 DEF Truthful, Offers
  <2>2. ASSUME NEW j \in 1..((Len(a) + i) - 1) PROVE c[j].state # "selected"
    <3>1. j \in DOMAIN c /\ i \in 1..Len(b)
      BY <1>1
    <3>2. CASE j \in DOMAIN a
      BY <1>1, <3>2 DEF Clear
    <3>3. CASE \E l \in DOMAIN b : j = Len(a) + l
      <4>1. PICK l \in DOMAIN b : j = Len(a) + l
        BY <3>3
      <4>2. l \in 1..(i - 1)
        BY <1>1, <3>1, <4>1
      <4> QED BY <1>1, <2>1, <4>1, <4>2 DEF Follows
    <3> QED BY <1>2, <3>1, <3>2, <3>3
  <2>3. Len(a) + i \in DOMAIN c /\ c[Len(a) + i] = b[i]
    BY <1>1 DEF Follows
  <2> QED BY <2>1, <2>2, <2>3 DEF Offers, Offered
<1>4. ASSUME NEW k \in DOMAIN c, c[k].state = "selected", \A j \in 1..(k - 1) : Passed(s, d, c[j])
      PROVE  from = c[k].kind
  <2>1. CASE k \in DOMAIN a
    BY <1>1, <1>4, <2>1 DEF Clear
  <2>2. CASE \E l \in DOMAIN b : k = Len(a) + l
    <3>1. PICK l \in DOMAIN b : k = Len(a) + l
      BY <2>2
    <3>2. ASSUME NEW j \in 1..(l - 1) PROVE Passed(s, d, b[j])
      <4>1. j \in DOMAIN b /\ Len(a) + j \in 1..(k - 1)
        BY <1>1, <3>1
      <4> QED BY <1>1, <1>4, <4>1 DEF Follows
    <3> QED BY <1>1, <1>4, <3>1, <3>2 DEF Truthful, Leads, Follows
  <2> QED BY <1>2, <2>1, <2>2
<1> QED BY <1>3, <1>4 DEF Truthful, Leads, c

\* A single selected step offers itself.
LEMMA OneIsTruthful ==
  ASSUME NEW s, NEW d, NEW kind
  PROVE  Lists!ASeq(<<Step(kind, "selected")>>) /\ Truthful(s, d, <<Step(kind, "selected")>>, kind)
<1> DEFINE one == <<Step(kind, "selected")>>
<1>1. Lists!ASeq(one) /\ DOMAIN one = {1} /\ one[1].kind = kind /\ one[1].state = "selected"
  BY OneIs DEF Step
<1> HIDE DEF one
<1>2. 1..(1 - 1) = {}
  OBVIOUS
<1>3. Offers(one, kind) /\ Leads(s, d, one, kind)
  BY <1>1, <1>2 DEF Offers, Offered, Leads
<1> QED BY <1>1, <1>3 DEF Truthful, one

\* A single step of another state selects nothing.
LEMMA OneIsClear ==
  ASSUME NEW kind, NEW state, state # "selected"
  PROVE  Lists!ASeq(<<Step(kind, state)>>) /\ Clear(<<Step(kind, state)>>)
BY OneIs DEF Step, Clear

\* Nor does no step.
LEMMA NoneIsClear == Lists!ASeq(<<>>) /\ Clear(<<>>)
BY NoneIs DEF Clear

\* A variable has a name.
LEMMA KeysAreNames ==
  ASSUME NEW d \in Rows
  PROVE  \A i \in DOMAIN d.envKeys : d.envKeys[i] # Null
<1> SUFFICES ASSUME NEW i \in DOMAIN d.envKeys PROVE d.envKeys[i] # Null
  OBVIOUS
<1>1. d.envKeys[i] \in UNION {ToSet(e.envKeys) : e \in Rows}
  BY DEF ToSet
<1>2. d.envKeys[i] \in Sources
  BY <1>1 DEF Sources
<1> QED BY <1>2, NamesAssumption

\* The first variable of a row that is set.
LEMMA FirstSetIs ==
  ASSUME NEW s, NEW d \in Rows
  PROVE  LET first == FirstSet(s, d.envKeys) IN
         /\ first = Null => \A i \in DOMAIN d.envKeys : ~IsSet(s, d.envKeys[i])
         /\ first # Null =>
              /\ first \in EnvNames
              /\ \E i \in DOMAIN d.envKeys : /\ first = d.envKeys[i] /\ IsSet(s, d.envKeys[i])
                                             /\ \A j \in 1..(i - 1) : ~IsSet(s, d.envKeys[j])
<1> DEFINE keys == d.envKeys
           env == s.machine.env
           first == FirstIn(keys, env)
<1>1. /\ first = Null => \A i \in DOMAIN keys : keys[i] \notin env
      /\ first # Null => \E i \in DOMAIN keys : /\ first = keys[i] /\ keys[i] \in env
                                                /\ \A j \in 1..(i - 1) : keys[j] \notin env
  BY KeysAreNames, RowKeys, FirstInIs
<1>2. \A i \in DOMAIN keys : keys[i] \in EnvNames
  BY RowKeys
<1>3. FirstSet(s, d.envKeys) = first /\ \A k : IsSet(s, k) <=> k \in env
  BY DEF FirstSet, IsSet, Has
<1> HIDE DEF first, env
<1> QED BY <1>1, <1>2, <1>3

\* A step for each variable of a row.
LEMMA EnvStepsAre ==
  ASSUME NEW s, NEW d \in Rows, NEW state
  PROVE  /\ Lists!ASeq(EnvSteps(s, d, state)) /\ DOMAIN EnvSteps(s, d, state) = DOMAIN d.envKeys
         /\ \A i \in DOMAIN d.envKeys :
              /\ EnvSteps(s, d, state)[i].kind = d.envKeys[i]
              /\ EnvSteps(s, d, state)[i].state =
                   IF ~IsSet(s, d.envKeys[i]) THEN "absent"
                   ELSE IF d.envKeys[i] = FirstSet(s, d.envKeys) THEN state ELSE "shadowed"
<1> DEFINE steps == EnvSteps(s, d, state)
           table == [i \in DOMAIN d.envKeys |->
                       Step(d.envKeys[i],
                            IF ~IsSet(s, d.envKeys[i]) THEN "absent"
                            ELSE IF d.envKeys[i] = FirstSet(s, d.envKeys) THEN state ELSE "shadowed")]
<1>1. steps = table
  BY DEF EnvSteps
<1>2. Len(d.envKeys) \in Nat /\ DOMAIN d.envKeys = 1..Len(d.envKeys)
  BY RowKeys, Lists!SeqLen
<1>3. Lists!ASeq(table)
  BY <1>2, Lists!Tabled
<1>4. \A i \in DOMAIN d.envKeys :
        /\ table[i].kind = d.envKeys[i]
        /\ table[i].state = IF ~IsSet(s, d.envKeys[i]) THEN "absent"
                            ELSE IF d.envKeys[i] = FirstSet(s, d.envKeys) THEN state ELSE "shadowed"
  BY DEF Step
<1> QED BY <1>1, <1>3, <1>4

\* In the shadow of a source, no variable is selected.
LEMMA EnvShadowed ==
  ASSUME NEW s, NEW d \in Rows
  PROVE  Lists!ASeq(EnvSteps(s, d, "shadowed")) /\ Clear(EnvSteps(s, d, "shadowed"))
BY EnvStepsAre DEF Clear

\* The variables of a provider offer the first of them that is set.
LEMMA EnvOffered ==
  ASSUME NEW s, NEW d \in Rows
  PROVE  /\ Lists!ASeq(EnvSteps(s, d, "selected"))
         /\ Truthful(s, d, EnvSteps(s, d, "selected"), FirstSet(s, d.envKeys))
         /\ FirstSet(s, d.envKeys) = Null => Clear(EnvSteps(s, d, "selected"))
<1> DEFINE steps == EnvSteps(s, d, "selected")
           first == FirstSet(s, d.envKeys)
<1>1. Lists!ASeq(steps) /\ DOMAIN steps = DOMAIN d.envKeys
      /\ \A i \in DOMAIN d.envKeys :
              /\ steps[i].kind = d.envKeys[i]
              /\ steps[i].state =
                   IF ~IsSet(s, d.envKeys[i]) THEN "absent"
                   ELSE IF d.envKeys[i] = first THEN "selected" ELSE "shadowed"
  BY EnvStepsAre
<1>2. /\ first = Null => \A i \in DOMAIN d.envKeys : ~IsSet(s, d.envKeys[i])
      /\ first # Null => \E i \in DOMAIN d.envKeys : /\ first = d.envKeys[i] /\ IsSet(s, d.envKeys[i])
                                                     /\ \A j \in 1..(i - 1) : ~IsSet(s, d.envKeys[j])
  BY FirstSetIs
<1>3. Len(d.envKeys) \in Nat /\ DOMAIN d.envKeys = 1..Len(d.envKeys)
  BY RowKeys, Lists!SeqLen
<1> HIDE DEF steps, first
<1>4. first = Null => Clear(steps)
  BY <1>1, <1>2 DEF Clear
<1>5. Leads(s, d, steps, first)
  BY <1>1 DEF Leads
<1>6. ASSUME first # Null PROVE Offers(steps, first)
  <2>1. PICK i \in DOMAIN d.envKeys : /\ first = d.envKeys[i] /\ IsSet(s, d.envKeys[i])
                                      /\ \A j \in 1..(i - 1) : ~IsSet(s, d.envKeys[j])
    BY <1>2, <1>6
  <2>2. \A j \in 1..(i - 1) : j \in DOMAIN d.envKeys
    BY <1>3
  <2>3. \A j \in 1..(i - 1) : steps[j].state = "absent"
    BY <1>1, <2>1, <2>2
  <2> QED BY <1>1, <2>1, <2>3 DEF Offers, Offered
<1> QED BY <1>1, <1>4, <1>5, <1>6 DEF Truthful, steps, first

Bare == {"api_keys", "placeholder"} \cup EnvNames

Uses(s, d, from) == FirstRequest(s, d) \in {From(from), Without("settings later")}

\* A source or an error is not the absent value.
LEMMA WhysDiffer ==
  /\ Null \notin {"settings", "settings later", "secret", "chain", "refused", "unknown", "api_keys", "stored",
                  "placeholder", "connection", "named", "door"}
BY NamesAssumption DEF Sources

\* Where nothing is built, the first request ends for the same reason.
LEMMA NothingBuilt ==
  ASSUME NEW s, NEW d, NEW why, Build(s, d) = Without(why)
  PROVE  FirstRequest(s, d) = Without(why)
BY DEF FirstRequest, Without

\* A text that was handed over or is in the environment is used as it is.
LEMMA BareBuilt ==
  ASSUME NEW s, NEW d \in Rows, NEW from \in Bare, from # Null, Build(s, d) = From(from)
  PROVE  Uses(s, d, from)
<1> DEFINE built == Build(s, d)
<1>1. built.from = from /\ from \notin {"stored", "chain", "named", "connection"}
  BY DEF From, Bare, EnvNames
<1>2. Travels(d, KindOf(d, from), built) = built
  <2>1. SelectScheme(d, KindOf(d, from)) # Null
    BY SourcesCarried DEF Carried, Bare
  <2> QED BY <2>1 DEF Travels
<1>3. Acquired(s, d, built) = built
  <2>1. ~WalksChain(s, built)
    BY <1>1 DEF WalksChain
  <2> QED BY <1>1, <1>2, <2>1 DEF Acquired
<1>4. built.from # Null /\ FirstRequest(s, d) \in {Without("settings later"), Acquired(s, d, built)}
  <2> HIDE DEF built
  <2>1. built.from # Null
    BY <1>1
  <2>2. FirstRequest(s, d) \in {Without("settings later"), Acquired(s, d, Build(s, d))}
    BY <2>1 DEF FirstRequest, built
  <2> QED BY <2>1, <2>2 DEF built
<1> QED BY <1>3, <1>4 DEF Uses

\* A stored login is used if it is usable.
LEMMA StoredBuilt ==
  ASSUME NEW s, NEW d \in Rows, d.policy # "key", Build(s, d) = From("stored")
  PROVE  \/ FirstRequest(s, d) = Without("settings later")
         \/ s.stored = "usable" /\ FirstRequest(s, d) = From("stored")
         \/ s.stored # "usable" /\ FirstRequest(s, d) = Without("stored login")
<1> DEFINE built == Build(s, d)
<1>1. built.from = "stored"
  BY DEF From
<1>2. Travels(d, "bearer_token", built) = built
  <2>1. SelectScheme(d, "bearer_token") # Null
    BY SchemeFound
  <2> QED BY <2>1 DEF Travels
<1>3. Acquired(s, d, built) = IF s.stored = "usable" THEN built ELSE Without("stored login")
  BY <1>1, <1>2 DEF Acquired, WalksChain
<1>4. FirstRequest(s, d) \in {Without("settings later"), Acquired(s, d, built)}
  <2> HIDE DEF built
  <2>1. built.from # Null
    BY <1>1, WhysDiffer
  <2> QED BY <2>1 DEF FirstRequest, built
<1> QED BY <1>3, <1>4

\* A chain is used as far as its walk yields.
LEMMA ChainBuilt ==
  ASSUME NEW s, NEW d \in Rows, d.policy \in Chains, Build(s, d) = From("chain")
  PROVE  LET found == Resolve(s.machine, d.policy, Door(d), s.named) IN
         \/ FirstRequest(s, d) = Without("settings later")
         \/ found.outcome = "value" /\ FirstRequest(s, d) = From(found.at)
         \/ found.outcome # "value" /\ FirstRequest(s, d) = Without("chain")
<1> DEFINE built == Build(s, d)
           found == Resolve(s.machine, d.policy, Door(d), s.named)
<1>1. built.from = "chain"
  BY DEF From
<1>2. ASSUME found.outcome = "value" PROVE Travels(d, KindOf(d, found.at), From(found.at)) = From(found.at)
  <2>1. found.at \in {"door"} \cup RungsOf(d.policy)
    BY <1>2, ResolvedAt, WalkIs
  <2>2. SelectScheme(d, KindOf(d, found.at)) # Null
    BY <2>1, SourcesCarried DEF Carried
  <2> QED BY <2>2 DEF Travels
<1>3. WalksChain(s, built) /\ NamedOf(s, built) = s.named
  BY <1>1 DEF WalksChain, NamedOf
<1>4. Acquired(s, d, built) = IF found.outcome # "value" THEN Without("chain")
                              ELSE Travels(d, KindOf(d, found.at), From(found.at))
  <2> HIDE DEF built
  <2> QED BY <1>1, <1>3 DEF Acquired
<1>5. FirstRequest(s, d) \in {Without("settings later"), Acquired(s, d, built)}
  <2> HIDE DEF built
  <2>1. built.from # Null
    BY <1>1, WhysDiffer
  <2> QED BY <2>1 DEF FirstRequest, built
<1> HIDE DEF found
<1>6. \/ FirstRequest(s, d) = Without("settings later")
      \/ found.outcome = "value" /\ FirstRequest(s, d) = From(found.at)
      \/ found.outcome # "value" /\ FirstRequest(s, d) = Without("chain")
  BY <1>2, <1>4, <1>5
<1> QED BY <1>6 DEF found

\* What the router builds where there is no managed store, or why it does not.
LEMMA BuildIs ==
  ASSUME NEW s, NEW d \in Rows, s.managed = Null, ~ConstructorRefuses(s, d), ~ExplainRefuses(s, d)
  PROVE  LET entry == ApiKeysSource(s, d)
             first == FirstSet(s, d.envKeys)
         IN
         /\ d.policy = "oauth" => Build(s, d) = From("stored")
         /\ d.policy # "oauth" /\ ReportsSettingError(s, d) => Build(s, d) = Without("settings")
         /\ d.policy # "oauth" /\ ~ReportsSettingError(s, d) =>
              /\ entry # Null => Build(s, d) = From("api_keys")
              /\ entry = Null /\ Chained(d) => Build(s, d) = From("chain")
              /\ entry = Null /\ d.policy = "oauth-unless-explicit" =>
                   Build(s, d) = IF s.stored = "usable" THEN From("stored")
                                 ELSE IF Blocks(s) THEN Without("blocked")
                                 ELSE IF first # Null THEN From(first) ELSE From("stored")
              /\ entry = Null /\ d.policy = "key" =>
                   Build(s, d) = IF first # Null THEN From(first)
                                 ELSE IF d.placeholder THEN From("placeholder") ELSE Without("missing")
<1> DEFINE entry == ApiKeysSource(s, d)
           first == FirstSet(s, d.envKeys)
<1>1. Build(s, d) = BuildLm(s, d)
  BY DEF Build, ConstructorRefuses, ExplainRefuses
<1>2. entry # "refused"
  BY DEF ExplainRefuses
<1>3. ReportsSettingError(s, d) <=> d.hosted /\ SettingError(s, d) # Null
  BY DEF ReportsSettingError
<1>4. CASE d.policy = "oauth"
  BY <1>1, <1>4 DEF BuildLm
<1>5. CASE d.policy # "oauth" /\ ReportsSettingError(s, d)
  BY <1>1, <1>2, <1>3, <1>5 DEF BuildLm
<1>6. CASE d.policy # "oauth" /\ ~ReportsSettingError(s, d)
  <2> HIDE DEF entry
  <2>1. Build(s, d) = IF entry # Null THEN From("api_keys")
         ELSE IF Chained(d) THEN From("chain")
         ELSE IF d.policy = "oauth-unless-explicit" /\ s.stored = "usable" THEN From("stored")
         ELSE IF d.policy = "oauth-unless-explicit" /\ Blocks(s) THEN Without("blocked")
         ELSE FromEnvOrPlaceholder(s, d)
    BY <1>1, <1>2, <1>3, <1>6 DEF BuildLm, entry
  <2>2. d.policy \in {"key", "oauth-unless-explicit"} => ~Chained(d)
    BY DEF Chained
  <2>3. d.policy = "oauth-unless-explicit" => ~d.placeholder
    BY RowIs
  <2> HIDE DEF first
  <2>4. FromEnvOrPlaceholder(s, d) =
          IF first # Null THEN From(first) ELSE IF d.placeholder THEN From("placeholder")
          ELSE IF d.policy = "oauth-unless-explicit" THEN From("stored") ELSE Without("missing")
    BY DEF FromEnvOrPlaceholder, first
  <2>5. entry # Null => Build(s, d) = From("api_keys")
    BY <2>1
  <2>6. entry = Null /\ Chained(d) => Build(s, d) = From("chain")
    BY <2>1
  <2>7. entry = Null /\ d.policy = "oauth-unless-explicit" =>
                   Build(s, d) = IF s.stored = "usable" THEN From("stored")
                                 ELSE IF Blocks(s) THEN Without("blocked")
                                 ELSE IF first # Null THEN From(first) ELSE From("stored")
    BY <2>1, <2>2, <2>3, <2>4
  <2>8. entry = Null /\ d.policy = "key" =>
                   Build(s, d) = IF first # Null THEN From(first)
                                 ELSE IF d.placeholder THEN From("placeholder") ELSE Without("missing")
    BY <2>1, <2>2, <2>4
  <2> QED BY <1>6, <2>5, <2>6, <2>7, <2>8 DEF entry, first
<1> QED BY <1>4, <1>5, <1>6

(* Without a managed store: the request stops at the settings the doctor   *)
(* complains of, or at the metadata server, or it meets what was offered.  *)
Meets(s, d) ==
  \/ ReportsSettingError(s, d) /\ FirstRequest(s, d) = Without("settings")
  \/ ~ReportsSettingError(s, d) /\ FirstRequest(s, d) = Without("settings later")
  \/ /\ ~ReportsSettingError(s, d) /\ FirstRequest(s, d).why # "settings"
     /\ Truthful(s, d, ExplainAuth(s, d), FirstRequest(s, d).from)

\* The request that uses what was offered meets it.
LEMMA Reached ==
  ASSUME NEW s, NEW d, ~ReportsSettingError(s, d), NEW from,
         Uses(s, d, from),
         Truthful(s, d, ExplainAuth(s, d), from)
  PROVE  Meets(s, d)
<1>1. From(from).why # "settings" /\ From(from).from = from
  BY WhysDiffer DEF From
<1> QED BY <1>1 DEF Meets, Uses

\* A request that ends without a credential meets steps that offered none.
LEMMA StopsShort ==
  ASSUME NEW s, NEW d, ~ReportsSettingError(s, d), NEW why, why # "settings",
         FirstRequest(s, d) = Without(why), Truthful(s, d, ExplainAuth(s, d), Null)
  PROVE  Meets(s, d)
<1>1. Without(why).why # "settings" /\ Without(why).from = Null
  BY DEF Without
<1> QED BY <1>1 DEF Meets

\* A provider that only signs in.
LEMMA OauthMeets ==
  ASSUME NEW s, NEW d \in Rows, s.managed = Null, ~ConstructorRefuses(s, d), ~ExplainRefuses(s, d),
         d.policy = "oauth"
  PROVE  Meets(s, d)
<1>1. ~d.hosted
  BY RowIs DEF Chained
<1>2. ~ReportsSettingError(s, d)
  BY <1>1 DEF ReportsSettingError
<1>3. Build(s, d) = From("stored")
  BY BuildIs
<1>4. ExplainAuth(s, d) = <<StoreStep(s, FALSE)>>
  BY <1>1 DEF ExplainAuth
<1>5. CASE s.stored = "usable"
  <2>1. StoreStep(s, FALSE) = Step("stored", "selected")
    BY <1>5 DEF StoreStep
  <2>2. Truthful(s, d, ExplainAuth(s, d), "stored")
    BY <1>4, <2>1, OneIsTruthful
  <2>3. Uses(s, d, "stored")
    BY <1>3, <1>5, StoredBuilt DEF Uses
  <2> QED BY <1>2, <2>2, <2>3, Reached, Zenon
<1>6. CASE s.stored # "usable"
  <2>1. StoreStep(s, FALSE) = Step("stored", "absent")
    BY <1>6 DEF StoreStep
  <2>2. Truthful(s, d, ExplainAuth(s, d), Null)
    BY <1>4, <2>1, OneIsClear, ClearIsTruthful
  <2>3. FirstRequest(s, d) \in {Without("stored login"), Without("settings later")}
    BY <1>3, <1>6, StoredBuilt
  <2> QED BY <1>2, <2>2, <2>3, StopsShort DEF Meets
<1> QED BY <1>5, <1>6

\* A provider with keys, behind no cloud door.
LEMMA KeyedMeets ==
  ASSUME NEW s, NEW d \in Rows, s.managed = Null, ~ConstructorRefuses(s, d), ~ExplainRefuses(s, d),
         ~d.hosted, d.policy # "oauth"
  PROVE  Meets(s, d)
<1> DEFINE entry == ApiKeysSource(s, d)
           first == FirstSet(s, d.envKeys)
           unless == d.policy = "oauth-unless-explicit"
           login == IF unless THEN <<StoreStep(s, entry # Null)>> ELSE <<>>
           head == <<EntryStep(entry)>> \o login
           blocked == unless /\ entry = Null /\ s.stored \in {"unusable", "logged_out"}
           env == EnvSteps(s, d, IF Taken(head) \/ blocked THEN "shadowed" ELSE "selected")
           keyed == head \o env
           last == IF d.placeholder THEN <<Step("placeholder", IF Taken(keyed) THEN "shadowed" ELSE "selected")>>
                   ELSE <<>>
<1>1. ExplainAuth(s, d) = keyed \o last
  BY DEF ExplainAuth, ExplainKeys
<1>2. ~ReportsSettingError(s, d)
  BY DEF ReportsSettingError
<1>3. /\ Lists!ASeq(<<EntryStep(entry)>>)
      /\ entry # Null => Truthful(s, d, <<EntryStep(entry)>>, "api_keys")
      /\ entry = Null => Clear(<<EntryStep(entry)>>)
  <2>1. CASE entry = Null
    BY <2>1, OneIsClear DEF EntryStep
  <2>2. CASE entry # Null
    BY <2>2, OneIsTruthful DEF EntryStep
  <2> QED BY <2>1, <2>2
<1>4. /\ Lists!ASeq(login)
      /\ unless /\ entry = Null /\ s.stored = "usable" => Truthful(s, d, login, "stored")
      /\ ~(unless /\ entry = Null /\ s.stored = "usable") => Clear(login)
  <2>1. CASE ~unless
    BY <2>1, NoneIsClear
  <2>2. CASE unless /\ entry = Null /\ s.stored = "usable"
    <3>1. StoreStep(s, entry # Null) = Step("stored", "selected")
      BY <2>2 DEF StoreStep
    <3> QED BY <2>2, <3>1, OneIsTruthful
  <2>3. CASE unless /\ ~(entry = Null /\ s.stored = "usable")
    <3>1. StoreStep(s, entry # Null) \in {Step("stored", "absent"), Step("stored", "shadowed")}
      BY <2>3 DEF StoreStep
    <3> QED BY <2>3, <3>1, OneIsClear
  <2> QED BY <2>1, <2>2, <2>3
<1>5. Lists!ASeq(env) /\ (env = EnvSteps(s, d, "shadowed") => Clear(env))
  BY EnvShadowed, EnvOffered
<1>6. Lists!ASeq(last)
  BY NoneIsClear, OneIs
<1>7. /\ entry # Null => Build(s, d) = From("api_keys")
      /\ entry = Null /\ unless =>
                   Build(s, d) = IF s.stored = "usable" THEN From("stored")
                                 ELSE IF Blocks(s) THEN Without("blocked")
                                 ELSE IF first # Null THEN From(first) ELSE From("stored")
      /\ entry = Null /\ ~unless =>
                   Build(s, d) = IF first # Null THEN From(first)
                                 ELSE IF d.placeholder THEN From("placeholder") ELSE Without("missing")
  <2>1. ~Chained(d) /\ d.policy \in {"key", "oauth-unless-explicit"}
    BY RowIs DEF Chained, Chains
  <2> QED BY <1>2, <2>1, BuildIs
<1>8. Blocks(s) <=> s.stored \in {"unusable", "logged_out"}
  BY DEF Blocks
<1>9. first # Null => first \in EnvNames
  BY FirstSetIs
<1>10. /\ ~Taken(head) /\ ~blocked =>
            /\ Truthful(s, d, env, first)
            /\ first = Null => Clear(env)
       /\ Taken(head) \/ blocked => Clear(env)
  BY EnvShadowed, EnvOffered
<1>11. last = IF d.placeholder THEN <<Step("placeholder", IF Taken(keyed) THEN "shadowed" ELSE "selected")>> ELSE <<>>
  OBVIOUS
<1>12. unless => ~d.placeholder
  BY RowIs
<1> HIDE DEF entry, first, env, last, login
<1>13. Lists!ASeq(head) /\ Lists!ASeq(keyed)
  BY <1>3, <1>4, <1>5, Joined
<1>14. CASE entry # Null
  <2>1. Truthful(s, d, head, "api_keys")
    BY <1>3, <1>4, <1>14, WhysDiffer, FrontIsTruthful
  <2>2. Truthful(s, d, keyed, "api_keys")
    BY <1>5, <1>13, <2>1, WhysDiffer, FrontIsTruthful
  <2>3. Truthful(s, d, ExplainAuth(s, d), "api_keys")
    BY <1>1, <1>6, <1>13, <2>2, WhysDiffer, FrontIsTruthful
  <2>4. Uses(s, d, "api_keys")
    BY <1>7, <1>14, WhysDiffer, BareBuilt DEF Bare
  <2> QED BY <1>2, <2>3, <2>4, Reached, Zenon
<1>15. CASE entry = Null /\ unless /\ s.stored = "usable"
  <2>1. Truthful(s, d, head, "stored")
    BY <1>3, <1>4, <1>15, BackIsTruthful
  <2>2. Truthful(s, d, keyed, "stored")
    BY <1>5, <1>13, <2>1, WhysDiffer, FrontIsTruthful
  <2>3. Truthful(s, d, ExplainAuth(s, d), "stored")
    BY <1>1, <1>6, <1>13, <2>2, WhysDiffer, FrontIsTruthful
  <2>4. Uses(s, d, "stored")
    BY <1>7, <1>15, StoredBuilt DEF Uses
  <2> QED BY <1>2, <2>3, <2>4, Reached, Zenon
<1>16. CASE entry = Null /\ ~(unless /\ s.stored = "usable")
  <2>1. Clear(head)
    BY <1>3, <1>4, <1>16, ClearBoth
  <2>2. ~Taken(head)
    BY <2>1, NotTaken
  <2>3. CASE blocked
    <3>1. Clear(keyed)
      BY <1>5, <1>10, <1>13, <2>1, <2>3, ClearBoth
    <3>2. last = <<>>
      BY <1>11, <1>12, <2>3
    <3>3. Truthful(s, d, ExplainAuth(s, d), Null)
      BY <1>1, <1>13, <3>1, <3>2, NoneIsClear, ClearBoth, ClearIsTruthful
    <3>4. FirstRequest(s, d) = Without("blocked")
      BY <1>7, <1>8, <1>16, <2>3, NothingBuilt
    <3> QED BY <1>2, <3>3, <3>4, StopsShort, Zenon
  <2>4. CASE ~blocked /\ first # Null
    <3>1. Truthful(s, d, keyed, first)
      BY <1>5, <1>10, <1>13, <2>1, <2>2, <2>4, BackIsTruthful
    <3>2. Truthful(s, d, ExplainAuth(s, d), first)
      BY <1>1, <1>6, <1>13, <2>4, <3>1, FrontIsTruthful
    <3>3. Build(s, d) = From(first)
      BY <1>7, <1>8, <1>16, <2>4
    <3>4. Uses(s, d, first)
      BY <1>9, <2>4, <3>3, BareBuilt DEF Bare
    <3> QED BY <1>2, <3>2, <3>4, Reached, Zenon
  <2>5. CASE ~blocked /\ first = Null
    <3>1. Clear(keyed)
      BY <1>5, <1>10, <1>13, <2>1, <2>2, <2>5, ClearBoth
    <3>2. CASE d.placeholder
      <4>1. last = <<Step("placeholder", "selected")>>
        BY <1>11, <3>1, <3>2, NotTaken
      <4>2. Truthful(s, d, last, "placeholder")
        BY <4>1, OneIsTruthful
      <4>3. Truthful(s, d, ExplainAuth(s, d), "placeholder")
        BY <1>1, <1>6, <1>13, <3>1, <4>2, BackIsTruthful
      <4>4. Build(s, d) = From("placeholder")
        BY <1>7, <1>12, <1>16, <2>5, <3>2
      <4>5. Uses(s, d, "placeholder")
        BY <4>4, WhysDiffer, BareBuilt DEF Bare
      <4> QED BY <1>2, <4>3, <4>5, Reached, Zenon
    <3>3. CASE ~d.placeholder
      <4>1. Truthful(s, d, ExplainAuth(s, d), Null)
        BY <1>1, <1>11, <1>13, <3>1, <3>3, NoneIsClear, ClearBoth, ClearIsTruthful
      <4>2. CASE unless
        <5>1. Build(s, d) = From("stored") /\ s.stored # "usable" /\ d.policy # "key"
          BY <1>7, <1>8, <1>16, <2>5, <4>2
        <5>2. FirstRequest(s, d) \in {Without("stored login"), Without("settings later")}
          BY <5>1, StoredBuilt
        <5> QED BY <1>2, <4>1, <5>2, StopsShort DEF Meets
      <4>3. CASE ~unless
        <5>1. FirstRequest(s, d) = Without("missing")
          BY <1>7, <1>16, <2>5, <3>3, <4>3, NothingBuilt
        <5> QED BY <1>2, <4>1, <5>1, StopsShort, Zenon
      <4> QED BY <4>2, <4>3
    <3> QED BY <3>2, <3>3
  <2> QED BY <2>3, <2>4, <2>5
<1> QED BY <1>14, <1>15, <1>16

\* The first step: the entry of the caller.
LEMMA EntryIs ==
  ASSUME NEW s, NEW d, NEW entry
  PROVE  /\ Lists!ASeq(<<EntryStep(entry)>>)
         /\ entry # Null => Truthful(s, d, <<EntryStep(entry)>>, "api_keys")
         /\ entry = Null => Clear(<<EntryStep(entry)>>)
<1>1. CASE entry = Null
  BY <1>1, OneIsClear DEF EntryStep
<1>2. CASE entry # Null
  BY <1>2, OneIsTruthful DEF EntryStep
<1> QED BY <1>1, <1>2

\* A settings error stops the request before any credential.
LEMMA ErrorMeets ==
  ASSUME NEW s, NEW d \in Rows, s.managed = Null, ~ConstructorRefuses(s, d), ~ExplainRefuses(s, d),
         d.policy # "oauth", ReportsSettingError(s, d)
  PROVE  Meets(s, d)
<1>1. FirstRequest(s, d) = Without("settings")
  BY BuildIs, NothingBuilt
<1> QED BY <1>1 DEF Meets

\* A cloud door with one kind of key.
LEMMA DoorMeets ==
  ASSUME NEW s, NEW d \in Rows, s.managed = Null, ~ConstructorRefuses(s, d), ~ExplainRefuses(s, d),
         d.hosted, ~Chained(d), ~ReportsSettingError(s, d)
  PROVE  Meets(s, d)
<1> DEFINE entry == ApiKeysSource(s, d)
           first == FirstSet(s, d.envKeys)
           env == EnvSteps(s, d, IF entry = Null THEN "selected" ELSE "shadowed")
<1>1. ExplainAuth(s, d) = <<EntryStep(entry)>> \o env
  BY DEF ExplainAuth, ExplainCloud
<1>2. /\ entry # Null => Build(s, d) = From("api_keys")
      /\ entry = Null => Build(s, d) = IF first # Null THEN From(first) ELSE Without("missing")
  <2>1. d.policy = "key" /\ ~d.placeholder
    BY RowIs
  <2> QED BY <2>1, BuildIs
<1>3. Lists!ASeq(env) /\ (entry = Null => Truthful(s, d, env, first))
  BY EnvOffered, EnvShadowed
<1>4. first # Null => first \in EnvNames
  BY FirstSetIs
<1> HIDE DEF entry, first, env
<1>5. CASE entry # Null
  <2>1. Truthful(s, d, ExplainAuth(s, d), "api_keys")
    BY <1>1, <1>3, <1>5, EntryIs, WhysDiffer, FrontIsTruthful
  <2>2. Uses(s, d, "api_keys")
    BY <1>2, <1>5, WhysDiffer, BareBuilt DEF Bare
  <2> QED BY <2>1, <2>2, Reached
<1>6. CASE entry = Null
  <2>1. Truthful(s, d, ExplainAuth(s, d), first)
    BY <1>1, <1>3, <1>6, EntryIs, BackIsTruthful
  <2>2. CASE first # Null
    <3>1. Uses(s, d, first)
      BY <1>2, <1>4, <1>6, <2>2, BareBuilt DEF Bare
    <3> QED BY <2>1, <3>1, Reached
  <2>3. CASE first = Null
    <3>1. FirstRequest(s, d) = Without("missing")
      BY <1>2, <1>6, <2>3, NothingBuilt
    <3> QED BY <2>1, <2>3, <3>1, StopsShort, Zenon
  <2> QED BY <2>2, <2>3
<1> QED BY <1>5, <1>6

\* The chain of a cloud.
LEMMA ChainMeets ==
  ASSUME NEW s, NEW d \in Rows, s.managed = Null, ~ConstructorRefuses(s, d), ~ExplainRefuses(s, d),
         Chained(d), ~ReportsSettingError(s, d)
  PROVE  Meets(s, d)
<1> DEFINE entry == ApiKeysSource(s, d)
           found == Resolve(s.machine, d.policy, Door(d), s.named)
           steps == Offline(s.machine, d.policy, Door(d), s.named)
<1>1. d.policy \in Chains /\ d.hosted /\ d.policy # "oauth"
  BY RowIs DEF Chained, Chains
<1>2. ExplainAuth(s, d) = ExplainCloud(s, d)
  BY <1>1 DEF ExplainAuth
<1>3. CASE entry # Null
  <2>1. ExplainCloud(s, d) = <<EntryStep(entry)>> \o Explain(s.machine, d.policy, Door(d), s.named, TRUE)
    <3>1. (entry # Null) = TRUE
      BY <1>3
    <3>2. ExplainCloud(s, d) = <<EntryStep(entry)>> \o Explain(s.machine, d.policy, Door(d), s.named, entry # Null)
      BY DEF ExplainCloud
    <3> QED BY <3>1, <3>2
  <2>2. Lists!ASeq(Explain(s.machine, d.policy, Door(d), s.named, TRUE))
    BY <1>1, ExplainShadowed
  <2> HIDE DEF entry
  <2>3. Truthful(s, d, ExplainAuth(s, d), "api_keys")
    BY <1>2, <1>3, <2>1, <2>2, EntryIs, WhysDiffer, FrontIsTruthful
  <2>4. Build(s, d) = From("api_keys")
    BY <1>1, <1>3, BuildIs DEF entry
  <2>5. Uses(s, d, "api_keys")
    BY <2>4, WhysDiffer, BareBuilt DEF Bare
  <2> QED BY <2>3, <2>5, Reached
<1>4. CASE entry = Null
  <2>1. ExplainCloud(s, d) = <<EntryStep(entry)>> \o steps
    <3>1. (entry # Null) = FALSE
      BY <1>4
    <3>2. ExplainCloud(s, d) = <<EntryStep(entry)>> \o Explain(s.machine, d.policy, Door(d), s.named, entry # Null)
      BY DEF ExplainCloud
    <3> QED BY <3>1, <3>2 DEF Offline
  <2>2. Lists!ASeq(steps)
    BY <1>1, ExplainIs
  <2>3. Build(s, d) = From("chain")
    BY <1>1, <1>4, BuildIs
  <2>4. \/ FirstRequest(s, d) = Without("settings later")
        \/ found.outcome = "value" /\ FirstRequest(s, d) = From(found.at)
        \/ found.outcome # "value" /\ FirstRequest(s, d) = Without("chain")
    BY <1>1, <2>3, ChainBuilt
  <2>5. found.outcome = "value" =>
          \E i \in DOMAIN steps : /\ steps[i].kind = found.at
                                  /\ steps[i].state \in {"selected", "unprobed"}
                                  /\ \A j \in 1..(i - 1) : steps[j].state # "selected"
    BY <1>1, FoundIsOffered
  <2>6. ASSUME NEW i \in DOMAIN steps, steps[i].state = "selected", \A j \in 1..(i - 1) : Passed(s, d, steps[j])
        PROVE  found.outcome = "value" /\ found.at = steps[i].kind
    <3>1. \A j \in 1..(i - 1) : /\ steps[j].state = "absent"
                                /\ ~StopsUnseen(s.machine, d.policy, s.named, steps[j].kind)
      BY <2>6 DEF Passed
    <3>2. found = [at |-> steps[i].kind, outcome |-> "value"]
      BY <1>1, <2>6, <3>1, SelectedIsFound
    <3> QED BY <3>2
  <2>7. Truthful(s, d, steps, IF found.outcome = "value" THEN found.at ELSE Null)
    <3> HIDE DEF steps, found
    <3>1. found.outcome = "value" => Offers(steps, found.at)
      BY <2>5 DEF Offers, Offered
    <3>2. Leads(s, d, steps, IF found.outcome = "value" THEN found.at ELSE Null)
      BY <2>6 DEF Leads
    <3> QED BY <3>1, <3>2 DEF Truthful
  <2> HIDE DEF entry, steps, found
  <2>8. Truthful(s, d, ExplainAuth(s, d), IF found.outcome = "value" THEN found.at ELSE Null)
    BY <1>2, <1>4, <2>1, <2>2, <2>7, EntryIs, BackIsTruthful
  <2>9. CASE found.outcome = "value"
    <3>1. Truthful(s, d, ExplainAuth(s, d), found.at)
      BY <2>8, <2>9
    <3>2. Uses(s, d, found.at)
      BY <2>4, <2>9 DEF Uses
    <3> QED BY <3>1, <3>2, Reached
  <2>10. CASE found.outcome # "value"
    <3>1. Truthful(s, d, ExplainAuth(s, d), Null)
      BY <2>8, <2>10
    <3>2. FirstRequest(s, d) \in {Without("settings later"), Without("chain")}
      BY <2>4, <2>10
    <3>3. CASE FirstRequest(s, d) = Without("chain")
      BY <3>1, <3>3, StopsShort, Zenon
    <3>4. CASE FirstRequest(s, d) = Without("settings later")
      BY <3>1, <3>4, StopsShort, Zenon
    <3> QED BY <3>2, <3>3, <3>4
  <2> QED BY <2>9, <2>10
<1> QED BY <1>3, <1>4

\* Whatever the row, where there is no managed store.
LEMMA UnmanagedMeets ==
  ASSUME NEW s, NEW d \in Rows, s.managed = Null, ~ConstructorRefuses(s, d), ~ExplainRefuses(s, d)
  PROVE  Meets(s, d)
<1>1. ~d.hosted /\ ~Chained(d) => ~ReportsSettingError(s, d)
  BY DEF ReportsSettingError
<1>2. d.policy = "oauth" => ~d.hosted
  BY RowIs DEF Chained
<1> QED BY <1>1, <1>2, RowIs, OauthMeets, KeyedMeets, DoorMeets, ChainMeets, ErrorMeets, Zenon

\* A chain walked for an identity yields that identity, or nothing.
LEMMA IdentityBuilt ==
  ASSUME NEW s, NEW d, NEW from \in {"named", "connection"}, Build(s, d) = From(from)
  PROVE  FirstRequest(s, d).from \in {Null, from}
<1> DEFINE built == Build(s, d)
<1>1. built.from = from /\ built.from # Null /\ from \notin {"stored", "chain"}
  <2>1. built.from = from
    BY DEF From
  <2>2. from # Null
    BY WhysDiffer
  <2> QED BY <2>1, <2>2
<1>2. \A why : Without(why).from = Null
  BY DEF Without
<1>3. \A kind : Travels(d, kind, built).from \in {Null, from}
  BY <1>1, <1>2 DEF Travels
<1> HIDE DEF built
<1>4. Acquired(s, d, built).from \in {Null, from}
  BY <1>1, <1>2, <1>3 DEF Acquired
<1>5. FirstRequest(s, d) = Without("settings later") \/ FirstRequest(s, d) = Acquired(s, d, built)
  BY <1>1 DEF FirstRequest, built
<1> QED BY <1>2, <1>4, <1>5

\* A saved connection that holds a key or a login is used as it is.
LEMMA ReadyBuilt ==
  ASSUME NEW s, s.managed = "ready", NEW d \in Rows, Build(s, d) = From("connection")
  PROVE  Uses(s, d, "connection")
<1> DEFINE built == Build(s, d)
<1>1. built.from = "connection" /\ built.from # Null
  <2>1. built.from = "connection"
    BY DEF From
  <2> QED BY <2>1, WhysDiffer
<1>2. ~WalksChain(s, built)
  BY <1>1 DEF WalksChain
<1>3. Travels(d, KindOf(d, "connection"), built) = built
  <2>1. SelectScheme(d, KindOf(d, "connection")) # Null
    BY SourcesCarried DEF Carried
  <2> QED BY <2>1 DEF Travels
<1> HIDE DEF built
<1>4. Acquired(s, d, built) = built
  BY <1>1, <1>2, <1>3 DEF Acquired
<1>5. FirstRequest(s, d) = Without("settings later") \/ FirstRequest(s, d) = Acquired(s, d, built)
  BY <1>1 DEF FirstRequest, built
<1>6. built = From("connection")
  BY DEF built
<1> QED BY <1>4, <1>5, <1>6 DEF Uses

(* Beside a managed store: the same, as far as a connection was looked at. *)
MeetsManaged(s, d) ==
  LET got == FirstRequest(s, d) IN
  \/ got \in {Without("settings"), Without("settings later")}
  \/ ManagedUnseen(s) /\ (got.from = Null \/ s.managed = "later" \/ Offers(ExplainAuth(s, d), got.from))
  \/ Truthful(s, d, ExplainAuth(s, d), got.from)

\* Settings stop it before the credential.
LEMMA SettingsManaged ==
  ASSUME NEW s, NEW d, Build(s, d) = Without("settings")
  PROVE  MeetsManaged(s, d)
<1>1. FirstRequest(s, d) = Without("settings")
  BY NothingBuilt
<1> QED BY <1>1 DEF MeetsManaged

\* It uses what was offered.
LEMMA UsesManaged ==
  ASSUME NEW s, NEW d, NEW from, Uses(s, d, from), Truthful(s, d, ExplainAuth(s, d), from)
  PROVE  MeetsManaged(s, d)
<1>1. From(from).from = from
  BY DEF From
<1> QED BY <1>1 DEF MeetsManaged, Uses

\* Whatever the row, beside a managed store.
LEMMA ManagedMeets ==
  ASSUME NEW s, NEW d \in Rows, s.managed # Null, ~ConstructorRefuses(s, d), ~ExplainRefuses(s, d)
  PROVE  MeetsManaged(s, d)
<1> DEFINE entry == ApiKeysSource(s, d)
           name == IF s.named = Null THEN <<>>
                   ELSE <<Step("named", IF entry = Null THEN "selected" ELSE "shadowed")>>
           first == <<EntryStep(entry)>> \o name
           saved == s.managed \in {"needs_login", "ready", "cloud"}
           state == IF ~saved \/ (s.managed = "needs_login" /\ ~Taken(first)) THEN "absent"
                    ELSE IF Taken(first) THEN "shadowed" ELSE "selected"
           tail == <<Step("connection", state)>>
           second == first \o tail
           env == EnvSteps(s, d, "shadowed")
           third == second \o env
           last == IF d.placeholder /\ s.managed # "signed_out"
                   THEN <<Step("placeholder", IF Taken(second) THEN "shadowed" ELSE "selected")>> ELSE <<>>
           chosen == IF s.managed \in {"ready", "cloud", "later"} THEN From("connection")
                     ELSE IF d.placeholder /\ s.managed # "signed_out" THEN From("placeholder")
                     ELSE Without("login_required")
           source == IF entry # Null THEN From("api_keys")
                     ELSE IF s.named # Null THEN From("named") ELSE chosen
<1>1. ExplainAuth(s, d) = third \o last
  BY DEF ExplainAuth, ExplainManaged
<1>2. Build(s, d) \in {Without("settings"), source}
  <2>1. Build(s, d) = BuildManagedLm(s, d)
    BY DEF Build, ConstructorRefuses, ExplainRefuses
  <2>2. entry # "refused"
    BY DEF ExplainRefuses
  <2> QED BY <2>1, <2>2 DEF BuildManagedLm
<1>3. /\ Lists!ASeq(<<EntryStep(entry)>>)
      /\ entry # Null => Truthful(s, d, <<EntryStep(entry)>>, "api_keys")
      /\ entry = Null => Clear(<<EntryStep(entry)>>)
  BY EntryIs
<1>4. /\ Lists!ASeq(name)
      /\ s.named = Null => Clear(name)
      /\ s.named # Null /\ entry = Null => Truthful(s, d, name, "named")
  BY NoneIsClear, OneIs, OneIsTruthful
<1>5. Lists!ASeq(tail) /\ Lists!ASeq(last) /\ Lists!ASeq(env) /\ Clear(env)
  BY NoneIsClear, OneIs, EnvShadowed
<1>6. CASE Build(s, d) = Without("settings")
  BY <1>6, SettingsManaged
<1>7. CASE Build(s, d) = source
  <2>1. /\ entry # Null => Build(s, d) = From("api_keys")
        /\ entry = Null /\ s.named # Null => Build(s, d) = From("named")
        /\ entry = Null /\ s.named = Null => Build(s, d) = chosen
    BY <1>7
  <2>2. tail = <<Step("connection", state)>>
    OBVIOUS
  <2>3. last = IF d.placeholder /\ s.managed # "signed_out"
               THEN <<Step("placeholder", IF Taken(second) THEN "shadowed" ELSE "selected")>> ELSE <<>>
    OBVIOUS
  <2> HIDE DEF entry, name, tail, env, last, chosen
  <2>4. Lists!ASeq(first) /\ Lists!ASeq(second) /\ Lists!ASeq(third)
    BY <1>3, <1>4, <1>5, Joined
  <2>5. ASSUME NEW from, from # Null, Truthful(s, d, first, from) PROVE Truthful(s, d, ExplainAuth(s, d), from)
    <3>1. Truthful(s, d, second, from)
      BY <1>5, <2>4, <2>5, FrontIsTruthful
    <3>2. Truthful(s, d, third, from)
      BY <1>5, <2>4, <2>5, <3>1, FrontIsTruthful
    <3> QED BY <1>1, <1>5, <2>4, <2>5, <3>2, FrontIsTruthful
  <2>6. CASE entry # Null
    <3>1. Truthful(s, d, first, "api_keys")
      BY <1>3, <1>4, <2>6, WhysDiffer, FrontIsTruthful
    <3>2. Truthful(s, d, ExplainAuth(s, d), "api_keys")
      BY <2>5, <3>1, WhysDiffer
    <3>3. Uses(s, d, "api_keys")
      BY <2>1, <2>6, WhysDiffer, BareBuilt DEF Bare
    <3> QED BY <3>2, <3>3, UsesManaged
  <2>7. CASE entry = Null /\ s.named # Null
    <3>1. Truthful(s, d, first, "named")
      BY <1>3, <1>4, <2>7, BackIsTruthful
    <3>2. Truthful(s, d, ExplainAuth(s, d), "named")
      BY <2>5, <3>1, WhysDiffer
    <3>3. FirstRequest(s, d).from \in {Null, "named"}
      BY <2>1, <2>7, IdentityBuilt
    <3>4. ManagedUnseen(s)
      BY <2>7 DEF ManagedUnseen
    <3> QED BY <3>2, <3>3, <3>4 DEF MeetsManaged, Truthful
  <2>8. CASE entry = Null /\ s.named = Null
    <3>1. Clear(first) /\ ~Taken(first)
      BY <1>3, <1>4, <2>8, ClearBoth, NotTaken
    <3>2. state = IF s.managed \in {"ready", "cloud"} THEN "selected" ELSE "absent"
      BY <3>1
    <3> HIDE DEF state
    <3>3. CASE s.managed \in {"ready", "cloud"}
      <4>1. Truthful(s, d, tail, "connection")
        BY <2>2, <3>2, <3>3, OneIsTruthful
      <4>2. Truthful(s, d, second, "connection")
        BY <1>5, <2>4, <3>1, <4>1, BackIsTruthful
      <4>3. Truthful(s, d, third, "connection")
        BY <1>5, <2>4, <4>2, WhysDiffer, FrontIsTruthful
      <4>4. Truthful(s, d, ExplainAuth(s, d), "connection")
        BY <1>1, <1>5, <2>4, <4>3, WhysDiffer, FrontIsTruthful
      <4>5. Build(s, d) = From("connection")
        BY <2>1, <2>8, <3>3 DEF chosen
      <4>6. CASE s.managed = "ready"
        BY <4>4, <4>5, <4>6, ReadyBuilt, UsesManaged
      <4>7. CASE s.managed = "cloud"
        <5>1. ManagedUnseen(s)
          BY <4>7 DEF ManagedUnseen
        <5>2. FirstRequest(s, d).from \in {Null, "connection"}
          BY <4>5, IdentityBuilt
        <5> QED BY <4>4, <5>1, <5>2 DEF MeetsManaged, Truthful
      <4> QED BY <3>3, <4>6, <4>7
    <3>4. CASE s.managed = "later"
      BY <3>4 DEF MeetsManaged, ManagedUnseen
    <3>5. CASE s.managed \notin {"ready", "cloud", "later"}
      <4>1. Clear(tail)
        BY <2>2, <3>2, <3>5, OneIsClear
      <4>2. Clear(second) /\ ~Taken(second)
        BY <1>5, <2>4, <3>1, <4>1, ClearBoth, NotTaken
      <4>3. Clear(third)
        BY <1>5, <2>4, <4>2, ClearBoth
      <4>4. CASE d.placeholder /\ s.managed # "signed_out"
        <5>1. last = <<Step("placeholder", "selected")>>
          BY <2>3, <4>2, <4>4
        <5>2. Truthful(s, d, last, "placeholder")
          BY <5>1, OneIsTruthful
        <5>3. Truthful(s, d, ExplainAuth(s, d), "placeholder")
          BY <1>1, <1>5, <2>4, <4>3, <5>2, BackIsTruthful
        <5>4. Build(s, d) = From("placeholder")
          BY <2>1, <2>8, <3>5, <4>4 DEF chosen
        <5>5. Uses(s, d, "placeholder")
          BY <5>4, WhysDiffer, BareBuilt DEF Bare
        <5> QED BY <5>3, <5>5, UsesManaged
      <4>5. CASE ~(d.placeholder /\ s.managed # "signed_out")
        <5>1. Truthful(s, d, ExplainAuth(s, d), Null)
          BY <1>1, <2>3, <2>4, <4>3, <4>5, NoneIsClear, ClearBoth, ClearIsTruthful
        <5>2. Build(s, d) = Without("login_required")
          BY <2>1, <2>8, <3>5, <4>5 DEF chosen
        <5>3. FirstRequest(s, d) = Without("login_required") /\ Without("login_required").from = Null
          BY <5>2, NothingBuilt DEF Without
        <5> QED BY <5>1, <5>3 DEF MeetsManaged
      <4> QED BY <4>4, <4>5
    <3> QED BY <3>3, <3>4, <3>5
  <2> QED BY <2>6, <2>7, <2>8
<1> QED BY <1>2, <1>6, <1>7

-----------------------------------------------------------------------------

\* What the doctor refuses gets no credential, one that only signs in excepted.
LEMMA RefusedGetsNothing ==
  ASSUME NEW s, NEW d \in Rows, ~ConstructorRefuses(s, d), ExplainRefuses(s, d), d.policy # "oauth"
  PROVE  FirstRequest(s, d).from = Null
<1>1. \E why : Build(s, d) = Without(why)
  <2>1. ~NamedRefused(s, d)
    BY DEF ConstructorRefuses
  <2>2. CASE BackendError(s, d)
    BY <2>1, <2>2 DEF Build
  <2>3. CASE ~BackendError(s, d) /\ ApiKeysSource(s, d) = "refused"
    <3>1. CASE s.managed = Null
      <4>1. BuildLm(s, d) = Without("entry")
        BY <2>3 DEF BuildLm
      <4> QED BY <2>1, <2>3, <3>1, <4>1 DEF Build
    <3>2. CASE s.managed # Null
      <4>1. BuildManagedLm(s, d) = Without("entry")
        BY <2>3 DEF BuildManagedLm
      <4> QED BY <2>1, <2>3, <3>2, <4>1 DEF Build
    <3> QED BY <3>1, <3>2
  <2>4. CASE ~BackendError(s, d) /\ ApiKeysSource(s, d) # "refused"
    <3>1. d.hosted /\ s.managed = Null /\ SettingError(s, d) # Null
      BY <2>4, WhysDiffer DEF ExplainRefuses
    <3>2. BuildLm(s, d) = Without("settings")
      BY <2>4, <3>1 DEF BuildLm
    <3> QED BY <2>1, <2>4, <3>1, <3>2 DEF Build
  <2> QED BY <2>2, <2>3, <2>4
<1>2. PICK why : Build(s, d) = Without(why)
  BY <1>1
<1>3. FirstRequest(s, d) = Without(why) /\ Without(why).from = Null
  BY <1>2, NothingBuilt DEF Without
<1> QED BY <1>3

\* The promise, for a router of row d at site s.
Tells(s, d, report, got, address) ==
  /\ report.refused => got.from = Null \/ d.policy = "oauth"
  /\ s.managed = Null => (report.error <=> got.why = "settings" /\ ~report.refused)
  /\ got.from # Null /\ ~report.refused /\ s.managed # "later" => Offers(report.steps, got.from)
  /\ ~ManagedUnseen(s) =>
       got.why \in {"settings", "settings later"} \/ Leads(s, d, report.steps, got.from)
  /\ report.address \in {Null, address} \/ s.process

\* The promise holds for every row and every site the router accepts.
LEMMA SiteTells ==
  ASSUME NEW s, NEW d \in Rows, ~ConstructorRefuses(s, d)
  PROVE  Tells(s, d, Report(s, d), FirstRequest(s, d), Address(s, d))
<1> DEFINE report == Report(s, d)
           got == FirstRequest(s, d)
<1>1. CASE ExplainRefuses(s, d)
  <2>1. report.refused = TRUE /\ report.error = FALSE /\ report.steps = <<>> /\ report.address = Null
    BY <1>1 DEF Report
  <2>2. d.policy # "oauth" => got.from = Null
    BY <1>1, RefusedGetsNothing
  <2>3. d.policy = "oauth" => got.from = Null \/ d.policy = "oauth"
    OBVIOUS
  <2>4. Leads(s, d, <<>>, got.from)
    BY NoneIs DEF Leads
  <2> HIDE DEF report, got
  <2>5. Tells(s, d, report, got, Address(s, d))
    BY <2>1, <2>2, <2>4 DEF Tells
  <2> QED BY <2>5 DEF report, got
<1>2. CASE ~ExplainRefuses(s, d)
  <2> DEFINE steps == ExplainAuth(s, d)
  <2>1. /\ report.refused = FALSE /\ report.error = ReportsSettingError(s, d) /\ report.steps = steps
        /\ report.address = IF s.managed # Null \/ ~d.hosted \/ SettingError(s, d) # Null
                               \/ BaseUrl(s, d) = "later"
                            THEN Null ELSE BaseUrl(s, d)
    BY <1>2 DEF Report
  <2>2. report.address \in {Null, Address(s, d)} \/ s.process
    BY <2>1 DEF BaseUrl, Address
  <2>3. /\ Without("settings").from = Null /\ Without("settings").why = "settings"
        /\ Without("settings later").from = Null /\ Without("settings later").why = "settings later"
    BY DEF Without
  <2>4. CASE s.managed = Null
    <3>1. Meets(s, d)
      BY <1>2, <2>4, UnmanagedMeets
    <3>2. \/ ReportsSettingError(s, d) /\ got.from = Null /\ got.why = "settings"
          \/ ~ReportsSettingError(s, d) /\ got.from = Null /\ got.why = "settings later"
          \/ ~ReportsSettingError(s, d) /\ got.why # "settings" /\ Truthful(s, d, steps, got.from)
      BY <2>3, <3>1 DEF Meets
    <3> HIDE DEF report, got, steps
    <3>3. report.error <=> got.why = "settings" /\ ~report.refused
      BY <2>1, <3>2
    <3>4. got.from # Null => Offers(steps, got.from)
      BY <3>2 DEF Truthful
    <3>5. got.why \in {"settings", "settings later"} \/ Leads(s, d, steps, got.from)
      BY <3>2 DEF Truthful
    <3>6. Tells(s, d, report, got, Address(s, d))
      BY <2>1, <2>2, <3>3, <3>4, <3>5 DEF Tells
    <3> QED BY <3>6 DEF report, got
  <2>5. CASE s.managed # Null
    <3>1. MeetsManaged(s, d)
      BY <1>2, <2>5, ManagedMeets
    <3>2. \/ got.from = Null /\ got.why \in {"settings", "settings later"}
          \/ ManagedUnseen(s) /\ (got.from = Null \/ s.managed = "later" \/ Offers(steps, got.from))
          \/ Truthful(s, d, steps, got.from)
      BY <2>3, <3>1 DEF MeetsManaged
    <3> HIDE DEF report, got, steps
    <3>3. got.from # Null /\ s.managed # "later" => Offers(steps, got.from)
      BY <3>2 DEF Truthful
    <3>4. ~ManagedUnseen(s) => got.why \in {"settings", "settings later"} \/ Leads(s, d, steps, got.from)
      BY <3>2 DEF Truthful
    <3>5. Tells(s, d, report, got, Address(s, d))
      BY <2>1, <2>2, <2>5, <3>3, <3>4 DEF Tells
    <3> QED BY <3>5 DEF report, got
  <2> QED BY <2>4, <2>5
<1> QED BY <1>1, <1>2

\* A visit is to a site of the row; what it has seen is of that site.
SiteInv ==
  /\ scene # "site" => visit = Unvisited
  /\ scene = "site" =>
       /\ row \in Rows
       /\ visit.at \in {"new", "refused", "built", "diagnosed", "used"}
       /\ visit.at \in {"built", "diagnosed", "used"} => ~ConstructorRefuses(site, row)
       /\ visit.at \in {"diagnosed", "used"} => visit.report = Report(site, row)
       /\ visit.at = "used" => visit.got = FirstRequest(site, row) /\ visit.address = Address(site, row)
       /\ DOMAIN visit = {"at", "report", "got", "address"}

\* No site is visited yet.
LEMMA SiteBegins == Init => SiteInv
<1>1. Unvisited.at = "new" /\ DOMAIN Unvisited = {"at", "report", "got", "address"}
  BY DEF Unvisited
<1> HIDE DEF Unvisited
<1> QED BY <1>1 DEF Init, SiteIdle, SiteInv

\* Each step of a visit records what it meets.
LEMMA SiteStep == SiteInv /\ [Next]_credentialVars => SiteInv'
<1> SUFFICES ASSUME SiteInv, [Next]_credentialVars PROVE SiteInv'
  OBVIOUS
<1>1. CASE UNCHANGED <<scene, site, row, visit>>
  BY <1>1 DEF SiteInv
<1>2. CASE UNCHANGED scene /\ scene = "site" /\ SiteNext
  <2>1. CASE Constructs /\ UNCHANGED <<site, row>>
    BY <1>2, <2>1 DEF SiteInv, Constructs
  <2>2. CASE Doctor /\ UNCHANGED <<site, row>>
    BY <1>2, <2>2 DEF SiteInv, Doctor
  <2>3. CASE FirstCall /\ UNCHANGED <<site, row>>
    BY <1>2, <2>3 DEF SiteInv, FirstCall
  <2> QED BY <1>2, <2>1, <2>2, <2>3 DEF SiteNext
<1>3. UNCHANGED <<scene, site, row, visit>> \/ (UNCHANGED scene /\ scene = "site" /\ SiteNext)
  BY DEF Next, credentialVars
<1> QED BY <1>1, <1>2, <1>3

\* A visit that is over has met what it was told.
LEMMA SiteIsTrue == SiteInv => DoctorTellsTheTruth
<1> SUFFICES ASSUME SiteInv, visit.at = "used" PROVE DoctorTellsTheTruth
  BY DEF DoctorTellsTheTruth
<1>1. scene = "site"
  BY DEF SiteInv, Unvisited
<1>2. /\ row \in Rows /\ ~ConstructorRefuses(site, row)
      /\ visit.report = Report(site, row) /\ visit.got = FirstRequest(site, row)
      /\ visit.address = Address(site, row)
  BY <1>1 DEF SiteInv
<1>3. Tells(site, row, visit.report, visit.got, visit.address)
  BY <1>2, SiteTells
<1>4. visit.got.from # Null /\ ~visit.report.refused /\ site.managed # "later" =>
         \E i \in DOMAIN visit.report.steps :
           /\ visit.report.steps[i].kind = visit.got.from /\ Offered(visit.report.steps, i)
           /\ \A j \in 1..(i - 1) : visit.report.steps[j].state # "selected"
  BY <1>3 DEF Tells, Offers
<1>5. \A i \in DOMAIN visit.report.steps :
         /\ visit.report.steps[i].state = "selected" /\ ~ManagedUnseen(site)
         /\ \A j \in 1..(i - 1) :
              /\ visit.report.steps[j].state = "absent"
              /\ ~StopsUnseen(site.machine, row.policy, site.named, visit.report.steps[j].kind)
         => visit.got.from = visit.report.steps[i].kind \/ visit.got.why \in {"settings", "settings later"}
  BY <1>3 DEF Tells, Leads, Passed
<1>6. /\ visit.report.refused => visit.got.from = Null \/ row.policy = "oauth"
      /\ site.managed = Null => (visit.report.error <=> visit.got.why = "settings" /\ ~visit.report.refused)
      /\ visit.report.address \in {Null, visit.address} \/ site.process
  BY <1>3 DEF Tells
<1> QED BY <1>4, <1>5, <1>6 DEF DoctorTellsTheTruth

(* What explainAuth reports of a router is what its first request meets:   *)
(* what it uses was offered with nothing selected before it, a selected    *)
(* step is used unless one before it stops or answers, and an error of the *)
(* settings is reported exactly when it stops the request.                 *)
THEOREM DoctorIsTrue == Spec => []DoctorTellsTheTruth
<1>1. Init => SiteInv
  BY SiteBegins
<1>2. SiteInv /\ [Next]_credentialVars => SiteInv'
  BY SiteStep
<1>3. SiteInv => DoctorTellsTheTruth
  BY SiteIsTrue
<1> QED BY <1>1, <1>2, <1>3, PTL DEF Spec
=============================================================================
