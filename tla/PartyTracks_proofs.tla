------------------------- MODULE PartyTracks_proofs -------------------------
(***************************************************************************)
(* Proofs about PartyTracks, for any tracks, any limit and any number of   *)
(* bulk requests, failures and retries.                                    *)
(***************************************************************************)
EXTENDS PartyTracks, TLAPS

Arrays(k) == 1 .. Len(batch[k])

Requests == 1 .. Len(bulk)

(* The types of what a dispatcher keeps. *)
Typed ==
  /\ batch \in [Kind -> Seq(Seq(Track))]
  /\ response \in [Kind -> 0 .. Len(bulk)]
  /\ bulk \in Seq(Request)

(* There is a current array, no array is too long, and every request has   *)
(* an array of its dispatcher.                                             *)
Bounded ==
  /\ \A k \in Kind : Len(batch[k]) > 0
  /\ \A k \in Kind : \A a \in Arrays(k) : Len(batch[k][a]) <= Limit
  /\ \A r \in Requests : bulk[r].array \in Arrays(bulk[r].kind)

(* A response that can be shared waits for its timer, which has the        *)
(* current array.                                                          *)
Pending ==
  \A k \in Kind : response[k] /= NoRequest =>
    /\ bulk[response[k]].kind = k
    /\ bulk[response[k]].array = Current(k)
    /\ bulk[response[k]].state = "timer"

Dispatcher == Typed /\ Bounded /\ Pending /\ NothingStranded /\ WithinLimit

(* Request p, which t awaits, or one before it, has sent t's entry, or     *)
(* p's timer is going to take it from p's array.                           *)
Sent(t, p) == \E r \in 1 .. p : /\ bulk[r].kind = KindOf(t) /\ bulk[r].state /= "timer"
                                /\ t \in Range(bulk[r].sent)
Kept(t, p) == /\ bulk[p].state = "timer"
              /\ t \in Range(batch[bulk[p].kind][bulk[p].array])
Awaits(t, p) == p \in Requests /\ bulk[p].kind = KindOf(t) /\ (Sent(t, p) \/ Kept(t, p))

Owed == \A t \in Track : track[t].state \in {"waiting", "left"} => Awaits(t, track[t].promise)


-----------------------------------------------------------------------------
(***************************************************************************)
(* doBulkRequest().                                                        *)
(***************************************************************************)

(* A sequence in which one element is replaced. *)
LEMMA Replaced ==
  ASSUME NEW S, NEW s \in Seq(S), NEW i \in 1 .. Len(s), NEW v \in S
  PROVE  /\ [s EXCEPT ![i] = v] \in Seq(S)
         /\ Len([s EXCEPT ![i] = v]) = Len(s)
         /\ \A j \in 1 .. Len(s) : [s EXCEPT ![i] = v][j] = IF j = i THEN v ELSE s[j]
OBVIOUS

(* A sequence with one more element. *)
LEMMA Appended ==
  ASSUME NEW S, NEW s \in Seq(S), NEW v \in S
  PROVE  /\ Append(s, v) \in Seq(S)
         /\ Len(Append(s, v)) = Len(s) + 1
         /\ \A j \in 1 .. Len(s) : Append(s, v)[j] = s[j]
         /\ Append(s, v)[Len(s) + 1] = v
         /\ Append(s, v) /= <<>>
OBVIOUS

(* What an appended element adds to the range. *)
LEMMA AppendedRange ==
  ASSUME NEW S, NEW s \in Seq(S), NEW v \in S
  PROVE  /\ v \in Range(Append(s, v)) /\ Range(s) \subseteq Range(Append(s, v))
         /\ Range(Append(s, v)) = Range(s) \cup {v}
<1>1. v \in Range(Append(s, v)) /\ Range(s) \subseteq Range(Append(s, v))
  BY DEF Range
<1>2. Range(Append(s, v)) \subseteq Range(s) \cup {v}
  BY DEF Range
<1>3. QED BY <1>1, <1>2

(* What a call of doBulkRequest() does: the requests so far stay what they *)
(* are, entries stay in their arrays, and the caller's entry is in the     *)
(* array of the request that it awaits, whose timer has not fired.         *)
Calls(k, t) ==
  /\ Len(bulk') >= Len(bulk)
  /\ \A r \in Requests : bulk'[r] = bulk[r]
  /\ response'[k] \in 1 .. Len(bulk')
  /\ bulk'[response'[k]].kind = k
  /\ bulk'[response'[k]].state = "timer"
  /\ t \in Range(batch'[k][bulk'[response'[k]].array])
  /\ \A j \in Kind : \A a \in Arrays(j) :
       a \in 1 .. Len(batch'[j]) /\ Range(batch[j][a]) \subseteq Range(batch'[j][a])

(* What a request is. *)
LEMMA RequestType ==
  ASSUME Typed, NEW r \in Requests
  PROVE  bulk[r] \in Request /\ bulk[r].kind \in Kind
<1>1. bulk[r] \in Request
  BY DEF Typed, Requests
<1>2. QED BY <1>1 DEF Request

(* A new bulk request. *)
LEMMA NewResponseAdds ==
  ASSUME Typed, NEW k \in Kind, NEW a \in Nat, NewResponse(k, a)
  PROVE  /\ bulk' \in Seq(Request) /\ Len(bulk') = Len(bulk) + 1 /\ Len(bulk) \in Nat
         /\ \A r \in Requests : bulk'[r] = bulk[r] /\ r \in 1 .. Len(bulk')
         /\ bulk'[Len(bulk) + 1] = NewRequest(k, a)
         /\ response' \in [Kind -> 0 .. Len(bulk')]
         /\ response'[k] = Len(bulk) + 1 /\ response'[k] \in 1 .. Len(bulk')
         /\ \A j \in Kind : j /= k => response'[j] = response[j]
<1>1. NewRequest(k, a) \in Request
  BY DEF NewRequest, Request
<1>2. bulk' = Append(bulk, NewRequest(k, a)) /\ bulk \in Seq(Request)
  BY DEF NewResponse, Typed
<1>3. /\ bulk' \in Seq(Request) /\ Len(bulk') = Len(bulk) + 1 /\ Len(bulk) \in Nat
      /\ \A r \in Requests : bulk'[r] = bulk[r]
      /\ bulk'[Len(bulk) + 1] = NewRequest(k, a)
  BY <1>1, <1>2, Appended DEF Requests
<1>4. QED BY <1>3 DEF NewResponse, Typed, Requests

(* What a dispatcher's arrays are. *)
LEMMA CurrentArray ==
  ASSUME Typed, Bounded, NEW k \in Kind
  PROVE  /\ batch[k] \in Seq(Seq(Track)) /\ Current(k) \in Arrays(k) /\ Current(k) \in Nat
         /\ \A a \in Arrays(k) : batch[k][a] \in Seq(Track) /\ Len(batch[k][a]) \in Nat
<1>1. batch[k] \in Seq(Seq(Track))
  BY DEF Typed
<1>2. Current(k) \in Arrays(k) /\ Current(k) \in Nat
  BY <1>1 DEF Bounded, Current, Arrays
<1>3. \A a \in Arrays(k) : batch[k][a] \in Seq(Track)
  BY <1>1 DEF Arrays
<1>4. QED BY <1>1, <1>2, <1>3

(* The arrays change for a call that gets a response of its own: the entry *)
(* is in the current array, which is array n.                              *)
Grown(k, t, n) ==
  /\ batch' \in [Kind -> Seq(Seq(Track))]
  /\ n = Current(k)' /\ n > 0 /\ t \in Range(batch'[k][n])
  /\ \A j \in Kind : j /= k => Current(j)' = Current(j)
  /\ \A j \in Kind : \A a \in Arrays(j)' : Len(batch'[j][a]) <= Limit
  /\ \A j \in Kind : \A a \in Arrays(j) :
       a \in Arrays(j)' /\ Range(batch[j][a]) \subseteq Range(batch'[j][a])
  /\ \A j \in Kind : \A a \in Arrays(j)' :
       batch'[j][a] /= <<>> /\ ~ (j = k /\ a = n) => a \in Arrays(j) /\ batch[j][a] /= <<>>

LEMMA NewResponseKeeps ==
  ASSUME Dispatcher, NEW k \in Kind, NEW t \in Track, NEW n \in Nat, NewResponse(k, n),
         Grown(k, t, n)
  PROVE  Dispatcher' /\ Calls(k, t)
<1> DEFINE new == Len(bulk) + 1
<1>1. /\ bulk' \in Seq(Request) /\ Len(bulk') = new /\ Len(bulk) \in Nat
      /\ \A r \in Requests : bulk'[r] = bulk[r] /\ r \in 1 .. Len(bulk')
      /\ bulk'[new] = NewRequest(k, n)
      /\ response' \in [Kind -> 0 .. Len(bulk')]
      /\ response'[k] = new /\ response'[k] \in 1 .. Len(bulk')
      /\ \A j \in Kind : j /= k => response'[j] = response[j]
  BY NewResponseAdds DEF Dispatcher
<1>2. /\ bulk'[new].kind = k /\ bulk'[new].array = n /\ bulk'[new].state = "timer"
      /\ bulk'[new].sent = <<>>
  BY <1>1 DEF NewRequest
<1> HIDE DEF new
<1>3. \A r \in Requests' : r = new \/ r \in Requests
  BY <1>1 DEF Requests, new
<1>4. new \in Requests'
  BY <1>1 DEF Requests, new
<1>5. Typed'
  BY <1>1 DEF Typed, Grown
<1>6. ASSUME NEW j \in Kind, response'[j] /= NoRequest
      PROVE  /\ bulk'[response'[j]].kind = j
             /\ bulk'[response'[j]].array = Current(j)'
             /\ bulk'[response'[j]].state = "timer"
  <2>1. CASE j = k
    BY <1>1, <1>2, <2>1 DEF Grown
  <2>2. CASE j /= k
    <3>1. response[j] \in Requests
      BY <1>1, <1>6, <2>2 DEF Dispatcher, Typed, Requests, NoRequest
    <3>2. QED BY <1>1, <1>6, <2>2, <3>1 DEF Dispatcher, Pending, Grown
  <2>3. QED BY <2>1, <2>2
<1>7. Pending'
  BY <1>6 DEF Pending
<1>8. Bounded'
  <2>1. \A j \in Kind : Len(batch'[j]) > 0
    BY DEF Dispatcher, Bounded, Current, Grown
  <2>2. ASSUME NEW r \in Requests' PROVE (bulk[r].array \in Arrays(bulk[r].kind))'
    <3>1. CASE r = new
      BY <1>2, <3>1 DEF Arrays, Current, Grown
    <3>2. CASE r \in Requests
      <4>1. bulk[r].kind \in Kind
        BY <3>2, RequestType DEF Dispatcher
      <4>2. QED BY <1>1, <3>2, <4>1 DEF Dispatcher, Bounded, Grown
    <3>3. QED BY <1>3, <2>2, <3>1, <3>2
  <2>3. \A j \in Kind : \A a \in Arrays(j)' : Len(batch'[j][a]) <= Limit
    BY DEF Grown
  <2>4. QED BY <2>1, <2>2, <2>3 DEF Bounded
<1>9. ASSUME NEW j \in Kind, NEW a \in Arrays(j)', batch'[j][a] /= <<>>
      PROVE  \E r \in Requests' : /\ bulk'[r].kind = j /\ bulk'[r].array = a
                                  /\ bulk'[r].state = "timer"
  <2>1. CASE j = k /\ a = n
    BY <1>2, <1>4, <2>1
  <2>2. CASE ~ (j = k /\ a = n)
    <3>1. a \in Arrays(j) /\ batch[j][a] /= <<>>
      BY <1>9, <2>2 DEF Grown
    <3>2. PICK r \in Requests : bulk[r].kind = j /\ bulk[r].array = a /\ bulk[r].state = "timer"
      BY <3>1 DEF Dispatcher, NothingStranded, Requests, Arrays
    <3>3. QED BY <1>1, <3>2 DEF Requests
  <2>3. QED BY <2>1, <2>2
<1>10. NothingStranded'
  BY <1>9 DEF NothingStranded, Requests, Arrays
<1>11. WithinLimit'
  <2>1. ASSUME NEW r \in Requests' PROVE Len(bulk'[r].sent) <= Limit
    <3>1. CASE r = new
      BY <1>2, <3>1, PartyTracksAssumption
    <3>2. CASE r \in Requests
      BY <1>1, <3>2 DEF Dispatcher, WithinLimit, Requests
    <3>3. QED BY <1>3, <2>1, <3>1, <3>2
  <2>2. QED BY <2>1 DEF WithinLimit, Requests
<1>12. Calls(k, t)
  <2>1. Len(bulk') >= Len(bulk)
    BY <1>1 DEF new
  <2>2. QED BY <1>1, <1>2, <2>1 DEF Calls, Arrays, Grown
<1>13. QED BY <1>5, <1>7, <1>8, <1>10, <1>11, <1>12 DEF Dispatcher

(* An entry joins the current array. *)
LEMMA JoinKeeps ==
  ASSUME Dispatcher, NEW k \in Kind, NEW t \in Track, Join(k, t)
  PROVE  Dispatcher' /\ Calls(k, t)
<1> DEFINE n == Current(k)
           new == Append(batch[k][n], t)
<1>1. /\ batch[k] \in Seq(Seq(Track)) /\ n \in Arrays(k) /\ n \in Nat
      /\ batch[k][n] \in Seq(Track) /\ Len(batch[k][n]) \in Nat
  BY CurrentArray DEF Dispatcher
<1>2. /\ new \in Seq(Track) /\ Len(new) = Len(batch[k][n]) + 1 /\ new /= <<>>
      /\ t \in Range(new) /\ Range(batch[k][n]) \subseteq Range(new)
  <2>1. t \in Range(new) /\ Range(batch[k][n]) \subseteq Range(new)
    BY <1>1, AppendedRange
  <2>2. new \in Seq(Track) /\ Len(new) = Len(batch[k][n]) + 1 /\ new /= <<>>
    BY <1>1, Appended
  <2>3. QED BY <2>1, <2>2
<1>3. Len(new) <= Limit
  BY <1>1, <1>2, PartyTracksAssumption DEF Join, Full
<1>4. batch' = [batch EXCEPT ![k] = [batch[k] EXCEPT ![n] = new]]
  BY DEF Join
<1>5. /\ [batch[k] EXCEPT ![n] = new] \in Seq(Seq(Track))
      /\ Len([batch[k] EXCEPT ![n] = new]) = Len(batch[k])
      /\ \A a \in Arrays(k) : [batch[k] EXCEPT ![n] = new][a] = IF a = n THEN new ELSE batch[k][a]
  BY <1>1, <1>2, Replaced DEF Arrays
<1>6. /\ batch' \in [Kind -> Seq(Seq(Track))]
      /\ \A j \in Kind : Len(batch'[j]) = Len(batch[j])
      /\ \A j \in Kind : \A a \in Arrays(j) :
           batch'[j][a] = IF j = k /\ a = n THEN new ELSE batch[j][a]
  BY <1>4, <1>5 DEF Dispatcher, Typed
<1> HIDE DEF n, new
<1>7. \A j \in Kind : Arrays(j)' = Arrays(j) /\ Current(j)' = Current(j)
  BY <1>6 DEF Arrays, Current
<1>8. /\ \A j \in Kind : Len(batch'[j]) > 0
      /\ \A j \in Kind : \A a \in Arrays(j)' : Len(batch'[j][a]) <= Limit
  BY <1>3, <1>6, <1>7 DEF Dispatcher, Bounded
<1>9. \A j \in Kind : \A a \in Arrays(j) :
        a \in 1 .. Len(batch'[j]) /\ Range(batch[j][a]) \subseteq Range(batch'[j][a])
  BY <1>2, <1>6, <1>7 DEF Arrays
<1>10. CASE response[k] /= NoRequest
  <2>1. UNCHANGED <<bulk, response>>
    BY <1>10 DEF Join
  <2>2. /\ response[k] \in Requests /\ bulk[response[k]].kind = k
        /\ bulk[response[k]].array = n /\ bulk[response[k]].state = "timer"
    BY <1>10 DEF Dispatcher, Typed, Pending, Requests, NoRequest, n
  <2>3. Typed' /\ Pending' /\ Bounded' /\ WithinLimit'
    <3>1. Typed'
      BY <2>1, <1>6 DEF Dispatcher, Typed
    <3>2. Pending'
      BY <2>1, <1>7 DEF Dispatcher, Pending
    <3>3. \A r \in Requests : bulk[r].kind \in Kind
      BY RequestType DEF Dispatcher
    <3>4. (\A r \in Requests : bulk[r].array \in Arrays(bulk[r].kind))'
      BY <2>1, <1>7, <3>3 DEF Dispatcher, Bounded, Requests
    <3>5. Bounded'
      BY <1>8, <3>4 DEF Bounded
    <3>6. WithinLimit'
      BY <2>1 DEF Dispatcher, WithinLimit
    <3>7. QED BY <3>1, <3>2, <3>5, <3>6
  <2>4. ASSUME NEW j \in Kind, NEW a \in Arrays(j)', batch'[j][a] /= <<>>
        PROVE  \E r \in Requests : bulk[r].kind = j /\ bulk[r].array = a /\ bulk[r].state = "timer"
    <3>1. CASE j = k /\ a = n
      BY <2>2, <3>1
    <3>2. CASE ~ (j = k /\ a = n)
      <4>1. a \in Arrays(j) /\ batch[j][a] /= <<>>
        BY <1>6, <1>7, <2>4, <3>2
      <4>2. QED BY <4>1 DEF Dispatcher, NothingStranded, Requests, Arrays
    <3>3. QED BY <3>1, <3>2
  <2>5. NothingStranded'
    BY <2>1, <2>4 DEF NothingStranded, Requests, Arrays
  <2>6. t \in Range(batch'[k][n])
    BY <1>1, <1>2, <1>6
  <2>7. Calls(k, t)
    <3>1. Len(bulk') >= Len(bulk) /\ \A r \in Requests : bulk'[r] = bulk[r]
      BY <2>1 DEF Dispatcher, Typed
    <3>2. QED BY <1>9, <2>1, <2>2, <2>6, <3>1 DEF Calls, Requests
  <2>8. QED BY <2>3, <2>5, <2>7 DEF Dispatcher
<1>11. CASE response[k] = NoRequest
  <2>1. NewResponse(k, n)
    BY <1>11 DEF Join, n
  <2>2. t \in Range(batch'[k][n])
    BY <1>1, <1>2, <1>6
  <2>3. n = Current(k)' /\ n > 0
    BY <1>1, <1>7 DEF n, Arrays
  <2>4. Grown(k, t, n)
    <3>1. \A j \in Kind : \A a \in Arrays(j)' :
            batch'[j][a] /= <<>> /\ ~ (j = k /\ a = n) => a \in Arrays(j) /\ batch[j][a] /= <<>>
      BY <1>6, <1>7
    <3>2. \A j \in Kind : \A a \in Arrays(j) : a \in Arrays(j)'
      BY <1>7
    <3>3. QED BY <1>6, <1>7, <1>8, <1>9, <2>2, <2>3, <3>1, <3>2 DEF Grown
  <2>5. QED BY <1>1, <2>1, <2>4, NewResponseKeeps
<1>12. QED BY <1>10, <1>11

(* A new array is begun. *)
LEMMA OverflowKeeps ==
  ASSUME Dispatcher, NEW k \in Kind, NEW t \in Track, Overflow(k, t)
  PROVE  Dispatcher' /\ Calls(k, t)
<1> DEFINE n == Current(k) + 1
<1>1. /\ batch[k] \in Seq(Seq(Track)) /\ Current(k) \in Arrays(k) /\ Current(k) \in Nat
      /\ n \in Nat /\ n > 0 /\ <<t>> \in Seq(Track)
  BY CurrentArray DEF Dispatcher
<1>2. batch' = [batch EXCEPT ![k] = Append(batch[k], <<t>>)] /\ NewResponse(k, n)
  BY DEF Overflow
<1>3. /\ Append(batch[k], <<t>>) \in Seq(Seq(Track))
      /\ Len(Append(batch[k], <<t>>)) = n
      /\ \A a \in Arrays(k) : Append(batch[k], <<t>>)[a] = batch[k][a]
      /\ Append(batch[k], <<t>>)[n] = <<t>>
  BY <1>1, Appended DEF Arrays, Current
<1>4. /\ batch' \in [Kind -> Seq(Seq(Track))]
      /\ Len(batch'[k]) = n /\ batch'[k][n] = <<t>>
      /\ \A j \in Kind : j /= k => batch'[j] = batch[j]
      /\ \A j \in Kind : \A a \in Arrays(j) : batch'[j][a] = batch[j][a]
  BY <1>2, <1>3 DEF Dispatcher, Typed
<1>5. /\ n = Current(k)' /\ \A j \in Kind : j /= k => Current(j)' = Current(j)
      /\ \A j \in Kind : \A a \in Arrays(j) : a \in Arrays(j)'
      /\ \A j \in Kind : \A a \in Arrays(j)' : a \in Arrays(j) \/ (j = k /\ a = n)
  <2>1. \A a \in 1 .. n : a \in 1 .. Len(batch[k]) \/ a = n
    BY <1>1 DEF Current
  <2>2. \A a \in 1 .. Len(batch[k]) : a \in 1 .. n
    BY <1>1 DEF Current
  <2>3. Len(batch'[k]) = n /\ Current(k)' = Len(batch'[k]) /\ Arrays(k)' = 1 .. Len(batch'[k])
    BY <1>4 DEF Current, Arrays
  <2>4. \A j \in Kind : j /= k => Current(j)' = Current(j) /\ Arrays(j)' = Arrays(j)
    BY <1>4 DEF Current, Arrays
  <2>5. Arrays(k) = 1 .. Len(batch[k])
    BY DEF Arrays
  <2> HIDE DEF n
  <2>6. ASSUME NEW j \in Kind
        PROVE  /\ \A a \in Arrays(j) : a \in Arrays(j)'
               /\ \A a \in Arrays(j)' : a \in Arrays(j) \/ (j = k /\ a = n)
    <3>1. CASE j = k
      BY <2>1, <2>2, <2>3, <2>5, <3>1
    <3>2. CASE j /= k
      BY <2>4, <3>2
    <3>3. QED BY <3>1, <3>2
  <2>7. QED BY <2>3, <2>4, <2>6
<1>6. t \in Range(batch'[k][n])
  BY <1>4 DEF Range
<1>7. Len(<<t>>) <= Limit
  BY PartyTracksAssumption
<1> HIDE DEF n
<1>8. \A j \in Kind : \A a \in Arrays(j)' : Len(batch'[j][a]) <= Limit
  BY <1>4, <1>5, <1>7 DEF Dispatcher, Bounded
<1>9. \A j \in Kind : \A a \in Arrays(j) :
        a \in Arrays(j)' /\ Range(batch[j][a]) \subseteq Range(batch'[j][a])
  BY <1>4, <1>5
<1>10. \A j \in Kind : \A a \in Arrays(j)' :
         batch'[j][a] /= <<>> /\ ~ (j = k /\ a = n) => a \in Arrays(j) /\ batch[j][a] /= <<>>
  BY <1>4, <1>5
<1>11. Grown(k, t, n)
  BY <1>1, <1>4, <1>5, <1>6, <1>8, <1>9, <1>10 DEF Grown
<1>12. QED BY <1>1, <1>2, <1>11, NewResponseKeeps

(* Either way. *)
LEMMA CallKeeps ==
  ASSUME Dispatcher, NEW k \in Kind, NEW t \in Track, DoBulkRequest(k, t)
  PROVE  Dispatcher' /\ Calls(k, t)
BY JoinKeeps, OverflowKeeps DEF DoBulkRequest

(***************************************************************************)
(* Timers and tasks.                                                       *)
(***************************************************************************)

(* Request r changes its state to one in which its timer has fired, and    *)
(* perhaps what it has sent and found; the others stay.                    *)
Moves(r, req) ==
  /\ req \in Request /\ req.kind = bulk[r].kind /\ req.array = bulk[r].array
  /\ req.state /= "timer" /\ Len(req.sent) <= Limit
  /\ bulk' = [bulk EXCEPT ![r] = req]

(* What then is the same. *)
LEMMA MovesKeeps ==
  ASSUME Typed, WithinLimit, NEW r \in Requests, NEW req, Moves(r, req)
  PROVE  /\ bulk' \in Seq(Request) /\ Len(bulk') = Len(bulk) /\ Len(bulk) \in Nat
         /\ Requests' = Requests
         /\ \A q \in Requests : bulk'[q] = IF q = r THEN req ELSE bulk[q]
         /\ \A q \in Requests : bulk'[q].kind = bulk[q].kind /\ bulk'[q].array = bulk[q].array
         /\ WithinLimit'
<1>1. /\ bulk' \in Seq(Request) /\ Len(bulk') = Len(bulk) /\ Len(bulk) \in Nat
      /\ \A q \in Requests : bulk'[q] = IF q = r THEN req ELSE bulk[q]
  BY Replaced DEF Typed, Requests, Moves
<1>2. \A q \in Requests : bulk'[q].kind = bulk[q].kind /\ bulk'[q].array = bulk[q].array
  BY <1>1 DEF Moves
<1>3. Requests' = Requests
  BY <1>1 DEF Requests
<1>4. WithinLimit'
  BY <1>1, <1>3 DEF WithinLimit, Requests, Moves
<1>5. QED BY <1>1, <1>2, <1>3, <1>4

(* A timer fires. *)
LEMMA DispatchMoves ==
  ASSUME Dispatcher, NEW r \in Requests, bulk[r].state = "timer", Dispatch(r)
  PROVE  \E req : /\ Moves(r, req) /\ req.state = "queued"
                  /\ req.sent = batch[bulk[r].kind][bulk[r].array]
<1> DEFINE k == bulk[r].kind
           a == bulk[r].array
           req == [bulk[r] EXCEPT !.state = "queued", !.sent = batch[k][a]]
<1>1. bulk[r] \in Request /\ k \in Kind /\ a \in Arrays(k)
  BY RequestType DEF Dispatcher, Bounded
<1>2. batch[k][a] \in Seq(Track) /\ Len(batch[k][a]) <= Limit
  BY <1>1, CurrentArray DEF Dispatcher, Bounded
<1>3. /\ req \in Request /\ req.kind = k /\ req.array = a /\ req.state = "queued"
      /\ req.sent = batch[k][a]
  BY <1>1, <1>2 DEF Request
<1>4. bulk' = [bulk EXCEPT ![r] = req]
  BY DEF Dispatch
<1> HIDE DEF k, a, req
<1>5. Moves(r, req)
  BY <1>2, <1>3, <1>4 DEF Moves, k, a
<1>6. QED BY <1>3, <1>5 DEF k, a

(* What it leaves of the arrays. *)
LEMMA DispatchEmpties ==
  ASSUME Dispatcher, NEW r \in Requests, Dispatch(r)
  PROVE  /\ batch' \in [Kind -> Seq(Seq(Track))]
         /\ \A j \in Kind : Len(batch'[j]) = Len(batch[j])
         /\ \A j \in Kind : Arrays(j)' = Arrays(j) /\ Current(j)' = Current(j)
         /\ \A j \in Kind : \A b \in Arrays(j) :
              batch'[j][b] = IF j = bulk[r].kind /\ b = bulk[r].array THEN <<>> ELSE batch[j][b]
<1> DEFINE k == bulk[r].kind
           a == bulk[r].array
<1>1. k \in Kind /\ a \in Arrays(k) /\ batch[k] \in Seq(Seq(Track))
  BY RequestType, CurrentArray DEF Dispatcher, Bounded
<1>2. <<>> \in Seq(Track)
  OBVIOUS
<1>3. /\ [batch[k] EXCEPT ![a] = <<>>] \in Seq(Seq(Track))
      /\ Len([batch[k] EXCEPT ![a] = <<>>]) = Len(batch[k])
      /\ \A b \in Arrays(k) : [batch[k] EXCEPT ![a] = <<>>][b] = IF b = a THEN <<>> ELSE batch[k][b]
  BY <1>1, <1>2, Replaced DEF Arrays
<1>4. batch' = [batch EXCEPT ![k] = [batch[k] EXCEPT ![a] = <<>>]]
  BY DEF Dispatch
<1> HIDE DEF k, a
<1>5. /\ batch' \in [Kind -> Seq(Seq(Track))]
      /\ \A j \in Kind : Len(batch'[j]) = Len(batch[j])
      /\ \A j \in Kind : \A b \in Arrays(j) :
           batch'[j][b] = IF j = k /\ b = a THEN <<>> ELSE batch[j][b]
  BY <1>1, <1>3, <1>4 DEF Dispatcher, Typed
<1>6. QED BY <1>5 DEF Arrays, Current, k, a

(* The dispatcher after a timer. *)
LEMMA DispatchKeeps ==
  ASSUME Dispatcher, NEW r \in Requests, bulk[r].state = "timer", Dispatch(r)
  PROVE  Dispatcher'
<1> DEFINE k == bulk[r].kind
           a == bulk[r].array
<1>1. PICK req : Moves(r, req) /\ req.state = "queued"
  BY DispatchMoves
<1>2. /\ bulk' \in Seq(Request) /\ Len(bulk') = Len(bulk) /\ Requests' = Requests
      /\ \A q \in Requests : bulk'[q] = IF q = r THEN req ELSE bulk[q]
      /\ \A q \in Requests : bulk'[q].kind = bulk[q].kind /\ bulk'[q].array = bulk[q].array
      /\ WithinLimit'
  BY <1>1, MovesKeeps DEF Dispatcher
<1>3. /\ batch' \in [Kind -> Seq(Seq(Track))]
      /\ \A j \in Kind : Len(batch'[j]) = Len(batch[j])
      /\ \A j \in Kind : Arrays(j)' = Arrays(j) /\ Current(j)' = Current(j)
      /\ \A j \in Kind : \A b \in Arrays(j) :
           batch'[j][b] = IF j = k /\ b = a THEN <<>> ELSE batch[j][b]
  BY DispatchEmpties
<1>4. /\ response' \in [Kind -> 0 .. Len(bulk)] /\ response'[k] = NoRequest
      /\ \A j \in Kind : j /= k => response'[j] = response[j]
  <2>1. k \in Kind /\ Len(bulk) \in Nat
    BY RequestType DEF Dispatcher, Typed
  <2>2. response' = [response EXCEPT ![k] = NoRequest]
    BY DEF Dispatch
  <2>3. QED BY <2>1, <2>2 DEF Dispatcher, Typed, NoRequest
<1>5. \A q \in Requests : bulk[q].kind \in Kind
  BY RequestType DEF Dispatcher
<1> HIDE DEF k, a
<1>6. Typed'
  BY <1>2, <1>3, <1>4 DEF Typed
<1>7. ASSUME NEW j \in Kind, response'[j] /= NoRequest
      PROVE  /\ bulk'[response'[j]].kind = j
             /\ bulk'[response'[j]].array = Current(j)'
             /\ bulk'[response'[j]].state = "timer"
  <2>1. j /= k /\ response'[j] = response[j]
    BY <1>4, <1>7
  <2>2. response[j] \in Requests
    BY <1>7, <2>1 DEF Dispatcher, Typed, Requests, NoRequest
  <2>3. /\ bulk[response[j]].kind = j /\ bulk[response[j]].array = Current(j)
        /\ bulk[response[j]].state = "timer"
    BY <1>7, <2>1 DEF Dispatcher, Pending
  <2>4. response[j] /= r
    BY <2>1, <2>3 DEF k
  <2>5. QED BY <1>2, <1>3, <2>1, <2>2, <2>3, <2>4
<1>8. Pending'
  BY <1>7 DEF Pending
<1>9. Bounded'
  <2>1. \A j \in Kind : Len(batch'[j]) > 0
    BY <1>3 DEF Dispatcher, Bounded
  <2>2. Len(<<>>) <= Limit
    BY PartyTracksAssumption
  <2>3. \A j \in Kind : \A b \in Arrays(j)' : Len(batch'[j][b]) <= Limit
    BY <1>3, <2>2 DEF Dispatcher, Bounded
  <2>4. (\A q \in Requests : bulk[q].array \in Arrays(bulk[q].kind))'
    BY <1>2, <1>3, <1>5 DEF Dispatcher, Bounded
  <2>5. QED BY <2>1, <2>3, <2>4 DEF Bounded
<1>10. ASSUME NEW j \in Kind, NEW b \in Arrays(j)', batch'[j][b] /= <<>>
       PROVE  \E q \in Requests' : /\ bulk'[q].kind = j /\ bulk'[q].array = b
                                   /\ bulk'[q].state = "timer"
  <2>1. b \in Arrays(j) /\ batch[j][b] /= <<>> /\ ~ (j = k /\ b = a)
    BY <1>3, <1>10
  <2>2. PICK q \in Requests : bulk[q].kind = j /\ bulk[q].array = b /\ bulk[q].state = "timer"
    BY <2>1 DEF Dispatcher, NothingStranded, Requests, Arrays
  <2>3. q /= r
    BY <2>1, <2>2 DEF k, a
  <2>4. QED BY <1>2, <2>2, <2>3
<1>11. NothingStranded'
  BY <1>10 DEF NothingStranded, Requests, Arrays
<1>12. QED BY <1>2, <1>6, <1>8, <1>9, <1>11 DEF Dispatcher

(* The dispatcher after a task. *)
LEMMA TaskKeeps ==
  ASSUME Dispatcher, NEW r \in Requests, bulk[r].state /= "timer", NEW req, Moves(r, req),
         UNCHANGED <<batch, response>>
  PROVE  Dispatcher'
<1>1. /\ bulk' \in Seq(Request) /\ Len(bulk') = Len(bulk) /\ Requests' = Requests
      /\ \A q \in Requests : bulk'[q] = IF q = r THEN req ELSE bulk[q]
      /\ \A q \in Requests : bulk'[q].kind = bulk[q].kind /\ bulk'[q].array = bulk[q].array
      /\ WithinLimit'
  BY MovesKeeps DEF Dispatcher
<1>2. \A j \in Kind : Arrays(j)' = Arrays(j) /\ Current(j)' = Current(j)
  BY DEF Arrays, Current
<1>3. \A q \in Requests : bulk[q].kind \in Kind
  BY RequestType DEF Dispatcher
<1>4. \A q \in Requests : bulk[q].state = "timer" => bulk'[q] = bulk[q]
  BY <1>1
<1>5. Typed'
  BY <1>1 DEF Dispatcher, Typed
<1>6. Bounded'
  <2>1. (\A q \in Requests : bulk[q].array \in Arrays(bulk[q].kind))'
    BY <1>1, <1>2, <1>3 DEF Dispatcher, Bounded
  <2>2. QED BY <1>2, <2>1 DEF Dispatcher, Bounded
<1>7. Pending'
  <2>1. \A j \in Kind : response[j] /= NoRequest => response[j] \in Requests
    BY DEF Dispatcher, Typed, Requests, NoRequest
  <2>2. QED BY <1>2, <1>4, <2>1 DEF Dispatcher, Pending
<1>8. NothingStranded'
  <2>1. ASSUME NEW j \in Kind, NEW b \in Arrays(j), batch[j][b] /= <<>>
        PROVE  \E q \in Requests' : /\ bulk'[q].kind = j /\ bulk'[q].array = b
                                    /\ bulk'[q].state = "timer"
    <3>1. PICK q \in Requests : bulk[q].kind = j /\ bulk[q].array = b /\ bulk[q].state = "timer"
      BY <2>1 DEF Dispatcher, NothingStranded, Requests, Arrays
    <3>2. QED BY <1>1, <1>4, <3>1
  <2>2. QED BY <1>2, <2>1 DEF NothingStranded, Requests, Arrays
<1>9. QED BY <1>1, <1>5, <1>6, <1>7, <1>8 DEF Dispatcher

-----------------------------------------------------------------------------
(***************************************************************************)
(* Callers and their entries.                                              *)
(***************************************************************************)

(* A call takes nothing from who waits. *)
LEMMA CallAwaits ==
  ASSUME Dispatcher, Dispatcher', NEW k \in Kind, NEW t, Calls(k, t), NEW x \in Track, NEW p, Awaits(x, p)
  PROVE  Awaits(x, p)'
<1>1. p \in Requests /\ Len(bulk) \in Nat /\ bulk[p].kind = KindOf(x)
  BY DEF Awaits, Dispatcher, Typed
<1>2. \A r \in 1 .. p : r \in Requests
  BY <1>1 DEF Requests
<1>3. \A r \in Requests : r \in Requests' /\ bulk'[r] = bulk[r]
  BY <1>1 DEF Calls, Requests, Dispatcher, Typed
<1>4. CASE Sent(x, p)
  <2>1. Sent(x, p)'
    BY <1>2, <1>3, <1>4 DEF Sent, KindOf
  <2>2. QED BY <1>1, <1>3, <2>1 DEF Awaits, KindOf
<1>5. CASE Kept(x, p)
  <2>1. bulk[p].kind \in Kind /\ bulk[p].array \in Arrays(bulk[p].kind)
    BY <1>1, RequestType DEF Dispatcher, Bounded
  <2>2. Range(batch[bulk[p].kind][bulk[p].array]) \subseteq Range(batch'[bulk[p].kind][bulk[p].array])
    BY <2>1 DEF Calls
  <2>3. Kept(x, p)'
    BY <1>1, <1>3, <1>5, <2>2 DEF Kept
  <2>4. QED BY <1>1, <1>3, <2>3 DEF Awaits, KindOf
<1>6. QED BY <1>4, <1>5 DEF Awaits

(* The caller itself. *)
LEMMA CallerAwaits ==
  ASSUME Dispatcher', NEW t \in Track, Calls(KindOf(t), t)
  PROVE  Awaits(t, response[KindOf(t)])'
BY DEF Calls, Awaits, Kept, Requests, KindOf

(* A timer takes entries no later than those who wait for them expect: the *)
(* timers fire in order.                                                   *)
LEMMA DispatchAwaits ==
  ASSUME Dispatcher, NEW r \in First("timer"), Dispatch(r), NEW x \in Track, NEW p, Awaits(x, p)
  PROVE  Awaits(x, p)'
<1>1. /\ r \in Requests /\ bulk[r].state = "timer"
      /\ \A q \in 1 .. r - 1 : bulk[q].state /= "timer"
  BY DEF First, Dispatcher, Typed, Requests
<1>2. /\ p \in Requests /\ bulk[p].kind = KindOf(x) /\ Len(bulk) \in Nat
      /\ \A q \in 1 .. p : q \in Requests
  BY DEF Awaits, Dispatcher, Typed, Requests
<1>3. PICK req : /\ Moves(r, req) /\ req.state = "queued"
                /\ req.sent = batch[bulk[r].kind][bulk[r].array]
  BY <1>1, DispatchMoves
<1>4. /\ Requests' = Requests
      /\ \A q \in Requests : bulk'[q] = IF q = r THEN req ELSE bulk[q]
      /\ \A q \in Requests : bulk'[q].kind = bulk[q].kind /\ bulk'[q].array = bulk[q].array
  BY <1>1, <1>3, MovesKeeps DEF Dispatcher
<1>5. CASE Sent(x, p)
  <2>1. PICK q \in 1 .. p : /\ bulk[q].kind = KindOf(x) /\ bulk[q].state /= "timer"
                           /\ x \in Range(bulk[q].sent)
    BY <1>5 DEF Sent
  <2>2. q \in Requests /\ bulk'[q] = bulk[q]
    BY <1>1, <1>2, <1>4, <2>1
  <2>3. Sent(x, p)'
    BY <2>1, <2>2 DEF Sent, KindOf
  <2>4. QED BY <1>2, <1>4, <2>3 DEF Awaits, KindOf
<1>6. CASE Kept(x, p)
  <2> DEFINE k == bulk[p].kind
             a == bulk[p].array
  <2>1. k \in Kind /\ a \in Arrays(k) /\ bulk[p].state = "timer" /\ x \in Range(batch[k][a])
    BY <1>2, <1>6, RequestType DEF Kept, Dispatcher, Bounded
  <2>2. r \in 1 .. p
    BY <1>1, <1>2, <2>1 DEF Requests
  <2>3. CASE bulk[r].kind = k /\ bulk[r].array = a
    <3>1. /\ bulk'[r].kind = KindOf(x) /\ bulk'[r].state /= "timer"
          /\ x \in Range(bulk'[r].sent)
      BY <1>1, <1>2, <1>3, <1>4, <2>1, <2>3
    <3>2. Sent(x, p)'
      BY <2>2, <3>1 DEF Sent, KindOf
    <3>3. QED BY <1>2, <1>4, <3>2 DEF Awaits, KindOf
  <2>4. CASE ~ (bulk[r].kind = k /\ bulk[r].array = a)
    <3>1. batch'[k][a] = batch[k][a]
      BY <1>1, <2>1, <2>4, DispatchEmpties
    <3>2. p /= r
      BY <2>4
    <3>3. Kept(x, p)'
      BY <1>2, <1>4, <2>1, <3>1, <3>2 DEF Kept
    <3>4. QED BY <1>2, <1>4, <3>3 DEF Awaits, KindOf
  <2>5. QED BY <2>3, <2>4
<1>7. QED BY <1>5, <1>6 DEF Awaits

(* The outcome of a task changes nothing of what was sent. *)
LEMMA TaskAwaits ==
  ASSUME Dispatcher, NEW r \in Requests, bulk[r].state /= "timer", NEW req, Moves(r, req),
         req.sent = bulk[r].sent, UNCHANGED <<batch, response>>,
         NEW x \in Track, NEW p, Awaits(x, p)
  PROVE  Awaits(x, p)'
<1>1. /\ p \in Requests /\ bulk[p].kind = KindOf(x) /\ Len(bulk) \in Nat
      /\ \A q \in 1 .. p : q \in Requests
  BY DEF Awaits, Dispatcher, Typed, Requests
<1>2. /\ Requests' = Requests
      /\ \A q \in Requests : bulk'[q] = IF q = r THEN req ELSE bulk[q]
      /\ \A q \in Requests : bulk'[q].kind = bulk[q].kind /\ bulk'[q].array = bulk[q].array
  BY MovesKeeps DEF Dispatcher
<1>3. \A q \in Requests : /\ bulk'[q].sent = bulk[q].sent
                          /\ bulk[q].state /= "timer" => bulk'[q].state /= "timer"
                          /\ bulk[q].state = "timer" => bulk'[q].state = "timer"
  BY <1>2 DEF Moves
<1>4. CASE Sent(x, p)
  <2>1. Sent(x, p)'
    BY <1>1, <1>2, <1>3, <1>4 DEF Sent, KindOf
  <2>2. QED BY <1>1, <1>2, <2>1 DEF Awaits, KindOf
<1>5. CASE Kept(x, p)
  <2>1. Kept(x, p)'
    BY <1>1, <1>2, <1>3, <1>5 DEF Kept
  <2>2. QED BY <1>1, <1>2, <2>1 DEF Awaits, KindOf
<1>6. QED BY <1>4, <1>5 DEF Awaits

-----------------------------------------------------------------------------
(***************************************************************************)
(* The invariant.                                                          *)
(***************************************************************************)
TrackState ==
  {"idle", "waiting", "resolving", "found", "backoff", "left", "unresolved", "gone"}

Subscriptions ==
  /\ track \in [Track -> [state : TrackState, promise : 0 .. Len(bulk)]]
  /\ connected \in BOOLEAN
  /\ live \subseteq Track \X (0 .. Len(bulk))
  /\ unclosed \subseteq Track \X (0 .. Len(bulk))
  /\ calls \in 0 .. MaxCalls

Inv == Dispatcher /\ Subscriptions /\ Owed

(* A step takes nothing from who waits. *)
Survives == \A x \in Track : \A p \in Requests : Awaits(x, p) => Awaits(x, p)'

Waits(x) == track[x].state \in {"waiting", "left"}

(* It keeps Owed if it adds to those who wait only one whose request has   *)
(* its entry.                                                              *)
LEMMA OwedKept ==
  ASSUME Owed, Survives,
         \A x \in Track : Waits(x)' =>
           \/ Waits(x) /\ track'[x].promise = track[x].promise
           \/ Awaits(x, track[x].promise)'
  PROVE  Owed'
<1>1. ASSUME NEW x \in Track, Waits(x)', Waits(x), track'[x].promise = track[x].promise
      PROVE  Awaits(x, track[x].promise)'
  <2>1. PICK p \in Requests : p = track[x].promise /\ Awaits(x, p)
    BY <1>1 DEF Owed, Waits, Awaits
  <2>2. Awaits(x, p)' /\ p = track'[x].promise
    BY <1>1, <2>1 DEF Survives
  <2>3. QED BY <2>2 DEF Awaits, Sent, Kept
<1>2. \A x \in Track : Waits(x)' => Awaits(x, track[x].promise)'
  BY <1>1
<1>3. QED BY <1>2 DEF Owed, Waits

(* What doBulkRequest() does to everybody. *)
LEMMA CallSurvives ==
  ASSUME Dispatcher, NEW k \in Kind, NEW t \in Track, DoBulkRequest(k, t)
  PROVE  Dispatcher' /\ Calls(k, t) /\ Survives /\ Len(bulk') >= Len(bulk)
<1>1. Dispatcher' /\ Calls(k, t)
  BY CallKeeps
<1>2. Survives
  BY <1>1, CallAwaits DEF Survives
<1>3. QED BY <1>1, <1>2 DEF Calls

(* A mid is of a track and a request, if of any. *)
LEMMA MidType ==
  ASSUME Dispatcher, Subscriptions, NEW t \in Track
  PROVE  Mid(t) \in Track \X (0 .. Len(bulk))
<1>1. Len(bulk) \in Nat /\ track[t].promise \in 0 .. Len(bulk)
  BY DEF Dispatcher, Typed, Subscriptions
<1>2. QED BY <1>1 DEF Mid, MidOf, NoRequest

(* The numbers of promises stay numbers of promises. *)
LEMMA SubscriptionsKept ==
  ASSUME Dispatcher, Dispatcher', Subscriptions, Len(bulk') >= Len(bulk),
         NEW t \in Track, NEW new \in [state : TrackState, promise : 0 .. Len(bulk')],
         track' = [track EXCEPT ![t] = new], live' = live, calls' \in 0 .. MaxCalls,
         connected' = connected, unclosed' \in {unclosed, unclosed \cup {Mid(t)}}
  PROVE  Subscriptions'
<1>1. Len(bulk) \in Nat /\ Len(bulk') \in Nat
  BY DEF Dispatcher, Typed
<1>2. \A n \in 0 .. Len(bulk) : n \in 0 .. Len(bulk')
  BY <1>1
<1>3. [state : TrackState, promise : 0 .. Len(bulk)]
        \subseteq [state : TrackState, promise : 0 .. Len(bulk')]
  BY <1>2
<1>4. track' \in [Track -> [state : TrackState, promise : 0 .. Len(bulk')]]
  BY <1>3 DEF Subscriptions
<1>5. Track \X (0 .. Len(bulk)) \subseteq Track \X (0 .. Len(bulk'))
  BY <1>2
<1>6. Mid(t) \in Track \X (0 .. Len(bulk))
  BY MidType
<1>7. live' \subseteq Track \X (0 .. Len(bulk')) /\ unclosed' \subseteq Track \X (0 .. Len(bulk'))
  BY <1>5, <1>6 DEF Subscriptions
<1>8. QED BY <1>4, <1>7 DEF Subscriptions

(* A subscription, or another. *)
LEMMA AskKeeps ==
  ASSUME Inv, NEW t \in Track, Ask(t)
  PROVE  Inv'
<1> DEFINE k == KindOf(t)
           new == [state |-> "waiting", promise |-> response'[k]]
<1>0. calls' \in 0 .. MaxCalls
  <2>1. calls \in 0 .. MaxCalls /\ calls < MaxCalls /\ calls' = calls + 1
    BY DEF Inv, Subscriptions, Ask
  <2>2. QED BY <2>1, PartyTracksAssumption
<1>1. k \in Kind
  BY DEF KindOf, Kind
<1>2. DoBulkRequest(k, t) /\ track' = [track EXCEPT ![t] = new] /\ UNCHANGED <<connected, live, unclosed>>
  BY DEF Ask
<1>3. Dispatcher' /\ Calls(k, t) /\ Survives /\ Len(bulk') >= Len(bulk)
  BY <1>1, <1>2, CallSurvives DEF Inv
<1>4. new \in [state : TrackState, promise : 0 .. Len(bulk')]
  BY <1>1, <1>3 DEF TrackState, Dispatcher, Typed
<1>5. Subscriptions /\ Owed /\ Dispatcher
  BY DEF Inv
<1>6. track'[t].promise = response'[k] /\ \A x \in Track : x /= t => track'[x] = track[x]
  BY <1>2, <1>5 DEF Subscriptions
<1> HIDE DEF new
<1>7. Subscriptions'
  BY <1>0, <1>2, <1>3, <1>4, <1>5, SubscriptionsKept
<1>8. Awaits(t, track[t].promise)'
  <2>1. Awaits(t, response[KindOf(t)])'
    BY <1>3, CallerAwaits
  <2>2. (response[KindOf(t)])' = track'[t].promise
    BY <1>6 DEF KindOf
  <2>3. QED BY <2>1, <2>2 DEF Awaits, Sent, Kept
<1>9. Owed'
  <2>1. \A x \in Track : Waits(x)' =>
           \/ Waits(x) /\ track'[x].promise = track[x].promise
           \/ Awaits(x, track[x].promise)'
    BY <1>6, <1>8 DEF Waits
  <2>2. QED BY <1>3, <1>5, <2>1, OwedKept
<1>10. QED BY <1>3, <1>7, <1>9 DEF Inv

(* An entry in the dispatcher of closes. *)
Closes(t) == DoBulkRequest("close", t)

(* A subscription changes its state to one that does not start to wait,    *)
(* and perhaps closes its track.                                           *)
LEMMA BecomesKeeps ==
  ASSUME Inv, NEW t \in Track, NEW state \in TrackState, Becomes(t, state),
         state \in {"waiting", "left"} => Waits(t),
         Closes(t) \/ NothingAsked, UNCHANGED <<connected, live, calls>>,
         unclosed' \in {unclosed, unclosed \cup {Mid(t)}}
  PROVE  Inv'
<1>1. Dispatcher /\ Subscriptions /\ Owed /\ Len(bulk) \in Nat
  BY DEF Inv, Dispatcher, Typed
<1>2. Dispatcher' /\ Survives /\ Len(bulk') >= Len(bulk)
  <2>1. CASE Closes(t)
    BY <1>1, <2>1, CallSurvives DEF Closes, Kind
  <2>2. CASE NothingAsked
    <3>1. UNCHANGED <<batch, response, bulk>>
      BY <2>2 DEF NothingAsked
    <3>2. Dispatcher'
      BY <1>1, <3>1 DEF Dispatcher, Typed, Bounded, Pending, NothingStranded, WithinLimit,
                        Arrays, Requests, Current
    <3>3. Survives
      BY <3>1 DEF Survives, Awaits, Sent, Kept, Requests, KindOf
    <3>4. QED BY <1>1, <3>1, <3>2, <3>3
  <2>3. QED BY <2>1, <2>2
<1>3. Len(bulk') \in Nat
  BY <1>2 DEF Dispatcher, Typed
<1> DEFINE new == [track[t] EXCEPT !.state = state]
<1>4. track' = [track EXCEPT ![t] = new]
  BY DEF Becomes
<1>5. /\ new \in [state : TrackState, promise : 0 .. Len(bulk')]
      /\ new.state = state /\ new.promise = track[t].promise
  <2>1. track[t] \in [state : TrackState, promise : 0 .. Len(bulk)]
    BY <1>1 DEF Subscriptions
  <2>2. \A n \in 0 .. Len(bulk) : n \in 0 .. Len(bulk')
    BY <1>1, <1>2, <1>3
  <2>3. QED BY <2>1, <2>2
<1> HIDE DEF new
<1>6. calls' \in 0 .. MaxCalls
  BY <1>1 DEF Subscriptions
<1>7. Subscriptions'
  BY <1>1, <1>2, <1>4, <1>5, <1>6, SubscriptionsKept
<1>8. track'[t] = new /\ \A x \in Track : x /= t => track'[x] = track[x]
  BY <1>1, <1>4 DEF Subscriptions
<1>9. \A x \in Track : Waits(x)' => Waits(x) /\ track'[x].promise = track[x].promise
  BY <1>5, <1>8 DEF Waits
<1>10. Owed'
  BY <1>1, <1>2, <1>9, OwedKept
<1>11. QED BY <1>2, <1>7, <1>10 DEF Inv

(* A timer. *)
LEMMA TimerKeeps ==
  ASSUME Inv, TimerFires
  PROVE  Inv'
<1>1. PICK r \in First("timer") : Dispatch(r)
  BY DEF TimerFires
<1>2. r \in Requests /\ bulk[r].state = "timer"
  BY <1>1 DEF First, Inv, Dispatcher, Typed, Requests
<1>3. Dispatcher /\ Subscriptions /\ Owed
  BY DEF Inv
<1>4. Dispatcher'
  BY <1>1, <1>2, <1>3, DispatchKeeps
<1>5. Survives
  BY <1>1, <1>3, DispatchAwaits DEF Survives
<1>6. Len(bulk') = Len(bulk)
  BY <1>1, <1>2, <1>3, DispatchMoves, MovesKeeps DEF Dispatcher
<1>7. UNCHANGED <<track, connected, live, unclosed, calls>>
  BY DEF TimerFires
<1>8. Subscriptions'
  BY <1>3, <1>6, <1>7 DEF Subscriptions
<1>9. Owed'
  BY <1>3, <1>5, <1>7, OwedKept DEF Waits
<1>10. QED BY <1>4, <1>8, <1>9 DEF Inv

(* The end of a task. *)
LEMMA TaskEndKeeps ==
  ASSUME Inv, NEW r \in First("queued"), NEW done \in SUBSET Range(bulk[r].sent), SFU(r, done),
         NEW req, Moves(r, req), req.sent = bulk[r].sent,
         UNCHANGED <<batch, response, track, connected, unclosed, calls>>
  PROVE  Inv'
<1>1. r \in Requests /\ bulk[r].state /= "timer"
  BY DEF First, Inv, Dispatcher, Typed, Requests
<1>2. Dispatcher /\ Subscriptions /\ Owed
  BY DEF Inv
<1>3. Dispatcher'
  BY <1>1, <1>2, TaskKeeps
<1>4. Survives
  BY <1>1, <1>2, TaskAwaits DEF Survives
<1>5. Len(bulk') = Len(bulk)
  BY <1>1, <1>2, MovesKeeps DEF Dispatcher
<1>6. done \subseteq Track
  <2>1. bulk[r] \in Request
    BY <1>1, <1>2, RequestType DEF Dispatcher
  <2>2. bulk[r].sent \in Seq(Track)
    BY <2>1 DEF Request
  <2>3. QED BY <2>2 DEF Range
<1>7. Subscriptions'
  <2>1. \A t \in done : MidOf(t, r) \in Track \X (0 .. Len(bulk))
    BY <1>1, <1>2, <1>6 DEF MidOf, NoRequest, Requests, Dispatcher, Typed
  <2>2. live' \subseteq Track \X (0 .. Len(bulk))
    BY <1>2, <2>1 DEF Subscriptions, SFU
  <2>3. QED BY <1>2, <1>5, <2>2 DEF Subscriptions
<1>8. Owed'
  BY <1>2, <1>4, OwedKept DEF Waits
<1>9. QED BY <1>3, <1>7, <1>8 DEF Inv

(* The invariant holds at first. *)
LEMMA InitInv == Init => Inv
<1> SUFFICES ASSUME Init PROVE Inv
  OBVIOUS
<1>1. <<>> \in Seq(Track) /\ << <<>> >> \in Seq(Seq(Track)) /\ bulk = <<>> /\ bulk \in Seq(Request)
  BY DEF Init
<1>2. /\ batch \in [Kind -> Seq(Seq(Track))] /\ response \in [Kind -> 0 .. Len(bulk)]
      /\ \A k \in Kind : response[k] = NoRequest /\ batch[k] = << <<>> >>
  BY <1>1 DEF Init, NoRequest
<1>3. /\ Len(<<>>) = 0 /\ Len(<< <<>> >>) = 1 /\ 0 <= Limit
      /\ \A a \in 1 .. 1 : << <<>> >>[a] = <<>>
      /\ 1 .. 0 = {}
  BY PartyTracksAssumption
<1>4. Typed
  BY <1>1, <1>2 DEF Typed
<1>5. Bounded
  BY <1>1, <1>2, <1>3 DEF Bounded, Arrays, Requests
<1>6. Pending
  BY <1>2 DEF Pending
<1>7. NothingStranded
  BY <1>2, <1>3 DEF NothingStranded
<1>8. WithinLimit
  BY <1>1, <1>3 DEF WithinLimit
<1>9. Subscriptions
  <2>1. /\ live = {} /\ unclosed = {} /\ connected = FALSE /\ calls = 0 /\ 0 \in 0 .. MaxCalls
        /\ 0 \in 0 .. Len(bulk)
        /\ track = [t \in Track |-> [state |-> "idle", promise |-> 0]]
    BY <1>1, PartyTracksAssumption DEF Init, NoRequest
  <2>2. track \in [Track -> [state : TrackState, promise : 0 .. Len(bulk)]]
    BY <2>1 DEF TrackState
  <2>3. QED BY <2>1, <2>2 DEF Subscriptions
<1>10. Owed
  BY DEF Init, Owed
<1>11. QED BY <1>4, <1>5, <1>6, <1>7, <1>8, <1>9, <1>10 DEF Inv, Dispatcher

(* Every step keeps it. *)
LEMMA NextInv == Inv /\ [Next]_vars => Inv'
<1> SUFFICES ASSUME Inv, [Next]_vars PROVE Inv'
  OBVIOUS
<1>2. ASSUME NEW t \in Track, Subscribe(t) PROVE Inv'
  BY <1>2, AskKeeps DEF Subscribe
<1>3. ASSUME NEW t \in Track, Retry(t) PROVE Inv'
  BY <1>3, AskKeeps DEF Retry
<1>4. ASSUME NEW t \in Track, Unsubscribe(t) PROVE Inv'
  <2>1. PICK state \in {"gone", "left", "unresolved"} :
           /\ Becomes(t, state) /\ (CloseTrack(t) \/ NothingClosed)
           /\ state \in {"waiting", "left"} => Waits(t)
    BY <1>4 DEF Unsubscribe, Waits
  <2>2. state \in TrackState /\ UNCHANGED <<connected, live, calls>>
    BY <1>4 DEF Unsubscribe, TrackState
  <2>3. QED BY <2>1, <2>2, BecomesKeeps DEF CloseTrack, NothingClosed, LeftOpen, Closes
<1>5. ASSUME NEW t \in Track, Answer(t) \/ TrackComes(t) \/ GivesUp(t) PROVE Inv'
  <2>1. PICK state \in {"found", "gone", "backoff", "resolving", "unresolved"} :
           Becomes(t, state) /\ (CloseTrack(t) \/ NothingClosed \/ LeftOpen(t))
    BY <1>5 DEF Answer, TrackComes, GivesUp, InAnswer, Found, Resolving, NotFound, Fails
  <2>2. /\ state \in TrackState /\ UNCHANGED <<connected, live, calls>>
        /\ state \notin {"waiting", "left"}
    BY <1>5 DEF Answer, TrackComes, GivesUp, TrackState
  <2>3. QED BY <2>1, <2>2, BecomesKeeps DEF CloseTrack, NothingClosed, LeftOpen, Closes
<1>11. CASE Connection
  <2>1. connected' \in BOOLEAN /\ UNCHANGED <<batch, response, bulk, track, live, unclosed, calls>>
    BY <1>11 DEF Connection
  <2>2. QED BY <2>1 DEF Inv, Dispatcher, Typed, Bounded, Pending, NothingStranded, WithinLimit,
                Subscriptions, Owed, Awaits, Sent, Kept, Arrays, Requests, Current, KindOf
<1>6. CASE TimerFires
  BY <1>6, TimerKeeps
<1>7. CASE TaskResolves
  <2>1. PICK r \in First("queued") : \E found \in SUBSET Range(bulk[r].sent) :
           /\ SFU(r, found)
           /\ bulk' = [bulk EXCEPT ![r].state = "done", ![r].found = found]
    BY <1>7 DEF TaskResolves
  <2>2. PICK found \in SUBSET Range(bulk[r].sent) :
           /\ SFU(r, found)
           /\ bulk' = [bulk EXCEPT ![r].state = "done", ![r].found = found]
    BY <2>1
  <2> DEFINE req == [bulk[r] EXCEPT !.state = "done", !.found = found]
  <2>3. r \in Requests /\ bulk[r] \in Request /\ bulk[r].sent \in Seq(Track)
    <3>1. r \in Requests
      BY DEF First, Inv, Dispatcher, Typed, Requests
    <3>2. QED BY <3>1, RequestType DEF Inv, Dispatcher, Request
  <2>4. found \subseteq Track
    BY <2>3 DEF Range
  <2>5. /\ req \in Request /\ req.kind = bulk[r].kind /\ req.array = bulk[r].array
        /\ req.state /= "timer" /\ req.sent = bulk[r].sent
    BY <2>3, <2>4 DEF Request
  <2>6. bulk' = [bulk EXCEPT ![r] = req]
    BY <2>2
  <2> HIDE DEF req
  <2>7. Moves(r, req)
    BY <2>3, <2>5, <2>6 DEF Moves, Inv, Dispatcher, WithinLimit, Requests
  <2>8. UNCHANGED <<batch, response, track, connected, unclosed, calls>>
    BY <1>7 DEF TaskResolves
  <2>9. QED BY <2>2, <2>5, <2>7, <2>8, TaskEndKeeps
<1>8. CASE TaskThrows
  <2>1. PICK r \in First("queued") : \E done \in SUBSET Range(bulk[r].sent) :
           SFU(r, done) /\ bulk' = [bulk EXCEPT ![r].state = "failed"]
    BY <1>8 DEF TaskThrows
  <2>2. PICK done \in SUBSET Range(bulk[r].sent) :
           SFU(r, done) /\ bulk' = [bulk EXCEPT ![r].state = "failed"]
    BY <2>1
  <2> DEFINE req == [bulk[r] EXCEPT !.state = "failed"]
  <2>3. r \in Requests /\ bulk[r] \in Request
    <3>1. r \in Requests
      BY DEF First, Inv, Dispatcher, Typed, Requests
    <3>2. QED BY <3>1, RequestType DEF Inv, Dispatcher
  <2>4. /\ req \in Request /\ req.kind = bulk[r].kind /\ req.array = bulk[r].array
        /\ req.state /= "timer" /\ req.sent = bulk[r].sent
    BY <2>3 DEF Request
  <2>5. bulk' = [bulk EXCEPT ![r] = req]
    BY <2>2
  <2> HIDE DEF req
  <2>6. Moves(r, req)
    BY <2>3, <2>4, <2>5 DEF Moves, Inv, Dispatcher, WithinLimit, Requests
  <2>7. UNCHANGED <<batch, response, track, connected, unclosed, calls>>
    BY <1>8 DEF TaskThrows
  <2>8. QED BY <2>2, <2>4, <2>6, <2>7, TaskEndKeeps
<1>9. CASE UNCHANGED vars
  BY <1>9 DEF vars, Inv, Dispatcher, Typed, Bounded, Pending, NothingStranded, WithinLimit,
              Subscriptions, Owed, Awaits, Sent, Kept, Arrays, Requests, Current, KindOf
<1>10. QED BY <1>2, <1>3, <1>4, <1>5, <1>6, <1>7, <1>8, <1>9, <1>11, PartyTracksAssumption
       DEF Next, Track

-----------------------------------------------------------------------------
(***************************************************************************)
(* Responses of one's own, and what the SFU keeps open.  Both are about    *)
(* dispatchers whose first array is still their only one.                  *)
(***************************************************************************)

(* Then a timer that has not fired is that of the response to share, ...   *)
Alone ==
  \A k \in Kind : NeverOverflowed(k) =>
    \A r \in Requests : bulk[r].kind = k /\ bulk[r].state = "timer" => response[k] = r

(* ... and who waits has its entry in the request that it awaits.          *)
Entered(t, p) ==
  /\ bulk[p].state = "timer" => t \in Range(batch[KindOf(t)][1])
  /\ bulk[p].state /= "timer" => t \in Range(bulk[p].sent)
OwnEntry ==
  \A t \in Track : Waits(t) /\ NeverOverflowed(KindOf(t)) => Entered(t, track[t].promise)

(* No array has overflowed and no task has thrown. *)
Clean ==
  /\ \A k \in Kind : NeverOverflowed(k)
  /\ \A r \in Requests : bulk[r].state /= "failed"

(* The entries that the SFU has yet to see are of those who wait, for the  *)
(* request that has the entry, ...                                         *)
Owned ==
  /\ \A k \in Kind \ {"close"} : \A t \in Range(batch[k][1]) :
       Waits(t) /\ response[k] /= NoRequest /\ track[t].promise = response[k]
  /\ \A r \in Requests : bulk[r].kind /= "close" /\ bulk[r].state = "queued" =>
       \A t \in Range(bulk[r].sent) : Waits(t) /\ track[t].promise = r

(* ... or are to close the track of one that has gone for good.            *)
InClose(t) ==
  \/ t \in Range(batch["close"][1])
  \/ \E r \in Requests : /\ bulk[r].kind = "close" /\ bulk[r].state = "queued"
                        /\ t \in Range(bulk[r].sent)

(* A mid is open when its subscriber has the track, waits to see it or is  *)
(* about to be told; any other is to be closed, or was left.               *)
Opened(t) ==
  \/ track[t].state = "found" \/ Unresolved(t)
  \/ /\ Waits(t) /\ bulk[track[t].promise].state = "done"
     /\ t \in bulk[track[t].promise].found

Accounted ==
  \A t \in Track :
    /\ InClose(t) => track[t].state = "gone"
    /\ Opened(t) => Mid(t) \in live
    /\ Mid(t) \in live => Opened(t) \/ InClose(t) \/ Mid(t) \in unclosed
    /\ Mid(t) \in unclosed =>
         /\ ~ InClose(t)
         /\ track[t].state = "gone" \/ (t \in Pulled /\ track[t].state = "backoff")

(* What was left is still open; what else is open is somebody's mid.       *)
Remains ==
  /\ unclosed \subseteq live
  /\ \A m \in live : m \in unclosed \/ \E t \in Track : m = Mid(t)

(* The answers to which mids belong have come. *)
Asked(r) == r \in Requests /\ bulk[r].state /= "timer"
Past ==
  /\ \A t \in Track : track[t].state = "found" \/ Unresolved(t) => Asked(track[t].promise)
  /\ \A t \in Pulled : \A r \in 0 .. Len(bulk) : <<t, r>> \in unclosed => Asked(r)

LeakInv == Clean => Owned /\ Accounted /\ Remains

OwnInv == Alone /\ OwnEntry /\ Past /\ LeakInv

(* Subscriptions do not share mids. *)
LEMMA MidsApart == \A x, y : Mid(x) = Mid(y) => x = y
BY DEF Mid, MidOf

(* Requests that have been sent stay sent. *)
LEMMA PastKept ==
  ASSUME Inv, OwnInv, \A r : Asked(r) => Asked(r)', Len(bulk) <= Len(bulk'),
         NEW t \in Track, unclosed' \in {unclosed, unclosed \cup {Mid(t)}},
         Mid(t) \in unclosed' => Mid(t) \in unclosed \/ Asked(track[t].promise),
         \A x \in Track : track'[x].state = "found" \/ Unresolved(x)' =>
           /\ track'[x].promise = track[x].promise
           /\ track[x].state = "found" \/ Unresolved(x) \/ Asked(track[x].promise)
  PROVE  Past'
<1>1. ASSUME NEW x \in Track, track'[x].state = "found" \/ Unresolved(x)'
      PROVE  Asked(track[x].promise)'
  <2>1. Asked(track[x].promise) /\ track'[x].promise = track[x].promise
    BY <1>1 DEF OwnInv, Past
  <2>2. PICK r : r = track[x].promise /\ Asked(r)
    BY <2>1
  <2>3. Asked(r)' /\ track'[x].promise = r
    BY <2>1, <2>2
  <2>4. QED BY <2>3 DEF Asked
<1>2. ASSUME NEW x \in Pulled, NEW r, <<x, r>> \in unclosed' PROVE Asked(r)'
  <2>1. CASE <<x, r>> \in unclosed
    <3>1. r \in 0 .. Len(bulk)
      BY <2>1 DEF Inv, Subscriptions
    <3>2. QED BY <2>1, <3>1 DEF OwnInv, Past
  <2>2. CASE <<x, r>> \notin unclosed
    <3>1. <<x, r>> = Mid(t) /\ Asked(track[t].promise)
      BY <1>2, <2>2
    <3>2. x = t /\ t \notin Pushed
      BY <3>1, PartyTracksAssumption DEF Mid, MidOf
    <3>3. r = track[t].promise
      BY <3>1, <3>2 DEF Mid, MidOf
    <3>4. QED BY <3>1, <3>3
  <2>3. QED BY <2>1, <2>2
<1>3. QED BY <1>1, <1>2 DEF Past

(* Exactly what a call adds: an entry, and a request if there is none to   *)
(* share.                                                                  *)
LEMMA CallAdds ==
  ASSUME Dispatcher, NEW k \in Kind, NEW t \in Track, DoBulkRequest(k, t)
  PROVE  /\ \A j \in Kind : j /= k => batch'[j] = batch[j] /\ response'[j] = response[j]
         /\ \A r \in Requests : r \in Requests' /\ bulk'[r] = bulk[r]
         /\ response'[k] \in Requests' /\ bulk'[response'[k]].state = "timer"
         /\ response'[k] /= NoRequest
         /\ \A r \in Requests' : r \in Requests \/ (r = response'[k] /\ response[k] = NoRequest)
                                               \/ ~ NeverOverflowed(k)'
         /\ \A r \in Requests' : r \in Requests \/ (bulk'[r].kind = k /\ bulk'[r].state = "timer")
         /\ NeverOverflowed(k)' =>
              /\ NeverOverflowed(k)
              /\ Range(batch'[k][1]) = Range(batch[k][1]) \cup {t}
              /\ response[k] /= NoRequest => response'[k] = response[k]
<1>1. /\ batch[k] \in Seq(Seq(Track)) /\ Current(k) \in Arrays(k) /\ Current(k) \in Nat
      /\ batch[k][Current(k)] \in Seq(Track) /\ Len(bulk) \in Nat
      /\ batch \in [Kind -> Seq(Seq(Track))] /\ response \in [Kind -> 0 .. Len(bulk)]
  BY CurrentArray DEF Dispatcher, Typed
<1>2. Dispatcher' /\ Calls(k, t)
  BY CallKeeps
<1>3. /\ \A r \in Requests : r \in Requests' /\ bulk'[r] = bulk[r]
      /\ response'[k] \in Requests' /\ bulk'[response'[k]].state = "timer"
      /\ response'[k] /= NoRequest
  <2>1. Len(bulk') \in Nat
    BY <1>2 DEF Dispatcher, Typed
  <2>2. QED BY <1>1, <1>2, <2>1 DEF Calls, Requests, NoRequest
<1>4. /\ \A j \in Kind : j /= k => batch'[j] = batch[j]
      /\ \A j \in Kind : j /= k => response'[j] = response[j]
  BY <1>1 DEF DoBulkRequest, Join, Overflow, NewResponse
<1>5. ASSUME NewResponse(k, Current(k)) \/ NewResponse(k, Current(k) + 1)
      PROVE  \A r \in Requests' :
               r \in Requests \/ (r = response'[k] /\ bulk'[r].kind = k /\ bulk'[r].state = "timer")
  <2>1. PICK n \in Nat : NewResponse(k, n)
    BY <1>1, <1>5
  <2>2. /\ Len(bulk') = Len(bulk) + 1 /\ bulk'[Len(bulk) + 1] = NewRequest(k, n)
        /\ response'[k] = Len(bulk) + 1
    BY <2>1, NewResponseAdds DEF Dispatcher
  <2>3. \A r \in Requests' : r \in Requests \/ r = response'[k]
    BY <1>1, <2>2 DEF Requests
  <2>4. QED BY <2>2, <2>3 DEF NewRequest
<1>6. CASE Join(k, t)
  <2>1. batch'[k] = [batch[k] EXCEPT ![Current(k)] = Append(batch[k][Current(k)], t)]
    BY <1>1, <1>6 DEF Join
  <2>2. Len(batch'[k]) = Len(batch[k])
        /\ batch'[k][Current(k)] = Append(batch[k][Current(k)], t)
    BY <1>1, <2>1, Appended, Replaced DEF Arrays
  <2>3. ASSUME NeverOverflowed(k)'
        PROVE  NeverOverflowed(k) /\ Range(batch'[k][1]) = Range(batch[k][1]) \cup {t}
    <3>1. Current(k) = 1
      BY <2>2, <2>3 DEF NeverOverflowed, Current
    <3>2. NeverOverflowed(k)
      BY <3>1 DEF NeverOverflowed, Current
    <3>3. Range(Append(batch[k][1], t)) = Range(batch[k][1]) \cup {t}
      BY <1>1, <3>1, AppendedRange
    <3>4. QED BY <2>2, <3>1, <3>2, <3>3
  <2>4. CASE response[k] /= NoRequest
    <3>1. UNCHANGED <<bulk, response>>
      BY <1>6, <2>4 DEF Join
    <3>2. QED BY <1>3, <1>4, <2>3, <3>1 DEF Requests
  <2>5. CASE response[k] = NoRequest
    <3>1. NewResponse(k, Current(k))
      BY <1>6, <2>5 DEF Join
    <3>2. QED BY <1>3, <1>4, <1>5, <2>3, <2>5, <3>1
  <2>6. QED BY <2>4, <2>5
<1>7. CASE Overflow(k, t)
  <2>1. Len(batch'[k]) = Len(batch[k]) + 1
    BY <1>1, <1>7 DEF Overflow
  <2>2. ~ NeverOverflowed(k)'
    BY <1>1, <2>1 DEF NeverOverflowed, Arrays, Current
  <2>3. NewResponse(k, Current(k) + 1)
    BY <1>7 DEF Overflow
  <2>4. QED BY <1>3, <1>4, <1>5, <2>2, <2>3
<1>8. QED BY <1>6, <1>7 DEF DoBulkRequest

(* A call leaves a timer that has not fired to the response to share.      *)
LEMMA CallAlone ==
  ASSUME Dispatcher, Alone, NEW k \in Kind, NEW t \in Track, DoBulkRequest(k, t)
  PROVE  /\ Alone'
         /\ \A j \in Kind : NeverOverflowed(j)' => NeverOverflowed(j)
         /\ Clean' => Clean
<1>1. /\ \A j \in Kind : j /= k => batch'[j] = batch[j] /\ response'[j] = response[j]
      /\ \A r \in Requests : r \in Requests' /\ bulk'[r] = bulk[r]
      /\ \A r \in Requests' : r \in Requests \/ (r = response'[k] /\ response[k] = NoRequest)
                                            \/ ~ NeverOverflowed(k)'
      /\ \A r \in Requests' : r \in Requests \/ (bulk'[r].kind = k /\ bulk'[r].state = "timer")
      /\ NeverOverflowed(k)' =>
           NeverOverflowed(k) /\ (response[k] /= NoRequest => response'[k] = response[k])
  BY CallAdds
<1>2. \A j \in Kind : NeverOverflowed(j)' => NeverOverflowed(j)
  BY <1>1 DEF NeverOverflowed
<1>3. ASSUME NEW j \in Kind, NeverOverflowed(j)', NEW r \in Requests', bulk'[r].kind = j,
             bulk'[r].state = "timer"
      PROVE  response'[j] = r
  <2>1. CASE r \in Requests
    <3>1. response[j] = r
      BY <1>1, <1>2, <1>3, <2>1 DEF Alone
    <3>2. r /= NoRequest
      BY <2>1 DEF Requests, NoRequest, Dispatcher, Typed
    <3>3. QED BY <1>1, <1>3, <3>1, <3>2
  <2>2. CASE r \notin Requests
    BY <1>1, <1>3, <2>2
  <2>3. QED BY <2>1, <2>2
<1>4. Alone'
  BY <1>3 DEF Alone
<1>5. Clean' => Clean
  BY <1>1, <1>2 DEF Clean
<1>6. QED BY <1>2, <1>4, <1>5

(* It takes no entry away. *)
LEMMA CallEntered ==
  ASSUME Dispatcher, NEW k \in Kind, NEW t \in Track, DoBulkRequest(k, t),
         NEW x \in Track, NEW p \in Requests, NeverOverflowed(KindOf(x))', Entered(x, p)
  PROVE  Entered(x, p)'
<1>1. KindOf(x) \in Kind
  BY DEF KindOf, Kind
<1>2. /\ bulk'[p] = bulk[p]
      /\ KindOf(x) /= k => batch'[KindOf(x)] = batch[KindOf(x)]
      /\ KindOf(x) = k => Range(batch'[k][1]) = Range(batch[k][1]) \cup {t}
  BY <1>1, CallAdds
<1>3. QED BY <1>2 DEF Entered, KindOf

(* Who waits after a step that leaves the requests alone, or only adds to  *)
(* them.                                                                   *)
LEMMA PromiseKept ==
  ASSUME Inv, NEW x \in Track, Waits(x)
  PROVE  /\ track[x].promise \in Requests
         /\ bulk[track[x].promise].kind = KindOf(x)
BY DEF Inv, Owed, Waits, Awaits

(* A subscription, or another. *)
LEMMA AskOwn ==
  ASSUME Inv, OwnInv, NEW t \in Track, Ask(t), track[t].state \in {"idle", "backoff"}
  PROVE  OwnInv'
<1> DEFINE k == KindOf(t)
<1>1. /\ k \in Kind \ {"close"} /\ DoBulkRequest(k, t) /\ UNCHANGED <<live, unclosed>>
      /\ Dispatcher /\ Alone /\ OwnEntry /\ Past /\ LeakInv
  BY DEF Ask, KindOf, Kind, Inv, OwnInv
<1>2. /\ track'[t] = [state |-> "waiting", promise |-> response'[k]]
      /\ \A x \in Track : x /= t => track'[x] = track[x]
  BY DEF Ask, Inv, Subscriptions
<1>3. Waits(t)' /\ ~ Waits(t) /\ track'[t].promise = response'[k]
  BY <1>2 DEF Waits
<1>4. \A x \in Track : x /= t => track'[x] = track[x] /\ (Waits(x)' <=> Waits(x))
  BY <1>2 DEF Waits
<1>5. /\ \A j \in Kind : j /= k => batch'[j] = batch[j] /\ response'[j] = response[j]
      /\ \A r \in Requests : r \in Requests' /\ bulk'[r] = bulk[r]
      /\ response'[k] \in Requests' /\ bulk'[response'[k]].state = "timer"
      /\ response'[k] /= NoRequest
      /\ \A r \in Requests' : r \in Requests \/ (bulk'[r].kind = k /\ bulk'[r].state = "timer")
      /\ NeverOverflowed(k)' =>
           /\ Range(batch'[k][1]) = Range(batch[k][1]) \cup {t}
           /\ response[k] /= NoRequest => response'[k] = response[k]
  BY <1>1, CallAdds
<1>6. Alone' /\ (Clean' => Clean) /\ \A j \in Kind : NeverOverflowed(j)' => NeverOverflowed(j)
  BY <1>1, CallAlone
<1>7. OwnEntry'
  <2>1. ASSUME NEW x \in Track, Waits(x)', NeverOverflowed(KindOf(x))'
        PROVE  Entered(x, track[x].promise)'
    <3>1. CASE x = t
      <4>1. t \in Range(batch'[KindOf(t)][1])
        BY <1>5, <2>1, <3>1
      <4>2. QED BY <1>3, <1>5, <3>1, <4>1 DEF Entered, KindOf
    <3>2. CASE x /= t
      <4>1. KindOf(x) \in Kind /\ NeverOverflowed(KindOf(x))
        BY <1>6, <2>1 DEF KindOf, Kind
      <4>2. Waits(x) /\ track'[x] = track[x]
        BY <1>4, <2>1, <3>2
      <4>3. Entered(x, track[x].promise) /\ track[x].promise \in Requests
        BY <1>1, <4>1, <4>2, PromiseKept DEF OwnEntry
      <4>4. PICK p \in Requests : p = track[x].promise /\ Entered(x, p)
        BY <4>3
      <4>5. Entered(x, p)'
        BY <1>1, <2>1, <4>4, CallEntered
      <4>6. QED BY <4>2, <4>4, <4>5 DEF Entered
    <3>3. QED BY <3>1, <3>2
  <2>2. QED BY <2>1 DEF OwnEntry, KindOf
<1>10. Past'
  <2>1. \A r : Asked(r) => Asked(r)'
    BY <1>5 DEF Asked
  <2>2. Len(bulk) <= Len(bulk')
    BY <1>1, CallKeeps DEF Calls
  <2>3. \A x \in Track : track'[x].state = "found" \/ Unresolved(x)' =>
          /\ track'[x].promise = track[x].promise
          /\ track[x].state = "found" \/ Unresolved(x)
    BY <1>2, <1>4 DEF Unresolved
  <2>4. Mid(t) \in unclosed' => Mid(t) \in unclosed
    BY <1>1
  <2>5. QED BY <1>1, <2>1, <2>2, <2>3, <2>4, PastKept
<1>8. ASSUME Clean' PROVE Owned' /\ Accounted' /\ Remains'
  <2>1. Owned /\ Accounted /\ Remains /\ NeverOverflowed(k)'
    BY <1>1, <1>6, <1>8 DEF LeakInv, Clean
  <2>2. /\ ~ Opened(t) /\ ~ InClose(t)
        /\ Mid(t) \in live => Mid(t) \in unclosed
        /\ Mid(t) \in unclosed => t \notin Pushed
    <3>1. ~ Opened(t) /\ ~ InClose(t)
      BY <1>3, <2>1 DEF Accounted, Opened, Unresolved
    <3>2. Mid(t) \in unclosed => t \in Pulled
      BY <2>1 DEF Accounted
    <3>3. QED BY <2>1, <3>1, <3>2, PartyTracksAssumption DEF Accounted
  <2>9. /\ \A x \in Track : x /= t => Mid(x)' = Mid(x)
        /\ t \in Pushed => Mid(t)' = Mid(t)
        /\ t \notin Pushed => Mid(t)' = <<t, response'[k]>>
    BY <1>2, <1>4 DEF Mid, MidOf
  <2>10. Mid(t)' \notin live
    <3>1. CASE t \in Pushed
      BY <2>2, <2>9, <3>1
    <3>2. CASE t \notin Pushed
      <4>1. SUFFICES ASSUME <<t, response'[k]>> \in live PROVE FALSE
        BY <2>9, <3>2
      <4>2. <<t, response'[k]>> \in unclosed
        <5>1. CASE \E x \in Track : <<t, response'[k]>> = Mid(x)
          <6>1. <<t, response'[k]>> = Mid(t)
            BY <5>1 DEF Mid, MidOf
          <6>2. QED BY <2>2, <4>1, <6>1
        <5>2. QED BY <2>1, <4>1, <5>1 DEF Remains
      <4>3. response'[k] \in 0 .. Len(bulk) /\ t \in Pulled
        BY <3>2, <4>2 DEF Inv, Subscriptions, Track
      <4>4. Asked(response'[k])
        BY <1>1, <4>2, <4>3 DEF Past
      <4>5. QED BY <1>5, <4>4 DEF Asked
    <3>3. QED BY <3>1, <3>2
  <2>11. Remains'
    <3>1. ASSUME NEW m \in live, m \notin unclosed PROVE \E x \in Track : m = Mid(x)'
      <4>1. PICK x \in Track : m = Mid(x)
        BY <2>1, <3>1 DEF Remains
      <4>2. x /= t
        BY <2>2, <3>1, <4>1
      <4>3. QED BY <2>9, <4>1, <4>2
    <3>2. QED BY <1>1, <2>1, <3>1 DEF Remains
  <2>3. ASSUME NEW j \in Kind \ {"close"}, NEW x \in Range(batch'[j][1])
        PROVE  Waits(x)' /\ response'[j] /= NoRequest /\ track'[x].promise = response'[j]
    <3>1. CASE x \in Range(batch[j][1])
      <4>1. Waits(x) /\ response[j] /= NoRequest /\ track[x].promise = response[j]
        BY <2>1, <3>1 DEF Owned
      <4>2. x \in Track
        BY <3>1, CurrentArray, <1>1 DEF Inv, Dispatcher, Bounded, Range, Arrays, Current
      <4>3. response'[j] = response[j]
        BY <1>5, <2>1, <4>1
      <4>4. QED BY <1>3, <1>4, <4>1, <4>2, <4>3
    <3>2. CASE x \notin Range(batch[j][1])
      BY <1>3, <1>5, <2>1, <2>3, <3>2
    <3>3. QED BY <3>1, <3>2
  <2>4. ASSUME NEW r \in Requests', bulk'[r].kind /= "close", bulk'[r].state = "queued",
               NEW x \in Range(bulk'[r].sent)
        PROVE  Waits(x)' /\ track'[x].promise = r
    <3>1. r \in Requests /\ bulk'[r] = bulk[r]
      BY <1>5, <2>4
    <3>2. Waits(x) /\ track[x].promise = r
      BY <2>1, <2>4, <3>1 DEF Owned
    <3>3. x \in Track
      BY <2>4, <3>1, RequestType, <1>1 DEF Dispatcher, Request, Range
    <3>4. QED BY <1>3, <1>4, <3>2, <3>3
  <2>5. ASSUME NEW x \in Track PROVE (InClose(x)' <=> InClose(x)) /\ (Opened(x)' <=> Opened(x))
    <3>1. InClose(x)' <=> InClose(x)
      BY <1>1, <1>5 DEF InClose, Kind
    <3>2. CASE x = t
      BY <1>2, <1>5, <2>2, <3>1, <3>2 DEF Opened, Unresolved
    <3>3. CASE x /= t
      BY <1>4, <1>5, <3>1, <3>3, PromiseKept DEF Opened, Unresolved
    <3>4. QED BY <3>2, <3>3
  <2>6. Accounted'
    <3>1. ASSUME NEW x \in Track, x /= t
          PROVE  /\ InClose(x)' => track'[x].state = "gone"
                 /\ Opened(x)' => Mid(x)' \in live'
                 /\ Mid(x)' \in live' => Opened(x)' \/ InClose(x)' \/ Mid(x)' \in unclosed'
                 /\ Mid(x)' \in unclosed' =>
                      /\ ~ InClose(x)'
                      /\ track'[x].state = "gone" \/ (x \in Pulled /\ track'[x].state = "backoff")
      BY <1>1, <1>4, <2>1, <2>5, <2>9, <3>1 DEF Accounted
    <3>2. ~ InClose(t)' /\ ~ Opened(t)' /\ Mid(t)' \notin live' /\ Mid(t)' \notin unclosed'
      BY <1>1, <2>1, <2>2, <2>5, <2>10 DEF Remains
    <3>3. QED BY <3>1, <3>2 DEF Accounted
  <2>7. Owned'
    BY <2>3, <2>4 DEF Owned
  <2>8. QED BY <2>6, <2>7, <2>11
<1>9. QED BY <1>6, <1>7, <1>8, <1>10 DEF OwnInv, LeakInv

(* Closing a track is not to close nothing. *)
LEMMA CloseCloses ==
  ASSUME Dispatcher, NEW t \in Track, Closes(t)
  PROVE  batch' /= batch
<1> DEFINE k == "close"
<1>1. /\ k \in Kind /\ batch[k] \in Seq(Seq(Track)) /\ Current(k) \in Arrays(k)
      /\ batch[k][Current(k)] \in Seq(Track) /\ batch \in [Kind -> Seq(Seq(Track))]
  BY CurrentArray DEF Dispatcher, Typed, Kind
<1>2. CASE Join(k, t)
  <2>1. batch'[k] = [batch[k] EXCEPT ![Current(k)] = Append(batch[k][Current(k)], t)]
    BY <1>1, <1>2 DEF Join
  <2>2. batch'[k][Current(k)] = Append(batch[k][Current(k)], t)
    BY <1>1, <2>1, Appended, Replaced DEF Arrays
  <2>3. Len(batch'[k][Current(k)]) /= Len(batch[k][Current(k)])
    BY <1>1, <2>2, Appended
  <2>4. QED BY <2>3
<1>3. CASE Overflow(k, t)
  <2>1. Len(batch'[k]) = Len(batch[k]) + 1
    BY <1>1, <1>3 DEF Overflow
  <2>2. QED BY <1>1, <2>1
<1>4. QED BY <1>2, <1>3 DEF Closes, DoBulkRequest

(* What closing a track, or not, does to the others' entries.              *)
LEMMA CloseAdds ==
  ASSUME Dispatcher, Alone, NEW t \in Track, Closes(t) \/ NothingAsked
  PROVE  /\ Alone' /\ (Clean' => Clean)
         /\ \A j \in Kind : NeverOverflowed(j)' => NeverOverflowed(j)
         /\ \A j \in Kind \ {"close"} : batch'[j] = batch[j] /\ response'[j] = response[j]
         /\ \A r \in Requests : r \in Requests' /\ bulk'[r] = bulk[r]
         /\ \A r \in Requests' : r \in Requests \/ bulk'[r].state = "timer"
         /\ \A x \in Track : InClose(x) /\ Clean' => InClose(x)'
         /\ \A x \in Track : InClose(x)' /\ Clean' => InClose(x) \/ (x = t /\ Closes(t))
         /\ Closes(t) /\ Clean' => InClose(t)'
<1>1. CASE NothingAsked
  <2>1. UNCHANGED <<batch, response, bulk>>
    BY <1>1 DEF NothingAsked
  <2>2. Requests' = Requests /\ \A j \in Kind : Current(j)' = Current(j)
    BY <2>1 DEF Requests, Current
  <2>3. Alone' /\ (Clean' => Clean) /\ \A j \in Kind : NeverOverflowed(j)' => NeverOverflowed(j)
    BY <2>1, <2>2 DEF Alone, Clean, NeverOverflowed
  <2>4. \A x \in Track : InClose(x)' <=> InClose(x)
    BY <2>1, <2>2 DEF InClose
  <2>5. CASE Closes(t)
    BY <2>1, <2>2, <2>3, <2>4, <2>5, CallAdds, CallAlone DEF Closes, Kind, InClose, Clean
  <2>6. CASE ~ Closes(t)
    BY <2>1, <2>2, <2>3, <2>4, <2>6
  <2>7. QED BY <2>5, <2>6
<1>2. CASE Closes(t)
  <2> DEFINE k == "close"
  <2>1. k \in Kind /\ DoBulkRequest(k, t)
    BY <1>2 DEF Closes, Kind
  <2>2. /\ \A j \in Kind : j /= k => batch'[j] = batch[j] /\ response'[j] = response[j]
        /\ \A r \in Requests : r \in Requests' /\ bulk'[r] = bulk[r]
        /\ \A r \in Requests' : r \in Requests \/ (bulk'[r].kind = k /\ bulk'[r].state = "timer")
        /\ NeverOverflowed(k)' => Range(batch'[k][1]) = Range(batch[k][1]) \cup {t}
    BY <2>1, CallAdds
  <2>3. Alone' /\ (Clean' => Clean) /\ \A j \in Kind : NeverOverflowed(j)' => NeverOverflowed(j)
    BY <2>1, CallAlone
  <2>4. Clean' => Range(batch'[k][1]) = Range(batch[k][1]) \cup {t}
    BY <2>1, <2>2 DEF Clean
  <2>5. \A x \in Track : Clean' => (InClose(x)' <=> InClose(x) \/ x = t)
    BY <2>2, <2>4 DEF InClose
  <2>6. QED BY <1>2, <2>2, <2>3, <2>5
<1>3. QED BY <1>1, <1>2

(* A subscription changes its state, and perhaps closes its track.         *)
LEMMA BecomesOwn ==
  ASSUME Inv, OwnInv, NEW t \in Track, NEW state \in TrackState, Becomes(t, state),
         Closes(t) \/ NothingAsked, UNCHANGED live,
         unclosed' \in {unclosed, unclosed \cup {Mid(t)}},
         state \in {"waiting", "left"} => Waits(t),
         Waits(t) =>
           state \in {"waiting", "left"} \/ bulk[track[t].promise].state \notin {"timer", "queued"},
         state \in {"found", "resolving", "unresolved"} => Asked(track[t].promise),
         Mid(t) \in unclosed' => Mid(t) \in unclosed \/ Asked(track[t].promise),
         Clean => /\ InClose(t) \/ Closes(t) => state = "gone"
                  /\ Mid(t) \in live =>
                       Opened(t)' \/ InClose(t) \/ Closes(t) \/ Mid(t) \in unclosed'
                  /\ Opened(t)' => Mid(t) \in live
                  /\ Mid(t) \in unclosed' =>
                       /\ Mid(t) \in live /\ ~ InClose(t) /\ ~ Closes(t)
                       /\ state = "gone" \/ (t \in Pulled /\ state = "backoff")
  PROVE  OwnInv'
<1>1. Dispatcher /\ Alone /\ OwnEntry /\ LeakInv
  BY DEF Inv, OwnInv
<1>2. /\ Alone' /\ (Clean' => Clean)
      /\ \A j \in Kind : NeverOverflowed(j)' => NeverOverflowed(j)
      /\ \A j \in Kind \ {"close"} : batch'[j] = batch[j] /\ response'[j] = response[j]
      /\ \A r \in Requests : r \in Requests' /\ bulk'[r] = bulk[r]
      /\ \A r \in Requests' : r \in Requests \/ bulk'[r].state = "timer"
      /\ \A x \in Track : InClose(x) /\ Clean' => InClose(x)'
      /\ \A x \in Track : InClose(x)' /\ Clean' => InClose(x) \/ (x = t /\ Closes(t))
      /\ Closes(t) /\ Clean' => InClose(t)'
  BY <1>1, CloseAdds
<1>3. /\ track'[t].state = state /\ track'[t].promise = track[t].promise
      /\ \A x \in Track : x /= t => track'[x] = track[x]
  BY DEF Becomes, Inv, Subscriptions
<1>4. /\ \A x \in Track : track'[x].promise = track[x].promise
      /\ \A x \in Track : Waits(x)' => Waits(x)
      /\ \A x \in Track : x /= t => (Waits(x)' <=> Waits(x))
      /\ Waits(t)' <=> state \in {"waiting", "left"}
  BY <1>3 DEF Waits
<1>5. ASSUME NEW x \in Track, Waits(x)', NeverOverflowed(KindOf(x))'
      PROVE  Entered(x, track[x].promise)'
  <2>1. KindOf(x) \in Kind \ {"close"}
    BY DEF KindOf, Kind
  <2>2. Entered(x, track[x].promise) /\ track[x].promise \in Requests
    BY <1>1, <1>2, <1>4, <1>5, <2>1, PromiseKept DEF OwnEntry
  <2>3. QED BY <1>2, <1>4, <2>1, <2>2 DEF Entered, KindOf
<1>6. OwnEntry'
  BY <1>5 DEF OwnEntry, KindOf
<1>9. /\ \A x \in Track : Mid(x)' = Mid(x)
      /\ \A x \in Track : x /= t => (Mid(x) \in unclosed' <=> Mid(x) \in unclosed)
      /\ unclosed \subseteq unclosed'
  <2>1. \A x \in Track : Mid(x)' = Mid(x)
    BY <1>4 DEF Mid, MidOf
  <2>2. QED BY <2>1, MidsApart
<1>10. Past'
  <2>1. \A r : Asked(r) => Asked(r)'
    BY <1>2 DEF Asked
  <2>2. Len(bulk) <= Len(bulk')
    <3>1. CASE Closes(t)
      BY <1>1, <3>1, CallKeeps DEF Calls, Closes, Kind
    <3>2. CASE NothingAsked
      BY <1>1, <3>2 DEF NothingAsked, Dispatcher, Typed
    <3>3. QED BY <3>1, <3>2
  <2>3. \A x \in Track : track'[x].state = "found" \/ Unresolved(x)' =>
          /\ track'[x].promise = track[x].promise
          /\ track[x].state = "found" \/ Unresolved(x) \/ Asked(track[x].promise)
    BY <1>3 DEF Unresolved
  <2>4. QED BY <2>1, <2>2, <2>3, PastKept
<1>7. ASSUME Clean' PROVE Owned' /\ Accounted' /\ Remains'
  <2>1. Owned /\ Accounted /\ Remains /\ Clean
    BY <1>1, <1>2, <1>7 DEF LeakInv
  <2>2. ASSUME NEW x \in Track, Waits(x), track[x].promise \in Requests,
               bulk[track[x].promise].state \in {"timer", "queued"}
        PROVE  Waits(x)'
    BY <1>4, <2>2
  <2>3. ASSUME NEW j \in Kind \ {"close"}, NEW x \in Range(batch'[j][1])
        PROVE  Waits(x)' /\ response'[j] /= NoRequest /\ track'[x].promise = response'[j]
    <3>1. x \in Range(batch[j][1])
      BY <1>2, <2>3
    <3>2. Waits(x) /\ response[j] /= NoRequest /\ track[x].promise = response[j]
      BY <2>1, <3>1 DEF Owned
    <3>3. x \in Track
      BY <3>1, CurrentArray, <1>1, <2>1 DEF Dispatcher, Bounded, Range, Arrays, Current
    <3>4. bulk[track[x].promise].state = "timer"
      BY <1>1, <3>2 DEF Dispatcher, Pending
    <3>5. QED BY <1>2, <1>4, <2>2, <3>2, <3>3, <3>4, PromiseKept
  <2>4. ASSUME NEW r \in Requests', bulk'[r].kind /= "close", bulk'[r].state = "queued",
               NEW x \in Range(bulk'[r].sent)
        PROVE  Waits(x)' /\ track'[x].promise = r
    <3>1. r \in Requests /\ bulk'[r] = bulk[r]
      BY <1>2, <2>4
    <3>2. Waits(x) /\ track[x].promise = r
      BY <2>1, <2>4, <3>1 DEF Owned
    <3>3. x \in Track
      BY <2>4, <3>1, RequestType, <1>1 DEF Dispatcher, Request, Range
    <3>4. QED BY <1>4, <2>2, <2>4, <3>1, <3>2, <3>3
  <2>5. ASSUME NEW x \in Track, x /= t
        PROVE  (InClose(x)' <=> InClose(x)) /\ (Opened(x)' <=> Opened(x))
    <3>1. InClose(x)' <=> InClose(x)
      BY <1>2, <1>7, <2>5
    <3>2. Opened(x)' <=> Opened(x)
      BY <1>2, <1>3, <1>4, <2>5, PromiseKept DEF Opened, Unresolved
    <3>3. QED BY <3>1, <3>2
  <2>6. Accounted'
    <3>1. ASSUME NEW x \in Track, x /= t
          PROVE  /\ InClose(x)' => track'[x].state = "gone"
                 /\ Opened(x)' => Mid(x)' \in live'
                 /\ Mid(x)' \in live' => Opened(x)' \/ InClose(x)' \/ Mid(x)' \in unclosed'
                 /\ Mid(x)' \in unclosed' =>
                      /\ ~ InClose(x)'
                      /\ track'[x].state = "gone" \/ (x \in Pulled /\ track'[x].state = "backoff")
      BY <1>3, <1>9, <2>1, <2>5, <3>1 DEF Accounted
    <3>2. InClose(t)' <=> InClose(t) \/ Closes(t)
      BY <1>2, <1>7
    <3>3. /\ InClose(t)' => track'[t].state = "gone"
          /\ Opened(t)' => Mid(t)' \in live'
          /\ Mid(t)' \in live' => Opened(t)' \/ InClose(t)' \/ Mid(t)' \in unclosed'
          /\ Mid(t)' \in unclosed' =>
               /\ ~ InClose(t)'
               /\ track'[t].state = "gone" \/ (t \in Pulled /\ track'[t].state = "backoff")
      BY <1>3, <1>9, <2>1, <3>2
    <3>4. QED BY <3>1, <3>3 DEF Accounted
  <2>7. Owned'
    BY <2>3, <2>4 DEF Owned
  <2>9. Remains'
    <3>1. unclosed' \subseteq live'
      BY <1>9, <2>1 DEF Remains
    <3>2. QED BY <1>9, <2>1, <3>1 DEF Remains
  <2>8. QED BY <2>6, <2>7, <2>9
<1>8. QED BY <1>2, <1>6, <1>7, <1>10 DEF OwnInv, LeakInv

(* A track that somebody has, or waits to see, is no longer wanted, or its *)
(* transceiver does not come: it is closed, or left open.                  *)
LEMMA LeavesOwn ==
  ASSUME Inv, OwnInv, NEW t \in Track, UNCHANGED live,
         \/ Becomes(t, "gone") /\ (CloseTrack(t) \/ LeftOpen(t))
         \/ t \in Pulled /\ Becomes(t, "backoff") /\ LeftOpen(t),
         Opened(t), Asked(track[t].promise), track[t].state /= "gone",
         Waits(t) => bulk[track[t].promise].state \notin {"timer", "queued"}
  PROVE  OwnInv'
<1>1. Dispatcher /\ LeakInv /\ \A state \in TrackState : Becomes(t, state) => track'[t].state = state
  BY DEF OwnInv, Inv, Subscriptions, Becomes
<1>2. PICK state \in {"gone", "backoff"} :
        /\ Becomes(t, state) /\ (CloseTrack(t) \/ LeftOpen(t))
        /\ state = "backoff" => t \in Pulled /\ LeftOpen(t)
  OBVIOUS
<1>3. state \in TrackState /\ ~ Opened(t)'
  BY <1>1, <1>2 DEF TrackState, Opened, Waits, Unresolved
<1>4. Clean => ~ InClose(t) /\ Mid(t) \in live /\ Mid(t) \notin unclosed
  <2>1. Mid(t) \in unclosed /\ Accounted => t \in Pulled /\ track[t].state = "backoff"
    BY DEF Accounted
  <2>2. Opened(t) => track[t].state /= "backoff"
    BY DEF Opened, Waits, Unresolved
  <2>3. QED BY <1>1, <2>1, <2>2 DEF LeakInv, Accounted
<1>5. CASE Closes(t) /\ UNCHANGED unclosed /\ state = "gone"
  BY <1>2, <1>3, <1>4, <1>5, BecomesOwn
<1>6. CASE LeftOpen(t)
  <2>1. NothingAsked /\ unclosed' = unclosed \cup {Mid(t)}
    BY <1>6 DEF LeftOpen
  <2>2. ~ Closes(t)
    BY <1>1, <2>1, CloseCloses DEF NothingAsked
  <2>3. QED BY <1>2, <1>3, <1>4, <2>1, <2>2, BecomesOwn
<1>7. QED BY <1>2, <1>5, <1>6 DEF CloseTrack, Closes

(* Nothing is closed: who waits goes on doing so, or is told.              *)
LEMMA StaysOwn ==
  ASSUME Inv, OwnInv, NEW t \in Track, NEW state \in TrackState, Becomes(t, state), NothingClosed,
         UNCHANGED live, state \in {"waiting", "left"} => Waits(t),
         Waits(t) =>
           state \in {"waiting", "left"} \/ bulk[track[t].promise].state \notin {"timer", "queued"},
         state \in {"found", "resolving", "unresolved"} => Asked(track[t].promise),
         Clean => /\ InClose(t) => state = "gone"
                  /\ Opened(t)' <=> Opened(t)
                  /\ Mid(t) \in unclosed => state = "gone"
  PROVE  OwnInv'
<1>1. NothingAsked /\ UNCHANGED unclosed /\ Dispatcher /\ LeakInv
  BY DEF NothingClosed, Inv, OwnInv
<1>2. ~ Closes(t)
  BY <1>1, CloseCloses DEF NothingAsked
<1>3. QED BY <1>1, <1>2, BecomesOwn DEF LeakInv, Accounted, Remains

(* The subscriber goes. *)
LEMMA UnsubscribeOwn ==
  ASSUME Inv, OwnInv, NEW t \in Track, Unsubscribe(t)
  PROVE  OwnInv'
<1>1. LeakInv /\ Past /\ Dispatcher /\ UNCHANGED live
  BY DEF OwnInv, Inv, Unsubscribe
<1>2. \A state \in TrackState : Becomes(t, state) =>
        track'[t].state = state /\ track'[t].promise = track[t].promise
  BY DEF Becomes, Inv, Subscriptions
<1>7. Clean => (Mid(t) \in unclosed => track[t].state \in {"gone", "backoff"})
               /\ (InClose(t) => track[t].state = "gone")
  BY <1>1 DEF LeakInv, Accounted
<1>3. CASE track[t].state = "found" /\ Becomes(t, "gone") /\ CloseTrack(t)
  BY <1>1, <1>3, LeavesOwn DEF Opened, Waits, Past
<1>4. CASE track[t].state = "backoff" /\ Becomes(t, "gone") /\ NothingClosed
  <2>1. "gone" \in TrackState /\ ~ Opened(t)' /\ ~ Opened(t) /\ ~ Waits(t)
    BY <1>2, <1>4 DEF TrackState, Opened, Waits, Unresolved
  <2>2. QED BY <1>1, <1>4, <2>1, StaysOwn
<1>5. CASE track[t].state = "waiting" /\ Becomes(t, "left") /\ NothingClosed
  <2>1. "left" \in TrackState /\ Waits(t)
    BY <1>5 DEF TrackState, Waits
  <2>2. UNCHANGED bulk /\ (Opened(t)' <=> Opened(t))
    BY <1>2, <1>5, <2>1 DEF NothingClosed, NothingAsked, Opened, Waits, Unresolved
  <2>3. QED BY <1>1, <1>5, <1>7, <2>1, <2>2, StaysOwn
<1>8. CASE track[t].state = "resolving" /\ Becomes(t, "unresolved") /\ NothingClosed
  <2>1. "unresolved" \in TrackState /\ ~ Waits(t) /\ Asked(track[t].promise)
    BY <1>1, <1>8 DEF TrackState, Waits, Past, Unresolved
  <2>2. Opened(t)' /\ Opened(t)
    BY <1>2, <1>8, <2>1 DEF Opened, Unresolved
  <2>3. QED BY <1>1, <1>7, <1>8, <2>1, <2>2, StaysOwn
<1>6. QED BY <1>3, <1>4, <1>5, <1>8 DEF Unsubscribe

(* The handlers of a bulk request's promise. *)
LEMMA AnswerOwn ==
  ASSUME Inv, OwnInv, NEW t \in Track, Answer(t)
  PROVE  OwnInv'
<1> DEFINE p == track[t].promise
<1>1. /\ Waits(t) /\ p \in Requests /\ bulk[p].state \in {"done", "failed"}
      /\ LeakInv /\ Dispatcher /\ UNCHANGED live /\ Asked(p)
  BY PromiseKept DEF OwnInv, Inv, Answer, Handled, Waits, Settled, Asked
<1>2. \A state \in TrackState : Becomes(t, state) =>
        track'[t].state = state /\ track'[t].promise = p
  BY DEF Becomes, Inv, Subscriptions
<1>3. Clean => /\ bulk[p].state = "done" /\ Accounted /\ ~ InClose(t)
               /\ Mid(t) \notin unclosed
  BY <1>1 DEF Clean, LeakInv, Accounted, Waits
<1>4. ASSUME t \in bulk[p].found, NEW state \in {"found", "resolving", "unresolved"},
             Becomes(t, state), NothingClosed
      PROVE  OwnInv'
  <2>1. state \in TrackState /\ Opened(t)'
    BY <1>2, <1>4 DEF TrackState, Opened, Unresolved
  <2>2. Clean => Opened(t)
    BY <1>1, <1>3, <1>4 DEF Opened
  <2>3. QED BY <1>1, <1>3, <1>4, <2>1, <2>2, StaysOwn
<1>5. CASE t \in bulk[p].found /\ InAnswer(t)
  <2>1. \/ \E state \in {"found", "resolving", "unresolved"} : Becomes(t, state) /\ NothingClosed
        \/ Becomes(t, "gone") /\ CloseTrack(t)
    BY <1>5 DEF InAnswer, Found, Resolving
  <2>2. CASE Becomes(t, "gone") /\ CloseTrack(t)
    <3>1. CASE bulk[p].state = "done"
      BY <1>1, <1>5, <2>2, <3>1, LeavesOwn DEF Opened, Waits
    <3>2. CASE bulk[p].state /= "done"
      <4>1. ~ Clean
        BY <1>3, <3>2
      <4>2. "gone" \in TrackState
        BY DEF TrackState
      <4>3. \/ Closes(t) /\ UNCHANGED unclosed
            \/ NothingAsked /\ unclosed' = unclosed \cup {Mid(t)}
        BY <2>2 DEF CloseTrack, Closes, LeftOpen
      <4>4. QED BY <1>1, <2>2, <4>1, <4>2, <4>3, BecomesOwn
    <3>3. QED BY <3>1, <3>2
  <2>3. QED BY <1>4, <1>5, <2>1, <2>2
<1>6. CASE t \notin bulk[p].found /\ NotFound(t)
  <2>1. ~ Opened(t)
    BY <1>1, <1>6 DEF Opened, Waits, Unresolved
  <2>2. PICK state \in {"backoff", "gone"} : Becomes(t, state) /\ NothingClosed
    BY <1>6 DEF NotFound, Fails
  <2>3. state \in TrackState /\ ~ Opened(t)'
    BY <1>2, <2>2 DEF TrackState, Opened, Waits, Unresolved
  <2>4. QED BY <1>1, <1>3, <2>1, <2>2, <2>3, StaysOwn
<1>7. QED BY <1>5, <1>6 DEF Answer

(* The wait for a transceiver ends. *)
LEMMA ResolvedOwn ==
  ASSUME Inv, OwnInv, NEW t \in Pulled, TrackComes(t) \/ GivesUp(t)
  PROVE  OwnInv'
<1>1. /\ t \in Track /\ Unresolved(t) /\ Opened(t) /\ ~ Waits(t) /\ Asked(track[t].promise)
      /\ track[t].state \notin {"gone", "backoff"} /\ UNCHANGED live /\ LeakInv
  BY DEF Track, TrackComes, GivesUp, Unresolved, Opened, Waits, OwnInv, Past
<1>2. CASE Becomes(t, "found") /\ NothingClosed
  <2>1. "found" \in TrackState /\ Opened(t)'
    BY <1>1, <1>2 DEF TrackState, Opened, Becomes, Inv, Subscriptions
  <2>2. Clean => ~ InClose(t) /\ Mid(t) \notin unclosed
    BY <1>1 DEF LeakInv, Accounted
  <2>3. QED BY <1>1, <1>2, <2>1, <2>2, StaysOwn
<1>3. CASE \/ Becomes(t, "gone") /\ (CloseTrack(t) \/ LeftOpen(t))
           \/ Becomes(t, "backoff") /\ LeftOpen(t)
  BY <1>1, <1>3, LeavesOwn
<1>4. QED BY <1>2, <1>3 DEF TrackComes, GivesUp, Found, Fails, Unresolved

(* A timer takes the entries of the response that it belongs to.           *)
LEMMA TimerOwn ==
  ASSUME Inv, OwnInv, TimerFires
  PROVE  OwnInv'
<1>1. /\ Dispatcher /\ Alone /\ OwnEntry /\ LeakInv
      /\ Past /\ UNCHANGED <<track, live, unclosed>>
  BY DEF Inv, OwnInv, TimerFires
<1>2. PICK r \in First("timer") : Dispatch(r)
  BY DEF TimerFires
<1>3. r \in Requests /\ bulk[r].state = "timer"
  BY <1>1, <1>2 DEF First, Dispatcher, Typed, Requests
<1> DEFINE k == bulk[r].kind
<1>4. PICK req : Moves(r, req) /\ req.state = "queued" /\ req.sent = batch[k][bulk[r].array]
  BY <1>1, <1>2, <1>3, DispatchMoves
<1>5. /\ Requests' = Requests
      /\ \A q \in Requests : bulk'[q] = IF q = r THEN req ELSE bulk[q]
      /\ req.kind = k
  BY <1>1, <1>3, <1>4, MovesKeeps DEF Dispatcher, Moves
<1>6. /\ k \in Kind /\ bulk[r].array \in Arrays(k)
      /\ \A j \in Kind : Len(batch'[j]) = Len(batch[j]) /\ Arrays(j)' = Arrays(j)
      /\ \A j \in Kind : \A b \in Arrays(j) :
           batch'[j][b] = IF j = k /\ b = bulk[r].array THEN <<>> ELSE batch[j][b]
  BY <1>1, <1>2, <1>3, DispatchEmpties, RequestType DEF Dispatcher, Bounded
<1>7. \A j \in Kind : /\ NeverOverflowed(j)' <=> NeverOverflowed(j)
                      /\ NeverOverflowed(j) => 1 \in Arrays(j)
                      /\ NeverOverflowed(j) /\ j = k => bulk[r].array = 1
  <2>1. \A j \in Kind : NeverOverflowed(j) => Arrays(j) = {1}
    BY DEF NeverOverflowed, Arrays
  <2>2. \A j \in Kind : NeverOverflowed(j)' <=> NeverOverflowed(j)
    BY <1>6 DEF NeverOverflowed
  <2>3. QED BY <1>6, <2>1, <2>2
<1>8. \A j \in Kind : NeverOverflowed(j) =>
        batch'[j][1] = IF j = k THEN <<>> ELSE batch[j][1]
  BY <1>6, <1>7
<1>9. \A j \in Kind : j /= k => response'[j] = response[j]
  BY <1>1, <1>2 DEF Dispatch, Dispatcher, Typed
<1>10. \A q \in Requests : bulk[q].kind = k /\ bulk[q].state = "timer" /\ NeverOverflowed(k) =>
         q = r /\ response[k] = r
  BY <1>1, <1>3, <1>6 DEF Alone
<1> HIDE DEF k
<1>11. Alone'
  <2>1. ASSUME NEW j \in Kind, NeverOverflowed(j)', NEW q \in Requests', bulk'[q].kind = j,
               bulk'[q].state = "timer"
        PROVE  response'[j] = q
    <3>1. q \in Requests /\ q /= r /\ bulk'[q] = bulk[q] /\ NeverOverflowed(j)
      BY <1>4, <1>5, <1>7, <2>1
    <3>2. j /= k
      BY <1>10, <2>1, <3>1
    <3>3. QED BY <1>1, <1>9, <2>1, <3>1, <3>2 DEF Alone
  <2>2. QED BY <2>1 DEF Alone
<1>12. OwnEntry'
  <2>1. ASSUME NEW x \in Track, Waits(x)', NeverOverflowed(KindOf(x))'
        PROVE  Entered(x, track[x].promise)'
    <3> DEFINE p == track[x].promise
    <3>1. /\ KindOf(x) \in Kind /\ NeverOverflowed(KindOf(x)) /\ Waits(x)
          /\ Entered(x, p) /\ p \in Requests /\ bulk[p].kind = KindOf(x)
      BY <1>1, <1>7, <2>1, PromiseKept DEF KindOf, Kind, OwnEntry, Waits
    <3>2. CASE p = r
      <4>1. k = KindOf(x) /\ bulk[r].array = 1
        BY <1>7, <3>1, <3>2 DEF k
      <4>2. x \in Range(bulk'[p].sent) /\ bulk'[p].state /= "timer"
        BY <1>3, <1>4, <1>5, <3>1, <3>2, <4>1 DEF Entered
      <4>3. QED BY <1>1, <4>2 DEF Entered
    <3>3. CASE p /= r
      <4>1. bulk'[p] = bulk[p]
        BY <1>5, <3>1, <3>3
      <4>2. bulk[p].state = "timer" => KindOf(x) /= k
        BY <1>10, <3>1, <3>3
      <4>3. bulk[p].state = "timer" => batch'[KindOf(x)][1] = batch[KindOf(x)][1]
        BY <1>8, <3>1, <4>2
      <4>4. QED BY <1>1, <3>1, <4>1, <4>3 DEF Entered, KindOf
    <3>4. QED BY <3>2, <3>3
  <2>2. QED BY <2>1 DEF OwnEntry, KindOf
<1>15. Past' /\ \A x : Mid(x)' = Mid(x)
  <2>1. \A q : Asked(q) => Asked(q)'
    BY <1>4, <1>5 DEF Asked
  <2>2. Len(bulk') = Len(bulk)
    BY <1>1, <1>3, <1>4, MovesKeeps DEF Dispatcher
  <2>3. QED BY <1>1, <2>1, <2>2 DEF Past, Asked, Unresolved, Mid, MidOf
<1>13. ASSUME Clean' PROVE Owned' /\ Accounted' /\ Remains'
  <2>1. Clean
    BY <1>3, <1>5, <1>7, <1>13 DEF Clean
  <2>2. Owned /\ Accounted /\ Remains /\ \A j \in Kind : NeverOverflowed(j)
    BY <1>1, <2>1 DEF LeakInv, Clean
  <2>3. bulk[r].array = 1 /\ response[k] = r /\ Range(batch'[k][1]) = {}
        /\ \A j \in Kind : j /= k => batch'[j][1] = batch[j][1]
    BY <1>3, <1>6, <1>7, <1>8, <1>10, <2>2 DEF Range, k
  <2>4. \A x : Waits(x)' <=> Waits(x)
    BY <1>1 DEF Waits
  <2>5. ASSUME NEW j \in Kind \ {"close"}, NEW x \in Range(batch'[j][1])
        PROVE  Waits(x)' /\ response'[j] /= NoRequest /\ track'[x].promise = response'[j]
    <3>1. j /= k
      BY <2>3, <2>5
    <3>2. QED BY <1>1, <1>9, <2>2, <2>3, <2>4, <2>5, <3>1 DEF Owned
  <2>6. ASSUME NEW q \in Requests', bulk'[q].kind /= "close", bulk'[q].state = "queued",
               NEW x \in Range(bulk'[q].sent)
        PROVE  Waits(x)' /\ track'[x].promise = q
    <3>1. CASE q = r
      <4>1. x \in Range(batch[k][1]) /\ k /= "close"
        BY <1>3, <1>4, <1>5, <2>3, <2>6, <3>1
      <4>2. QED BY <1>1, <1>6, <2>2, <2>3, <2>4, <3>1, <4>1 DEF Owned
    <3>2. CASE q /= r
      BY <1>1, <1>5, <2>2, <2>4, <2>6, <3>2 DEF Owned
    <3>3. QED BY <3>1, <3>2
  <2>7. ASSUME NEW x \in Track PROVE InClose(x)' <=> InClose(x)
    <3>1. CASE k = "close"
      <4>1. InClose(x)' => InClose(x)
        <5>1. ASSUME NEW q \in Requests', bulk'[q].kind = "close", bulk'[q].state = "queued",
                     x \in Range(bulk'[q].sent)
              PROVE  InClose(x)
          <6>1. CASE q = r
            BY <1>4, <1>5, <2>3, <3>1, <5>1, <6>1 DEF InClose
          <6>2. CASE q /= r
            BY <1>5, <5>1, <6>2 DEF InClose
          <6>3. QED BY <6>1, <6>2
        <5>2. QED BY <2>3, <3>1, <5>1 DEF InClose
      <4>2. InClose(x) => InClose(x)'
        BY <1>3, <1>4, <1>5, <2>3, <3>1 DEF InClose
      <4>3. QED BY <4>1, <4>2
    <3>2. CASE k /= "close"
      BY <1>3, <1>4, <1>5, <2>3, <3>2 DEF InClose, Kind, k
    <3>3. QED BY <3>1, <3>2
  <2>8. ASSUME NEW x \in Track PROVE Opened(x)' <=> Opened(x)
    <3>1. Waits(x) => track[x].promise \in Requests
      BY PromiseKept
    <3>2. \A q \in Requests : /\ bulk'[q].state = "done" <=> bulk[q].state = "done"
                              /\ bulk[q].state = "done" => bulk'[q] = bulk[q]
      BY <1>3, <1>4, <1>5
    <3>3. QED BY <1>1, <2>4, <3>1, <3>2 DEF Opened, Unresolved
  <2>11. Owned'
    BY <2>5, <2>6 DEF Owned
  <2>12. Accounted'
    BY <1>1, <1>15, <2>2, <2>7, <2>8 DEF Accounted
  <2>9. Owned' /\ Accounted' /\ Remains'
    BY <1>1, <1>15, <2>2, <2>11, <2>12 DEF Remains
  <2>10. QED BY <2>9
<1>14. QED BY <1>11, <1>12, <1>13, <1>15 DEF OwnInv, LeakInv

(* The end of a task: who waits for it is told, and what it was to close   *)
(* is closed.                                                              *)
LEMMA TaskOwn ==
  ASSUME Inv, OwnInv, NEW r \in Requests, bulk[r].state = "queued", NEW req, Moves(r, req),
         req.sent = bulk[r].sent, UNCHANGED <<batch, response, track, unclosed>>,
         \/ req.state = "failed"
         \/ /\ req.state = "done" /\ req.found \subseteq Range(bulk[r].sent)
            /\ bulk[r].kind = "close" => req.found = Range(bulk[r].sent)
            /\ SFU(r, req.found)
  PROVE  OwnInv'
<1>1. /\ Dispatcher /\ Alone /\ OwnEntry /\ Past /\ LeakInv
  BY DEF Inv, OwnInv
<1>2. /\ Requests' = Requests
      /\ \A q \in Requests : bulk'[q] = IF q = r THEN req ELSE bulk[q]
      /\ \A q \in Requests : bulk'[q].kind = bulk[q].kind /\ bulk'[q].sent = bulk[q].sent
      /\ \A q \in Requests : bulk'[q].state = "timer" <=> bulk[q].state = "timer"
  <2>1. /\ Requests' = Requests
        /\ \A q \in Requests : bulk'[q] = IF q = r THEN req ELSE bulk[q]
    BY <1>1, MovesKeeps DEF Dispatcher
  <2>2. req.kind = bulk[r].kind /\ req.sent = bulk[r].sent
        /\ (req.state = "timer" <=> bulk[r].state = "timer")
    BY DEF Moves
  <2>3. QED BY <2>1, <2>2
<1>3. \A j \in Kind : NeverOverflowed(j)' <=> NeverOverflowed(j)
  BY DEF NeverOverflowed
<1>4. Alone'
  BY <1>1, <1>2, <1>3 DEF Alone
<1>5. OwnEntry'
  <2>1. \A x \in Track : Waits(x) => track[x].promise \in Requests
    BY PromiseKept
  <2>2. QED BY <1>1, <1>2, <1>3, <2>1 DEF OwnEntry, Entered, Waits, NeverOverflowed
<1>8. Past' /\ \A x : Mid(x)' = Mid(x)
  <2>1. \A q : Asked(q) => Asked(q)'
    BY <1>2 DEF Asked
  <2>2. Len(bulk') = Len(bulk)
    BY <1>1, MovesKeeps DEF Dispatcher
  <2>3. QED BY <1>1, <2>1, <2>2 DEF Past, Asked, Unresolved, Mid, MidOf
<1>6. ASSUME Clean' PROVE Owned' /\ Accounted' /\ Remains'
  <2>1. Clean /\ req.state = "done"
    BY <1>2, <1>3, <1>6 DEF Clean
  <2>2. Owned /\ Accounted /\ Remains
    BY <1>1, <2>1 DEF LeakInv
  <2>3. \A x : Waits(x)' <=> Waits(x)
    BY DEF Waits
  <2>4. \A q \in Requests : bulk'[q].state = "queued" => q /= r /\ bulk'[q] = bulk[q]
    BY <1>2, <2>1
  <2>5. Owned'
    BY <1>2, <2>2, <2>3, <2>4 DEF Owned
  <2>6. \A x \in Track : Waits(x) => track[x].promise \in Requests
    BY PromiseKept
  <2>7. \A x : track[x].state = "found" \/ Unresolved(x) \/ Waits(x) => track[x].state /= "gone"
    BY DEF Waits, Unresolved
  <2>11. \A x : Unresolved(x)' <=> Unresolved(x)
    BY DEF Unresolved
  <2>8. CASE bulk[r].kind = "close"
    <3>1. live' = live \ {Mid(x) : x \in Range(bulk[r].sent)}
      BY <2>1, <2>8 DEF SFU
    <3>2. \A x \in Track : x \in Range(bulk[r].sent) => InClose(x)
      BY <2>8 DEF InClose
    <3>3. \A x \in Track : InClose(x)' => InClose(x)
      BY <1>2, <2>4 DEF InClose
    <3>4. \A x \in Track : InClose(x) => InClose(x)' \/ x \in Range(bulk[r].sent)
      BY <1>2 DEF InClose
    <3>5. \A x \in Track : Waits(x) => bulk[track[x].promise].kind /= "close"
      BY PromiseKept DEF KindOf
    <3>6. \A x \in Track : Opened(x)' <=> Opened(x)
      BY <1>2, <2>3, <2>6, <2>8, <2>11, <3>5 DEF Opened
    <3>7. \A x \in Track : Opened(x) => ~ InClose(x)
      BY <2>2, <2>7 DEF Accounted, Opened
    <3>10. /\ \A x \in Track : Mid(x) \in live' <=>
                                Mid(x) \in live /\ x \notin Range(bulk[r].sent)
      BY <3>1, MidsApart
    <3>11. Range(bulk[r].sent) \subseteq Track
      BY RequestType, <1>1 DEF Dispatcher, Request, Range
    <3>8. Accounted'
      BY <1>8, <2>2, <3>2, <3>3, <3>4, <3>6, <3>7, <3>10 DEF Accounted
    <3>12. \A x \in Range(bulk[r].sent) : Mid(x) \notin unclosed
      BY <2>2, <3>2, <3>11 DEF Accounted
    <3>13. Remains'
      BY <1>8, <2>2, <3>1, <3>12 DEF Remains
    <3>9. QED BY <2>5, <3>8, <3>13
  <2>9. CASE bulk[r].kind /= "close"
    <3>7. \A x \in req.found : x \in Track
      BY RequestType, <1>1, <2>1 DEF Dispatcher, Request, Range
    <3>2. \A x \in Track : InClose(x)' <=> InClose(x)
      BY <1>2, <2>4, <2>9 DEF InClose
    <3>3. \A x \in req.found : Waits(x) /\ track[x].promise = r
      BY <2>1, <2>2, <2>9 DEF Owned
    <3>1. live' = live \cup {Mid(x) : x \in req.found}
      <4>1. \A x \in req.found : MidOf(x, r) = Mid(x)
        BY <3>3 DEF Mid
      <4>2. QED BY <2>1, <2>9, <4>1 DEF SFU
    <3>4. \A x \in Track : Opened(x)' <=> Opened(x) \/ x \in req.found
      <4>1. \A x \in Track : x \in req.found => Opened(x)'
        BY <1>2, <2>1, <2>3, <2>11, <3>3 DEF Opened
      <4>2. \A x \in Track : Opened(x) => Opened(x)'
        BY <1>2, <2>3, <2>6, <2>11 DEF Opened
      <4>3. \A x \in Track : Opened(x)' => Opened(x) \/ x \in req.found
        BY <1>2, <2>3, <2>6, <2>11 DEF Opened
      <4>4. QED BY <4>1, <4>2, <4>3
    <3>8. \A x \in Track : Mid(x) \in live' <=> Mid(x) \in live \/ x \in req.found
      BY <3>1, MidsApart
    <3>5. Accounted'
      BY <1>8, <2>2, <3>2, <3>4, <3>8 DEF Accounted
    <3>9. Remains'
      BY <1>8, <2>2, <3>1, <3>7 DEF Remains
    <3>6. QED BY <2>5, <3>5, <3>9
  <2>10. QED BY <2>8, <2>9
<1>7. QED BY <1>4, <1>5, <1>6, <1>8 DEF OwnInv, LeakInv

(* At first there are no entries, no requests and no tracks. *)
LEMMA InitOwn == Init => OwnInv
<1> SUFFICES ASSUME Init PROVE OwnInv
  OBVIOUS
<1>1. Requests = {} /\ \A k \in Kind : Range(batch[k][1]) = {}
  BY DEF Init, Requests, Range
<1>2. Alone /\ OwnEntry
  BY <1>1 DEF Init, Alone, OwnEntry, Waits
<1>3. Owned /\ Accounted
  BY <1>1 DEF Init, Owned, Accounted, InClose, Opened, Waits, Unresolved, Kind
<1>5. Past /\ Remains
  BY <1>1 DEF Init, Past, Remains, Unresolved
<1>4. QED BY <1>2, <1>3, <1>5 DEF OwnInv, LeakInv

(* Every step keeps this part of the invariant, too. *)
LEMMA NextOwn == Inv /\ OwnInv /\ [Next]_vars => OwnInv'
<1> SUFFICES ASSUME Inv, OwnInv, [Next]_vars PROVE OwnInv'
  OBVIOUS
<1>1. ASSUME NEW t \in Track, Subscribe(t) \/ Retry(t) PROVE OwnInv'
  BY <1>1, AskOwn DEF Subscribe, Retry
<1>2. ASSUME NEW t \in Track, Unsubscribe(t) PROVE OwnInv'
  BY <1>2, UnsubscribeOwn
<1>3. ASSUME NEW t \in Track, Answer(t) PROVE OwnInv'
  BY <1>3, AnswerOwn
<1>4. CASE TimerFires
  BY <1>4, TimerOwn
<1>11. ASSUME NEW t \in Pulled, TrackComes(t) \/ GivesUp(t) PROVE OwnInv'
  BY <1>11, ResolvedOwn
<1>12. CASE Connection
  BY <1>12 DEF Connection, OwnInv, Alone, OwnEntry, Entered, Past, Asked, LeakInv, Clean, Owned,
               Accounted, Remains, InClose, Opened, Unresolved, Waits, NeverOverflowed, Requests,
               KindOf, Mid, MidOf
<1>5. ASSUME NEW r \in First("queued") PROVE r \in Requests /\ bulk[r].state = "queued" /\ bulk[r] \in Request
  <2>1. r \in Requests /\ bulk[r].state = "queued"
    BY DEF First, Inv, Dispatcher, Typed, Requests
  <2>2. QED BY <2>1, RequestType DEF Inv, Dispatcher
<1>6. ASSUME NEW r \in First("queued"), NEW req \in Request, bulk' = [bulk EXCEPT ![r] = req],
             req.kind = bulk[r].kind, req.array = bulk[r].array, req.sent = bulk[r].sent,
             req.state /= "timer"
      PROVE  Moves(r, req)
  BY <1>5, <1>6 DEF Moves, Inv, Dispatcher, WithinLimit, Requests
<1>7. CASE TaskResolves
  <2>1. PICK r \in First("queued") : \E found \in SUBSET Range(bulk[r].sent) :
           /\ bulk[r].kind = "close" => found = Range(bulk[r].sent)
           /\ SFU(r, found)
           /\ bulk' = [bulk EXCEPT ![r].state = "done", ![r].found = found]
    BY <1>7 DEF TaskResolves
  <2>2. PICK found \in SUBSET Range(bulk[r].sent) :
           /\ bulk[r].kind = "close" => found = Range(bulk[r].sent)
           /\ SFU(r, found)
           /\ bulk' = [bulk EXCEPT ![r].state = "done", ![r].found = found]
    BY <2>1
  <2> DEFINE req == [bulk[r] EXCEPT !.state = "done", !.found = found]
  <2>3. found \subseteq Track
    BY <1>5 DEF Range, Request
  <2>4. /\ req \in Request /\ req.kind = bulk[r].kind /\ req.array = bulk[r].array
        /\ req.state = "done" /\ req.sent = bulk[r].sent /\ req.found = found
    BY <1>5, <2>3 DEF Request
  <2>5. bulk' = [bulk EXCEPT ![r] = req]
    BY <2>2
  <2> HIDE DEF req
  <2>6. UNCHANGED <<batch, response, track, unclosed>>
    BY <1>7 DEF TaskResolves
  <2>7. Moves(r, req)
    BY <1>6, <2>4, <2>5
  <2>8. QED BY <1>5, <2>2, <2>4, <2>6, <2>7, TaskOwn
<1>8. CASE TaskThrows
  <2>1. PICK r \in First("queued") : bulk' = [bulk EXCEPT ![r].state = "failed"]
    BY <1>8 DEF TaskThrows
  <2> DEFINE req == [bulk[r] EXCEPT !.state = "failed"]
  <2>2. /\ req \in Request /\ req.kind = bulk[r].kind /\ req.array = bulk[r].array
        /\ req.state = "failed" /\ req.sent = bulk[r].sent
    BY <1>5 DEF Request
  <2>3. bulk' = [bulk EXCEPT ![r] = req]
    BY <2>1
  <2> HIDE DEF req
  <2>4. UNCHANGED <<batch, response, track, unclosed>>
    BY <1>8 DEF TaskThrows
  <2>5. Moves(r, req)
    BY <1>6, <2>2, <2>3
  <2>6. QED BY <1>5, <2>2, <2>4, <2>5, TaskOwn
<1>9. CASE UNCHANGED vars
  BY <1>9 DEF vars, OwnInv, Alone, OwnEntry, Entered, Past, Asked, LeakInv, Clean, Owned,
              Accounted, Remains, InClose, Opened, Unresolved, Waits, NeverOverflowed, Requests,
              KindOf, Mid, MidOf
<1>10. QED BY <1>1, <1>2, <1>3, <1>4, <1>7, <1>8, <1>9, <1>11, <1>12 DEF Next

-----------------------------------------------------------------------------
(***************************************************************************)
(* Theorems.                                                               *)
(***************************************************************************)

(* Dispatchers, subscriptions and the pairing of entries and responses.    *)
THEOREM Invariance == Spec => []Inv
BY InitInv, NextInv, PTL DEF Spec

(* The types of the dispatchers' arrays, requests and subscriptions.       *)
THEOREM TypeCorrect == Spec => []TypeOK
<1>1. Inv => TypeOK
  BY DEF Inv, Dispatcher, Typed, Subscriptions, TypeOK, TrackState
<1>2. QED BY <1>1, Invariance, PTL

(* Every entry that is in an array of doBulkRequest() has a timer that     *)
(* will take it.                                                           *)
THEOREM NothingIsStranded == Spec => []NothingStranded
<1>1. Inv => NothingStranded
  BY DEF Inv, Dispatcher
<1>2. QED BY <1>1, Invariance, PTL

(* No bulk request is longer than batchSizeLimit.                          *)
THEOREM RequestsAreWithinLimit == Spec => []WithinLimit
<1>1. Inv => WithinLimit
  BY DEF Inv, Dispatcher
<1>2. QED BY <1>1, Invariance, PTL

(* The entry of a caller has gone to the SFU by the time that the bulk     *)
(* request that the caller awaits has.                                     *)
THEOREM EntriesAreSentByThen == Spec => []SentByThen
<1>1. Inv => SentByThen
  BY DEF Inv, Owed, Awaits, Sent, Kept, SentByThen
<1>2. QED BY <1>1, Invariance, PTL

(* What is true of dispatchers that never overflowed. *)
LEMMA OwnInvariance == Spec => []OwnInv
BY InitOwn, NextOwn, Invariance, PTL DEF Spec

(* The response that doBulkRequest() gives a caller is that of the bulk    *)
(* request with its entry, as long as no array of the dispatcher has       *)
(* overflowed.                                                             *)
THEOREM ResponsesAreOnesOwn == Spec => []OwnRequest
<1>1. OwnInv => OwnRequest
  BY DEF OwnInv, OwnEntry, Entered, Waits, OwnRequest
<1>2. QED BY <1>1, OwnInvariance, PTL

(* When everything is answered and neither tasks threw nor arrays          *)
(* overflowed, the SFU has open what subscribers have or wait to see, and  *)
(* of the rest only what was left while the connection was not up or given *)
(* up when its transceiver was late: no order of unsubscriptions, answers, *)
(* retries and timers leaves another track open, or closes one that        *)
(* somebody has.                                                           *)
THEOREM NothingLeaks == Spec => []NoLeak
<1>1. Inv /\ OwnInv => NoLeak
  <2> DEFINE held == {Mid(t) : t \in {x \in Track : track[x].state = "found" \/ Unresolved(x)}}
  <2> SUFFICES ASSUME Inv, OwnInv, MicrotasksDone, (\A r \in DOMAIN bulk : bulk[r].state = "done"),
                      (\A k \in Kind : NeverOverflowed(k))
               PROVE  unclosed \subseteq live /\ live \ unclosed = held
    BY DEF NoLeak
  <2> HIDE DEF held
  <2>1. \A r \in Requests : r \in DOMAIN bulk /\ bulk[r].state = "done"
    BY DEF Inv, Dispatcher, Typed, Requests
  <2>2. Accounted /\ Remains
    BY <2>1 DEF OwnInv, LeakInv, Clean
  <2>3. \A t \in Track : ~ Waits(t)
    BY <2>1, PromiseKept DEF MicrotasksDone, Handled, Settled, Waits
  <2>4. ASSUME NEW t \in Track PROVE ~ InClose(t)
    <3>1. "close" \in Kind /\ 1 \in Arrays("close")
      <4>1. "close" \in Kind
        BY DEF Kind
      <4>2. Len(batch["close"]) = 1
        BY <4>1 DEF NeverOverflowed
      <4>3. QED BY <4>1, <4>2 DEF Arrays
    <3>2. batch["close"][1] = <<>>
      BY <2>1, <3>1 DEF Inv, Dispatcher, NothingStranded, Arrays, Requests
    <3>3. t \notin Range(batch["close"][1])
      BY <3>2 DEF Range
    <3>4. QED BY <2>1, <3>3 DEF InClose
  <2>5. \A t \in Track : Opened(t) <=> track[t].state = "found" \/ Unresolved(t)
    BY <2>3 DEF Opened
  <2>6. \A t \in Track : Opened(t) => Mid(t) \in live /\ Mid(t) \notin unclosed
    BY <2>2, <2>5 DEF Accounted, Unresolved
  <2>7. held \subseteq live \ unclosed
    BY <2>5, <2>6 DEF held
  <2>8. live \ unclosed \subseteq held
    BY <2>2, <2>4, <2>5 DEF Accounted, Remains, held
  <2>9. QED BY <2>2, <2>7, <2>8 DEF Remains
<1>2. QED BY <1>1, Invariance, OwnInvariance, PTL
=============================================================================
