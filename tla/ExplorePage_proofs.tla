------------------------- MODULE ExplorePage_proofs -------------------------
(***************************************************************************)
(* What is proved about the pages of `kcp ui' that fetch costs and         *)
(* metrics, for any regions, clusters, costs, metrics, periods and ranges  *)
(* of dates, and any number of uploads and requests: a settled page shows  *)
(* its own target, values transferred to the TCO inputs are the cluster's  *)
(* own, and the totals of the costs are the sums of what was returned.     *)
(***************************************************************************)
EXTENDS ExplorePage, SequenceTheorems, FiniteSetTheorems, WellFoundedInduction, TLAPS

Fetching == {"summary", "region", "cluster"}

\* A version that has the target.
Served(version, kind, of) == version \in Versions /\ Has(version, kind, of)

\* A record with the fields of a request, or of an answer.
IsRequest(r) == r = [id |-> r.id, kind |-> r.kind, of |-> r.of, dates |-> r.dates, answer |-> r.answer]

IsResponse(r) == r = [kind |-> r.kind, of |-> r.of, version |-> r.version, dates |-> r.dates]

\* What can be mounted.
IsComponent(s) ==
    \/ s = Nothing
    \/ /\ s = [kind |-> s.kind, of |-> s.of, version |-> s.version]
       /\ s.kind \in Fetching \cup {"modal"} /\ Key(s) \in Keys
       /\ s.kind = "modal" => s.of \in Clusters /\ s.version \in Versions

\* The component on the screen.
ShownInv == IsComponent(shown) /\ dates = [k \in Keys |-> dates[k]]

\* The versions: the page's is older than one that is being uploaded.
VersionInv ==
    /\ upload = [version |-> upload.version, phase |-> upload.phase]
    /\ page \in Nat /\ server \in Nat /\ upload.version \in Nat
    /\ {page, server, upload.version} \subseteq {0} \cup Versions
    /\ page <= upload.version
    /\ upload.phase # "idle" => page < upload.version

\* The requests under way are numbered and are the mounted component's.
RequestInv ==
    /\ sent \in Nat /\ applied \in 0..sent
    /\ \A r \in requests :
          /\ IsRequest(r) /\ r.id \in 1..sent /\ r.kind = shown.kind
          /\ r.answer \in {Pending, Failure} \/ Served(r.answer, r.kind, r.of)
    /\ response = NoResponse \/
          (IsResponse(response) /\ response.kind = shown.kind /\ Served(response.version, response.kind, response.of))
    /\ IF shown = Nothing THEN requests = {} ELSE asked = Dependencies(shown, dates)

\* A modal's requests and answers are about its cluster.
ModalInv ==
    shown.kind = "modal" =>
        /\ dates["modal"] \in Ranges
        /\ \A r \in requests : r.of = shown.of /\ r.dates \in Ranges
        /\ response # NoResponse => response.of = shown.of /\ response.dates \in Ranges

\* The request sent last is for what the page is to show, and its answer is
\* from the page's version for as long as the server has that version.
LastInv ==
    shown.kind \in Fetching =>
        /\ page # 0 /\ sent # 0
        /\ shown.kind = "summary" => shown.version = page
        /\ \A r \in requests : r.id = sent =>
              /\ r.of = shown.of /\ r.dates = dates[shown.of]
              /\ r.answer \notin {Pending, Failure} => r.answer = page \/ server # page
        /\ applied = sent /\ ~failed =>
              /\ IsResponse(response) /\ response.kind = shown.kind
              /\ response.of = shown.of /\ response.dates = dates[shown.of]
              /\ response.version = page \/ server # page

PageInv == ShownInv /\ VersionInv /\ RequestInv /\ ModalInv /\ LastInv

-----------------------------------------------------------------------------
(* What the effects of a rendered component do.                            *)

\* Two requests sent one after the other.
LEMMA OneAfterAnother ==
  ASSUME NEW S, NEW s \in Seq(S), NEW t \in Seq(S), Len(s) = 1, Len(t) = 1
  PROVE  s \o t \in Seq(S) /\ Len(s \o t) = 2 /\ (s \o t)[2] = t[1]
<1> DEFINE both == s \o t
<1>1. both \in Seq(S) /\ Len(both) = Len(s) + Len(t)
  BY ConcatProperties, Zenon
<1>2. \A i \in 1..(Len(s) + Len(t)) : both[i] = IF i <= Len(s) THEN s[i] ELSE t[i - Len(s)]
  BY ConcatProperties, Zenon
<1> HIDE DEF both
<1>3. Len(both) = 2 /\ both[2] = t[1]
  BY <1>1, <1>2
<1>4. QED
  BY <1>1, <1>3 DEF both

\* The dates an effect fills in are those of the component's own key.
LEMMA DatesFilled ==
  ASSUME NEW s, NEW d, NEW r, d = [k \in Keys |-> d[k]], s # Nothing => Key(s) \in Keys
  PROVE  /\ useDateFilters(s, d, r) = [k \in Keys |-> useDateFilters(s, d, r)[k]]
         /\ \A k \in Keys : k # Key(s) => useDateFilters(s, d, r)[k] = d[k]
         /\ useDateFilters(s, d, r)[Key(s)] \in {d[Key(s)], Metadata(IF s.kind = "modal" THEN s ELSE r)}
<1> DEFINE period == Metadata(IF s.kind = "modal" THEN s ELSE r)
<1> HIDE DEF period
<1>1. useDateFilters(s, d, r) = IF s # Nothing /\ d[Key(s)] = AllDates THEN [d EXCEPT ![Key(s)] = period] ELSE d
  BY Zenon DEF useDateFilters, period
<1>2. CASE s # Nothing /\ d[Key(s)] = AllDates
  <2>1. useDateFilters(s, d, r) = [d EXCEPT ![Key(s)] = period] /\ Key(s) \in Keys
    BY <1>1, <1>2
  <2>2. QED
    BY <2>1 DEF period
<1>3. CASE ~(s # Nothing /\ d[Key(s)] = AllDates)
  BY <1>1, <1>3
<1>4. QED
  BY <1>2, <1>3

\* The requests a render sends are the component's, numbered on, and the
\* last one is for the dates on the screen; when it sends none, everything
\* is as it was asked for before.
LEMMA Rendered ==
  ASSUME NEW s, NEW d, NEW r, NEW pending, NEW before, NEW n \in Nat, NEW error,
         Render(s, d, r, pending, before, n, error),
         d = [k \in Keys |-> d[k]], s # Nothing => Key(s) \in Keys
  PROVE  /\ shown' = s /\ response' = r
         /\ dates' = [k \in Keys |-> dates'[k]]
         /\ \A k \in Keys : k # Key(s) => dates'[k] = d[k]
         /\ dates'[Key(s)] \in {d[Key(s)], Metadata(IF s.kind = "modal" THEN s ELSE r)}
         /\ sent' \in Nat /\ sent' >= n
         /\ s # Nothing => asked' = Dependencies(s, dates')
         /\ pending \subseteq requests'
         /\ \A q \in requests' \ pending :
               /\ IsRequest(q) /\ q.id \in (n + 1)..sent' /\ q.kind = s.kind /\ q.of = s.of /\ q.answer = Pending
               /\ q.dates \in {d[Key(s)], dates'[Key(s)]}
               /\ q.id = sent' => q.dates = dates'[Key(s)]
         /\ s = Nothing => requests' = pending /\ sent' = n
         /\ s # Nothing /\ sent' = n =>
               Dependencies(s, d) = before /\ Dependencies(s, dates') = before /\ (failed' <=> error)
<1> DEFINE filled == useDateFilters(s, d, r)
           first == Dependencies(s, d)
           second == Dependencies(s, filled)
           new == IF s = Nothing THEN <<>>
                  ELSE (IF first # before THEN <<first>> ELSE <<>>) \o (IF second # first THEN <<second>> ELSE <<>>)
           request(i) == [id |-> n + i, kind |-> s.kind, of |-> s.of, dates |-> new[i].dates, answer |-> Pending]
<1>1. /\ shown' = s /\ dates' = filled /\ response' = r
      /\ requests' = pending \cup {request(i) : i \in DOMAIN new}
      /\ asked' = (IF s = Nothing THEN NoParameters ELSE second) /\ sent' = n + Len(new)
      /\ failed' = (error /\ new = <<>>)
  BY Zenon DEF Render
<1>2. /\ filled = [k \in Keys |-> filled[k]]
      /\ \A k \in Keys : k # Key(s) => filled[k] = d[k]
      /\ filled[Key(s)] \in {d[Key(s)], Metadata(IF s.kind = "modal" THEN s ELSE r)}
  BY DatesFilled
<1>3. first.dates = d[Key(s)] /\ second.dates = filled[Key(s)]
  BY DEF Dependencies
<1> HIDE DEF filled, first, second
<1>4. /\ Len(new) \in Nat /\ DOMAIN new = 1..Len(new)
      /\ \A i \in DOMAIN new : new[i] \in {first, second}
      /\ new # <<>> => new[Len(new)] = second
      /\ s = Nothing => new = <<>>
      /\ s # Nothing /\ Len(new) = 0 => first = before /\ second = before
      /\ Len(new) = 0 <=> new = <<>>
  <2>1. CASE s = Nothing
    BY <2>1
  <2>2. CASE s # Nothing /\ first # before /\ second # first
    <3>1. PICK a, b : a = <<first>> /\ b = <<second>>
      OBVIOUS
    <3>2. /\ a \in Seq({first, second}) /\ Len(a) = 1 /\ a[1] = first
          /\ b \in Seq({first, second}) /\ Len(b) = 1 /\ b[1] = second
      BY <3>1
    <3>3. new = a \o b
      BY <2>2, <3>1
    <3>4. new \in Seq({first, second}) /\ Len(new) = 2 /\ new[2] = second
      BY <3>2, <3>3, OneAfterAnother
    <3>5. QED
      BY <2>2, <3>4
  <2>3. CASE s # Nothing /\ first # before /\ second = first
    <3>1. new = <<first>>
      BY <2>3
    <3>2. QED
      BY <2>3, <3>1
  <2>4. CASE s # Nothing /\ first = before /\ second # first
    <3>1. new = <<second>>
      BY <2>4
    <3>2. QED
      BY <2>4, <3>1
  <2>5. CASE s # Nothing /\ first = before /\ second = first
    <3>1. new = <<>>
      BY <2>5
    <3>2. QED
      BY <2>5, <3>1
  <2>6. QED
    BY <2>1, <2>2, <2>3, <2>4, <2>5
<1> HIDE DEF new
<1>5. \A q \in requests' \ pending :
         /\ IsRequest(q) /\ q.id \in (n + 1)..sent' /\ q.kind = s.kind /\ q.of = s.of /\ q.answer = Pending
         /\ q.dates \in {d[Key(s)], dates'[Key(s)]}
         /\ q.id = sent' => q.dates = dates'[Key(s)]
  <2> SUFFICES ASSUME NEW q \in requests' \ pending
               PROVE  /\ IsRequest(q) /\ q.id \in (n + 1)..sent' /\ q.kind = s.kind /\ q.of = s.of
                      /\ q.answer = Pending /\ q.dates \in {d[Key(s)], dates'[Key(s)]}
                      /\ q.id = sent' => q.dates = dates'[Key(s)]
    OBVIOUS
  <2>1. PICK i \in DOMAIN new : q = request(i)
    BY <1>1
  <2>2. i \in 1..Len(new) /\ Len(new) \in Nat /\ i \in Nat /\ sent' = n + Len(new)
    BY <1>1, <1>4
  <2>3. q.id = n + i /\ q.kind = s.kind /\ q.of = s.of /\ q.answer = Pending /\ q.dates = new[i].dates /\ IsRequest(q)
    BY <2>1 DEF IsRequest
  <2>4. q.dates \in {d[Key(s)], dates'[Key(s)]}
    BY <2>3, <1>4, <1>3, <1>1
  <2>5. q.id = sent' => q.dates = dates'[Key(s)]
    <3>1. q.id = sent' => i = Len(new) /\ new # <<>>
      BY <2>2, <2>3, <1>4
    <3>2. QED
      BY <3>1, <2>3, <1>4, <1>3, <1>1
  <2>6. q.id \in (n + 1)..sent'
    BY <2>2, <2>3
  <2>7. QED
    BY <2>3, <2>4, <2>5, <2>6
<1>6. s = Nothing => requests' = pending /\ sent' = n
  <2>1. s = Nothing => DOMAIN new = {} /\ Len(new) = 0
    BY <1>4
  <2>2. QED
    BY <2>1, <1>1, <1>4
<1>7. s # Nothing /\ sent' = n => Dependencies(s, d) = before /\ Dependencies(s, dates') = before /\ (failed' <=> error)
  <2> SUFFICES ASSUME s # Nothing, sent' = n
               PROVE  Dependencies(s, d) = before /\ Dependencies(s, dates') = before /\ (failed' <=> error)
    OBVIOUS
  <2>1. Len(new) = 0 /\ new = <<>>
    BY <1>1, <1>4
  <2>2. first = before /\ second = before
    BY <2>1, <1>4
  <2>3. failed' = (error /\ TRUE)
    BY <1>1, <2>1
  <2>4. Dependencies(s, dates') = before /\ Dependencies(s, d) = before
    BY <2>2, <1>1 DEF first, second
  <2>5. QED
    BY <2>3, <2>4
<1>8. s # Nothing => asked' = Dependencies(s, dates')
  BY <1>1 DEF second
<1>9. sent' \in Nat /\ sent' >= n
  BY <1>1, <1>4
<1>10. QED
  BY <1>1, <1>2, <1>5, <1>6, <1>7, <1>8, <1>9

-----------------------------------------------------------------------------
(* The pages' invariant.                                                   *)

\* Facts about the constants of the model.
LEMMA Kinds ==
  /\ Nothing.kind = "nothing" /\ "nothing" \notin Fetching \cup {"modal"}
  /\ NoResponse.kind = "nothing" /\ NoParameters.kind = "nothing"
  /\ \A s : s.kind \in Fetching => Key(s) = s.of
  /\ \A s : s.kind = "modal" => Key(s) = "modal"
  /\ "modal" \in Keys /\ Pending = -1 /\ Failure = 0
BY DEF Nothing, NoResponse, NoParameters, Fetching, Key, Keys, Pending, Failure

\* A modal's period is one of the ranges.
LEMMA ModalPeriod ==
  ASSUME NEW s, s.kind = "modal", s.of \in Clusters, s.version \in Versions
  PROVE  Metadata(s) \in Ranges
<1>1. Metadata(s) = Periods[s.version][s.of]
  BY DEF Metadata
<1>2. QED
  BY <1>1 DEF Ranges

LEMMA PageAtFirst == Init => PageInv
<1> SUFFICES ASSUME Init PROVE PageInv
  OBVIOUS
<1>1. ShownInv
  <2>1. shown = Nothing /\ dates = [k \in Keys |-> AllDates]
    BY DEF Init
  <2>2. QED
    BY <2>1 DEF ShownInv, IsComponent
<1>2. VersionInv
  BY DEF Init, VersionInv
<1>3. RequestInv
  BY DEF Init, RequestInv
<1>4. ModalInv /\ LastInv
  BY Kinds DEF Init, ModalInv, LastInv
<1>5. QED
  BY <1>1, <1>2, <1>3, <1>4 DEF PageInv

\* A component that is mounted asks for what it shows and waits.
LEMMA Mounted ==
  ASSUME dates = [k \in Keys |-> dates[k]], NEW s, IsComponent(s), Mount(s, dates),
         s.kind \in Fetching => page' # 0, s.kind = "summary" => s.version = page'
  PROVE  ShownInv' /\ RequestInv' /\ ModalInv' /\ LastInv'
<1> DEFINE d == [dates EXCEPT !["modal"] = AllDates]
<1>1. applied' = 0 /\ \E error : Render(s, d, NoResponse, {}, NoParameters, 0, error)
  BY Zenon DEF Mount
<1>2. d = [k \in Keys |-> d[k]] /\ d["modal"] = AllDates
  BY Kinds
<1> HIDE DEF d
<1>3. s # Nothing => Key(s) \in Keys
  BY DEF IsComponent
<1>4. /\ shown' = s /\ response' = NoResponse
      /\ dates' = [k \in Keys |-> dates'[k]]
      /\ dates'[Key(s)] \in {d[Key(s)], Metadata(IF s.kind = "modal" THEN s ELSE NoResponse)}
      /\ sent' \in Nat
      /\ s # Nothing => asked' = Dependencies(s, dates')
      /\ \A q \in requests' :
            /\ IsRequest(q) /\ q.id \in 1..sent' /\ q.kind = s.kind /\ q.of = s.of /\ q.answer = Pending
            /\ q.dates \in {d[Key(s)], dates'[Key(s)]}
            /\ q.id = sent' => q.dates = dates'[Key(s)]
      /\ s = Nothing => requests' = {} /\ sent' = 0
      /\ s # Nothing /\ sent' = 0 => Dependencies(s, d) = NoParameters
  <2> PICK error : Render(s, d, NoResponse, {}, NoParameters, 0, error)
    BY <1>1
  <2>1. /\ shown' = s /\ response' = NoResponse
        /\ dates' = [k \in Keys |-> dates'[k]]
        /\ \A k \in Keys : k # Key(s) => dates'[k] = d[k]
        /\ dates'[Key(s)] \in {d[Key(s)], Metadata(IF s.kind = "modal" THEN s ELSE NoResponse)}
        /\ sent' \in Nat /\ sent' >= 0
        /\ s # Nothing => asked' = Dependencies(s, dates')
        /\ {} \subseteq requests'
        /\ \A q \in requests' \ {} :
              /\ IsRequest(q) /\ q.id \in (0 + 1)..sent' /\ q.kind = s.kind /\ q.of = s.of /\ q.answer = Pending
              /\ q.dates \in {d[Key(s)], dates'[Key(s)]}
              /\ q.id = sent' => q.dates = dates'[Key(s)]
        /\ s = Nothing => requests' = {} /\ sent' = 0
        /\ s # Nothing /\ sent' = 0 =>
              Dependencies(s, d) = NoParameters /\ Dependencies(s, dates') = NoParameters /\ (failed' <=> error)
    <3>1. 0 \in Nat
      OBVIOUS
    <3>2. QED
      BY <1>2, <1>3, <3>1, Rendered, Zenon
  <2>2. QED
    BY <2>1
<1>5. s # Nothing => sent' # 0
  <2>1. s # Nothing => Dependencies(s, d).kind # "nothing"
    BY Kinds DEF IsComponent, Dependencies
  <2>2. QED
    BY <1>4, <2>1, Kinds
<1>6. ShownInv'
  BY <1>4 DEF ShownInv
<1>7. RequestInv'
  BY <1>1, <1>4 DEF RequestInv
<1>8. ModalInv'
  <2> SUFFICES ASSUME s.kind = "modal"
               PROVE  /\ dates'["modal"] \in Ranges
                      /\ \A q \in requests' : q.of = s.of /\ q.dates \in Ranges
    BY <1>4 DEF ModalInv
  <2>1. s.of \in Clusters /\ s.version \in Versions /\ Key(s) = "modal"
    BY Kinds DEF IsComponent
  <2>2. Metadata(s) \in Ranges /\ AllDates \in Ranges
    BY <2>1, ModalPeriod DEF Ranges
  <2>3. QED
    BY <1>2, <1>4, <2>1, <2>2
<1>9. LastInv'
  <2> SUFFICES ASSUME s.kind \in Fetching
               PROVE  /\ page' # 0 /\ sent' # 0 /\ applied' # sent'
                      /\ s.kind = "summary" => s.version = page'
                      /\ \A q \in requests' : q.id = sent' =>
                            q.of = s.of /\ q.dates = dates'[s.of] /\ q.answer = Pending
    BY <1>4 DEF LastInv
  <2>1. s # Nothing /\ Key(s) = s.of
    BY Kinds
  <2>2. QED
    BY <1>1, <1>4, <1>5, <2>1
<1>10. QED
  BY <1>6, <1>7, <1>8, <1>9

\* An answer, on the screen or to come, is the component's own.
OwnResponse(s, r) ==
    \/ r = NoResponse
    \/ /\ IsResponse(r) /\ r.kind = s.kind /\ Served(r.version, r.kind, r.of)
       /\ s.kind = "modal" => r.of = s.of /\ r.dates \in Ranges

\* The answer is that to what the component asks for with these dates.
Current(s, d, r, version) ==
    /\ IsResponse(r) /\ r.kind = s.kind /\ r.of = s.of /\ r.dates = d[s.of]
    /\ r.version = version \/ server # version

\* A component that stays mounted asks for what is new and keeps the rest.
LEMMA Remaining ==
  ASSUME PageInv, shown # Nothing, NEW s, IsComponent(s), s # Nothing, s.kind = shown.kind,
         s.kind = "modal" => s = shown,
         NEW d, d = [k \in Keys |-> d[k]], s.kind = "modal" => d["modal"] \in Ranges,
         NEW r, OwnResponse(s, r), NEW pending, pending \subseteq requests, NEW before, before \in {asked, NoParameters},
         Render(s, d, r, pending, before, sent, failed), applied' \in 0..sent, server' = server,
         s.kind \in Fetching => page' # 0, s.kind = "summary" => s.version = page',
         page' = page \/ s.kind = "summary",
         Dependencies(s, d) = asked /\ page' = page /\ applied' = sent /\ ~failed /\ s.kind \in Fetching
            => Current(s, d, r, page)
  PROVE  ShownInv' /\ RequestInv' /\ ModalInv' /\ LastInv'
<1>1. /\ sent \in Nat /\ applied \in 0..sent /\ asked = Dependencies(shown, dates)
      /\ \A q \in requests :
            /\ IsRequest(q) /\ q.id \in 1..sent /\ q.kind = shown.kind
            /\ q.answer \in {Pending, Failure} \/ Served(q.answer, q.kind, q.of)
  BY DEF PageInv, RequestInv
<1>2. Key(s) \in Keys
  BY DEF IsComponent
<1>3. /\ shown' = s /\ response' = r
      /\ dates' = [k \in Keys |-> dates'[k]]
      /\ \A k \in Keys : k # Key(s) => dates'[k] = d[k]
      /\ dates'[Key(s)] \in {d[Key(s)], Metadata(IF s.kind = "modal" THEN s ELSE r)}
      /\ sent' \in Nat /\ sent' >= sent
      /\ s # Nothing => asked' = Dependencies(s, dates')
      /\ pending \subseteq requests'
      /\ \A q \in requests' \ pending :
            /\ IsRequest(q) /\ q.id \in (sent + 1)..sent' /\ q.kind = s.kind /\ q.of = s.of /\ q.answer = Pending
            /\ q.dates \in {d[Key(s)], dates'[Key(s)]}
            /\ q.id = sent' => q.dates = dates'[Key(s)]
      /\ s = Nothing => requests' = pending /\ sent' = sent
      /\ s # Nothing /\ sent' = sent =>
            Dependencies(s, d) = before /\ Dependencies(s, dates') = before /\ (failed' <=> failed)
  BY <1>1, <1>2, Rendered, Zenon
<1>4. asked' = Dependencies(s, dates')
  BY <1>3
<1>5. sent' = sent => /\ Dependencies(s, d) = asked /\ Dependencies(s, dates') = asked
                      /\ s.kind \in Fetching => page' = page
                      /\ (failed' <=> failed)
  <2> SUFFICES ASSUME sent' = sent
               PROVE  /\ Dependencies(s, d) = asked /\ Dependencies(s, dates') = asked
                      /\ s.kind \in Fetching => page' = page
                      /\ (failed' <=> failed)
    OBVIOUS
  <2>1. Dependencies(s, d) = before /\ Dependencies(s, dates') = before /\ (failed' <=> failed)
    BY <1>3
  <2>2. before = asked
    <3>1. Dependencies(s, d).kind = s.kind /\ s.kind # "nothing"
      BY Kinds DEF Dependencies, IsComponent
    <3>2. QED
      BY <2>1, <3>1, Kinds
  <2>3. ASSUME s.kind \in Fetching
        PROVE  page' = page
    <3>1. CASE s.kind = "summary"
      <4>1. Dependencies(s, d).version = s.version /\ Dependencies(shown, dates).version = shown.version
        BY DEF Dependencies
      <4>2. s.version = shown.version /\ shown.version = page
        BY <1>1, <2>1, <2>2, <2>3, <3>1, <4>1 DEF PageInv, LastInv
      <4>3. QED
        BY <3>1, <4>2
    <3>2. QED
      BY <3>1
  <2>4. QED
    BY <2>1, <2>2, <2>3
<1>6. ShownInv'
  BY <1>3 DEF ShownInv
<1>7. RequestInv'
  <2>1. \A q \in requests' :
            /\ IsRequest(q) /\ q.id \in 1..sent' /\ q.kind = s.kind
            /\ q.answer \in {Pending, Failure} \/ Served(q.answer, q.kind, q.of)
    <3> SUFFICES ASSUME NEW q \in requests'
                 PROVE  /\ IsRequest(q) /\ q.id \in 1..sent' /\ q.kind = s.kind
                        /\ q.answer \in {Pending, Failure} \/ Served(q.answer, q.kind, q.of)
      OBVIOUS
    <3>1. CASE q \in pending
      <4>1. q \in requests /\ q.id \in 1..sent
        BY <1>1, <3>1
      <4>2. q.id \in 1..sent'
        BY <1>1, <1>3, <4>1
      <4>3. QED
        BY <1>1, <4>1, <4>2
    <3>2. CASE q \notin pending
      <4>1. IsRequest(q) /\ q.id \in (sent + 1)..sent' /\ q.kind = s.kind /\ q.answer = Pending
        BY <1>3, <3>2
      <4>2. QED
        BY <1>1, <1>3, <4>1
    <3>3. QED
      BY <3>1, <3>2
  <2>2. applied' \in 0..sent'
    BY <1>1, <1>3
  <2>3. r = NoResponse \/ (IsResponse(r) /\ r.kind = s.kind /\ Served(r.version, r.kind, r.of))
    BY DEF OwnResponse
  <2>4. QED
    BY <1>3, <1>4, <2>1, <2>2, <2>3 DEF RequestInv
<1>8. ModalInv'
  <2> SUFFICES ASSUME s.kind = "modal"
               PROVE  /\ dates'["modal"] \in Ranges
                      /\ \A q \in requests' : q.of = s.of /\ q.dates \in Ranges
                      /\ r # NoResponse => r.of = s.of /\ r.dates \in Ranges
    BY <1>3 DEF ModalInv
  <2>1. s.of \in Clusters /\ s.version \in Versions /\ Key(s) = "modal" /\ s = shown
    BY Kinds DEF IsComponent
  <2>2. Metadata(s) \in Ranges
    BY <2>1, ModalPeriod
  <2>3. dates'["modal"] \in Ranges /\ d["modal"] \in Ranges
    BY <1>3, <2>1, <2>2
  <2>4. \A q \in requests : q.of = s.of /\ q.dates \in Ranges
    BY <2>1 DEF PageInv, ModalInv
  <2>5. \A q \in requests' : q.of = s.of /\ q.dates \in Ranges
    <3> TAKE q \in requests'
    <3>1. CASE q \in pending
      BY <2>4, <3>1
    <3>2. CASE q \notin pending
      BY <1>3, <2>1, <2>3, <3>2
    <3>3. QED
      BY <3>1, <3>2
  <2>6. QED
    BY <2>3, <2>5 DEF OwnResponse
<1>9. LastInv'
  <2> SUFFICES ASSUME s.kind \in Fetching
               PROVE  /\ page' # 0 /\ sent' # 0
                      /\ s.kind = "summary" => s.version = page'
                      /\ \A q \in requests' : q.id = sent' =>
                            /\ q.of = s.of /\ q.dates = dates'[s.of]
                            /\ q.answer \notin {Pending, Failure} => q.answer = page' \/ server # page'
                      /\ applied' = sent' /\ ~failed' =>
                            /\ IsResponse(r) /\ r.kind = s.kind
                            /\ r.of = s.of /\ r.dates = dates'[s.of]
                            /\ r.version = page' \/ server # page'
    BY <1>3 DEF LastInv
  <2>1. Key(s) = s.of /\ Key(shown) = shown.of
    BY Kinds
  <2>2. LastInv /\ shown.kind \in Fetching
    BY DEF PageInv
  <2>3. sent' # 0
    BY <1>1, <1>3, <2>2 DEF LastInv
  <2>4. CASE sent' = sent
    <3>1. /\ Dependencies(s, d) = asked /\ Dependencies(s, dates') = asked
          /\ page' = page /\ (failed' <=> failed)
      BY <1>5, <2>4
    <3>2. s.of = shown.of /\ dates'[s.of] = dates[shown.of] /\ d[s.of] = dates[shown.of]
      BY <1>1, <2>1, <3>1 DEF Dependencies
    <3>3. \A q \in requests' : q.id = sent' => q \in requests
      BY <1>1, <1>3, <2>4
    <3>4. ASSUME NEW q \in requests', q.id = sent'
          PROVE  /\ q.of = s.of /\ q.dates = dates'[s.of]
                 /\ q.answer \notin {Pending, Failure} => q.answer = page' \/ server # page'
      <4>1. q \in requests /\ q.id = sent
        BY <2>4, <3>3, <3>4
      <4>2. QED
        BY <2>2, <3>1, <3>2, <4>1 DEF LastInv
    <3>5. ASSUME applied' = sent', ~failed'
          PROVE  Current(s, dates', r, page')
      <4>1. Current(s, d, r, page)
        BY <2>4, <3>1, <3>5
      <4>2. QED
        BY <3>1, <3>2, <4>1 DEF Current
    <3>6. QED
      BY <2>3, <3>4, <3>5 DEF Current
  <2>5. CASE sent' # sent
    <3>1. sent' \in Nat /\ sent \in Nat /\ sent' > sent
      BY <1>1, <1>3, <2>5
    <3>2. applied' # sent'
      BY <3>1
    <3>3. ASSUME NEW q \in requests', q.id = sent'
          PROVE  q.of = s.of /\ q.dates = dates'[s.of] /\ q.answer = Pending
      <4>1. q \notin pending
        <5>1. q \in pending => q.id \in 1..sent
          BY <1>1
        <5>2. QED
          BY <3>1, <3>3, <5>1
      <4>2. QED
        BY <1>3, <2>1, <3>3, <4>1
    <3>4. QED
      BY <2>3, <3>2, <3>3
  <2>6. QED
    BY <2>4, <2>5
<1>10. QED
  BY <1>6, <1>7, <1>8, <1>9

\* The versions stay in order through every step.
LEMMA VersionsOrdered == VersionInv /\ [Next]_vars => VersionInv'
<1> SUFFICES ASSUME VersionInv, [Next]_vars PROVE VersionInv'
  OBVIOUS
<1>1. CASE handleFileUpload
  <2>1. /\ upload.phase = "idle" /\ upload.version + 1 \in Versions /\ UNCHANGED <<page, server>>
        /\ upload' = [version |-> upload.version + 1, phase |-> "reading"]
    BY <1>1 DEF handleFileUpload
  <2>2. QED
    BY <2>1 DEF VersionInv
<1>2. CASE SendUpload \/ UploadFails
  <2>1. /\ upload.phase # "idle" /\ upload'.version = upload.version /\ UNCHANGED <<page, server>>
        /\ upload' = [version |-> upload'.version, phase |-> upload'.phase]
    BY <1>2 DEF SendUpload, UploadFails, VersionInv
  <2>2. QED
    BY <2>1 DEF VersionInv
<1>3. CASE handleUploadState
  <2>1. /\ upload.phase # "idle" /\ upload'.version = upload.version /\ page' = page /\ server' = upload.version
        /\ upload' = [version |-> upload'.version, phase |-> upload'.phase]
    BY <1>3 DEF handleUploadState, VersionInv
  <2>2. QED
    BY <2>1 DEF VersionInv
<1>4. CASE UploadSucceeds
  <2>1. /\ upload'.version = upload.version /\ page' = upload.version /\ server' = server /\ upload'.phase = "idle"
        /\ upload' = [version |-> upload'.version, phase |-> upload'.phase]
    BY <1>4 DEF UploadSucceeds, VersionInv
  <2>2. QED
    BY <2>1 DEF VersionInv
<1>5. CASE ServerRestarts
  BY <1>5 DEF ServerRestarts, VersionInv
<1>6. CASE \/ \E p \in Pages : Show(p)
           \/ \E c \in Clusters, f \in Fields : openModal(c, f)
           \/ Leave
           \/ \E range \in PickedDates : PickDates(range)
           \/ SelectCostType
           \/ \E r \in requests : Answer(r) \/ Apply(r) \/ Fail(r)
           \/ Transfer
           \/ UNCHANGED vars
  <2>1. UNCHANGED <<server, page, upload>>
    BY <1>6, Zenon DEF Show, openModal, Leave, PickDates, SelectCostType, Answer, Apply, Fail, Transfer, vars
  <2>2. QED
    BY <2>1 DEF VersionInv
<1>7. QED
  BY <1>1, <1>2, <1>3, <1>4, <1>5, <1>6 DEF Next

\* An upload: its start clears the screen, its success mounts the summary or
\* gives it the new version, and nothing else touches the component.
LEMMA UploadKeeps ==
  PageInv /\ (handleFileUpload \/ SendUpload \/ handleUploadState \/ UploadFails \/ UploadSucceeds \/ ServerRestarts)
    => ShownInv' /\ RequestInv' /\ ModalInv' /\ LastInv'
<1> USE DEF PageInv
<1>1. ASSUME PageInv, handleFileUpload
      PROVE  ShownInv' /\ RequestInv' /\ ModalInv' /\ LastInv'
  <2>1. Mount(Nothing, dates) /\ page' = page
    BY <1>1 DEF handleFileUpload, Unmount
  <2>2. IsComponent(Nothing) /\ Nothing.kind \notin Fetching /\ Nothing.kind # "summary"
    BY Kinds DEF IsComponent, Fetching
  <2>3. dates = [k \in Keys |-> dates[k]]
    BY <1>1 DEF ShownInv
  <2>4. QED
    BY <2>1, <2>2, <2>3, Mounted
<1>2. ASSUME PageInv, UNCHANGED <<shown, dates, fetching>>,
             shown.kind \in Fetching => page' = page /\ (server = page \/ server' # page)
      PROVE  ShownInv' /\ RequestInv' /\ ModalInv' /\ LastInv'
  <2>1. UNCHANGED <<shown, dates, response, failed, requests, asked, sent, applied>>
    BY <1>2 DEF fetching
  <2>2. ShownInv' /\ RequestInv' /\ ModalInv'
    BY <1>2, <2>1 DEF ShownInv, RequestInv, ModalInv
  <2>3. LastInv'
    <3> SUFFICES ASSUME shown.kind \in Fetching
                 PROVE  LastInv'
      BY <2>1 DEF LastInv
    <3>1. page' = page /\ \A v : (v = page \/ server # page) => (v = page \/ server' # page)
      <4>1. page' = page /\ (server # page => server' # page)
        BY <1>2
      <4>2. QED
        BY <4>1
    <3>2. QED
      BY <1>2, <2>1, <3>1 DEF LastInv
  <2>4. QED
    BY <2>2, <2>3
<1>3. ASSUME PageInv, SendUpload \/ UploadFails
      PROVE  ShownInv' /\ RequestInv' /\ ModalInv' /\ LastInv'
  <2>1. UNCHANGED <<page, server, shown, dates, fetching>>
    BY <1>3 DEF SendUpload, UploadFails
  <2>2. QED
    BY <1>2, <1>3, <2>1
<1>4. ASSUME PageInv, handleUploadState
      PROVE  ShownInv' /\ RequestInv' /\ ModalInv' /\ LastInv'
  <2>1. UNCHANGED <<page, shown, dates, fetching>> /\ server' = upload.version /\ upload.phase = "sent"
    BY <1>4 DEF handleUploadState
  <2>2. server' # page
    BY <1>4, <2>1 DEF VersionInv
  <2>3. QED
    BY <1>2, <1>4, <2>1, <2>2
<1>5. ASSUME PageInv, ServerRestarts
      PROVE  ShownInv' /\ RequestInv' /\ ModalInv' /\ LastInv'
  <2>1. UNCHANGED <<page, shown, dates, fetching>> /\ server' = 0
    BY <1>5 DEF ServerRestarts
  <2>2. shown.kind \in Fetching => page # 0
    BY <1>5 DEF LastInv
  <2>3. QED
    BY <1>2, <1>5, <2>1, <2>2
<1>6. ASSUME PageInv, UploadSucceeds
      PROVE  ShownInv' /\ RequestInv' /\ ModalInv' /\ LastInv'
  <2> DEFINE summary == [kind |-> "summary", of |-> "summary", version |-> upload.version]
  <2>1. /\ upload.phase = "answered" /\ page' = upload.version /\ server' = server
        /\ \/ shown.kind = "summary" /\ Update(summary, dates)
           \/ shown.kind \in {"region", "cluster", "nothing"} /\ Mount(summary, dates)
           \/ shown.kind \in {"modal", "nothing"} /\ UNCHANGED <<shown, dates, fetching>>
    BY <1>6 DEF UploadSucceeds
  <2>2. page' # 0 /\ page' # page /\ page' \in Nat
    BY <1>6, <2>1 DEF VersionInv
  <2>3. IsComponent(summary) /\ summary # Nothing /\ summary.kind = "summary" /\ summary.version = page'
    BY <2>1 DEF IsComponent, Fetching, Key, Keys, Nothing
  <2>4. dates = [k \in Keys |-> dates[k]]
    BY <1>6 DEF ShownInv
  <2> HIDE DEF summary
  <2>5. CASE shown.kind = "summary" /\ Update(summary, dates)
    <3>1. Render(summary, dates, response, requests, asked, sent, failed) /\ applied' = applied
      BY <2>5 DEF Update
    <3>2. shown # Nothing /\ summary.kind = shown.kind
      BY <2>3, <2>5, Kinds DEF Fetching
    <3>3. applied' \in 0..sent
      BY <1>6, <3>1 DEF RequestInv
    <3>4. OwnResponse(summary, response)
      BY <1>6, <2>3, <3>2 DEF RequestInv, OwnResponse
    <3>5. QED
      BY <1>6, <2>1, <2>2, <2>3, <2>4, <3>1, <3>2, <3>3, <3>4, Remaining
  <2>6. CASE Mount(summary, dates)
    BY <2>2, <2>3, <2>4, <2>6, Mounted
  <2>7. CASE shown.kind \in {"modal", "nothing"} /\ UNCHANGED <<shown, dates, fetching>>
    BY <1>2, <1>6, <2>7 DEF Fetching
  <2>8. QED
    BY <2>1, <2>5, <2>6, <2>7
<1>7. QED
  BY <1>1, <1>3, <1>4, <1>5, <1>6

\* What the screen has is current as long as nothing is asked for again.
LEMMA ShownIsCurrent ==
  ASSUME PageInv, shown # Nothing, NEW s, s.kind = shown.kind, NEW d, Dependencies(s, d) = asked,
         applied = sent, ~failed, s.kind \in Fetching
  PROVE  Current(s, d, response, page)
<1>1. Key(s) = s.of /\ Key(shown) = shown.of
  BY Kinds
<1>2. asked = Dependencies(shown, dates)
  BY DEF PageInv, RequestInv
<1>3. s.of = shown.of /\ d[s.of] = dates[shown.of]
  BY <1>1, <1>2 DEF Dependencies
<1>4. QED
  BY <1>3 DEF PageInv, LastInv, Current

LEMMA ShowKeeps ==
  ASSUME PageInv, NEW p \in Pages, Show(p)
  PROVE  ShownInv' /\ RequestInv' /\ ModalInv' /\ LastInv'
<1> DEFINE s == [kind |-> p.kind, of |-> p.of, version |-> IF p.kind = "summary" THEN page ELSE 0]
<1>1. /\ Has(page, p.kind, p.of) /\ page' = page /\ server' = server
      /\ IF shown.kind = p.kind THEN Update(s, dates) ELSE Mount(s, dates)
  BY DEF Show
<1>2. /\ p.kind \in Fetching /\ p.of \in Keys /\ page # 0
  BY <1>1 DEF Pages, Fetching, Keys, Has
<1>3. /\ s.kind = p.kind /\ s.of = p.of /\ Key(s) = p.of /\ s # Nothing /\ IsComponent(s)
      /\ s.kind = "summary" => s.version = page
  BY <1>2, Kinds DEF IsComponent, Key, Fetching
<1>4. dates = [k \in Keys |-> dates[k]]
  BY DEF PageInv, ShownInv
<1> HIDE DEF s
<1>5. CASE shown.kind = p.kind
  <2>1. Render(s, dates, response, requests, asked, sent, failed) /\ applied' = applied
    BY <1>1, <1>5 DEF Update
  <2>2. shown # Nothing /\ s.kind # "modal"
    BY <1>2, <1>3, <1>5, Kinds DEF Fetching
  <2>3. OwnResponse(s, response) /\ applied' \in 0..sent
    BY <1>3, <1>5, <2>1, <2>2 DEF PageInv, RequestInv, OwnResponse
  <2>4. Dependencies(s, dates) = asked /\ applied' = sent /\ ~failed /\ s.kind \in Fetching
           => Current(s, dates, response, page)
    BY <1>3, <1>5, <2>1, <2>2, ShownIsCurrent
  <2>5. QED
    BY <1>1, <1>2, <1>3, <1>4, <1>5, <2>1, <2>2, <2>3, <2>4, Remaining
<1>6. CASE shown.kind # p.kind
  BY <1>1, <1>2, <1>3, <1>4, <1>6, Mounted
<1>7. QED
  BY <1>5, <1>6

LEMMA ModalKeeps ==
  ASSUME PageInv, NEW c \in Clusters, NEW f \in Fields, openModal(c, f)
  PROVE  ShownInv' /\ RequestInv' /\ ModalInv' /\ LastInv'
<1> DEFINE s == [kind |-> "modal", of |-> c, version |-> page]
<1>1. Has(page, "modal", c) /\ Mount(s, dates)
  BY DEF openModal
<1>2. page \in Versions
  BY <1>1 DEF Has, PageInv, VersionInv
<1>3. IsComponent(s) /\ s.kind \notin Fetching /\ s.kind # "summary"
  BY <1>2, Kinds DEF IsComponent, Fetching
<1>4. dates = [k \in Keys |-> dates[k]]
  BY DEF PageInv, ShownInv
<1> HIDE DEF s
<1>5. QED
  BY <1>1, <1>3, <1>4, Mounted

LEMMA LeaveKeeps ==
  ASSUME PageInv, Leave
  PROVE  ShownInv' /\ RequestInv' /\ ModalInv' /\ LastInv'
<1>1. Mount(Nothing, dates)
  BY DEF Leave, Unmount
<1>2. IsComponent(Nothing) /\ Nothing.kind \notin Fetching /\ Nothing.kind # "summary"
  BY Kinds DEF IsComponent, Fetching
<1>3. dates = [k \in Keys |-> dates[k]]
  BY DEF PageInv, ShownInv
<1>4. QED
  BY <1>1, <1>2, <1>3, Mounted

\* The component on the screen with other dates, another answer or the same.
LEMMA ShownStays ==
  ASSUME PageInv, shown # Nothing, NEW d, d = [k \in Keys |-> d[k]], shown.kind = "modal" => d["modal"] \in Ranges,
         NEW r, OwnResponse(shown, r), NEW pending, pending \subseteq requests, NEW before, before \in {asked, NoParameters},
         Render(shown, d, r, pending, before, sent, failed), applied' \in 0..sent, UNCHANGED <<server, page>>,
         Dependencies(shown, d) = asked /\ applied' = sent /\ ~failed /\ shown.kind \in Fetching
            => Current(shown, d, r, page)
  PROVE  ShownInv' /\ RequestInv' /\ ModalInv' /\ LastInv'
<1>1. IsComponent(shown) /\ (shown.kind \in Fetching => page' # 0) /\ (shown.kind = "summary" => shown.version = page')
  BY DEF PageInv, ShownInv, LastInv, Fetching
<1>2. page' = page /\ server' = server
  OBVIOUS
<1>3. QED
  BY <1>1, <1>2, Remaining

LEMMA PickKeeps ==
  ASSUME PageInv, NEW range \in PickedDates, PickDates(range)
  PROVE  ShownInv' /\ RequestInv' /\ ModalInv' /\ LastInv'
<1> DEFINE d == [dates EXCEPT ![Key(shown)] = range]
<1>1. shown # Nothing /\ Update(shown, d) /\ UNCHANGED <<server, page>>
  BY DEF PickDates
<1>2. Render(shown, d, response, requests, asked, sent, failed) /\ applied' = applied
  BY <1>1 DEF Update
<1>3. dates = [k \in Keys |-> dates[k]] /\ Key(shown) \in Keys
  BY <1>1 DEF PageInv, ShownInv, IsComponent
<1>4. d = [k \in Keys |-> d[k]] /\ d[Key(shown)] = range
  BY <1>3
<1>5. shown.kind = "modal" => d["modal"] \in Ranges
  <2>1. range \in Ranges
    BY DEF Ranges
  <2>2. QED
    BY <1>4, <2>1, Kinds
<1>6. OwnResponse(shown, response) /\ applied' \in 0..sent
  BY <1>2 DEF PageInv, RequestInv, ModalInv, OwnResponse
<1> HIDE DEF d
<1>7. Dependencies(shown, d) = asked /\ applied' = sent /\ ~failed /\ shown.kind \in Fetching
         => Current(shown, d, response, page)
  BY <1>1, <1>2, ShownIsCurrent
<1>8. QED
  BY <1>1, <1>2, <1>4, <1>5, <1>6, <1>7, ShownStays

LEMMA CostTypeKeeps ==
  ASSUME PageInv, SelectCostType
  PROVE  ShownInv' /\ RequestInv' /\ ModalInv' /\ LastInv'
<1>1. /\ shown.kind = "region" /\ Render(shown, dates, response, requests, NoParameters, sent, failed)
      /\ UNCHANGED <<server, page, applied>>
  BY DEF SelectCostType
<1>2. shown # Nothing /\ shown.kind # "modal" /\ dates = [k \in Keys |-> dates[k]]
  BY <1>1, Kinds DEF PageInv, ShownInv, Fetching
<1>3. OwnResponse(shown, response) /\ applied' \in 0..sent
  BY <1>1, <1>2 DEF PageInv, RequestInv, OwnResponse
<1>4. Dependencies(shown, dates) = asked /\ applied' = sent /\ ~failed /\ shown.kind \in Fetching
         => Current(shown, dates, response, page)
  BY <1>1, <1>2, ShownIsCurrent
<1>5. QED
  BY <1>1, <1>2, <1>3, <1>4, ShownStays

LEMMA AnswerKeeps ==
  ASSUME PageInv, NEW r \in requests, Answer(r)
  PROVE  ShownInv' /\ RequestInv' /\ ModalInv' /\ LastInv'
<1> DEFINE answer == IF Has(server, r.kind, r.of) THEN server ELSE Failure
           answered == [r EXCEPT !.answer = answer]
<1>1. /\ requests' = (requests \ {r}) \cup {answered}
      /\ UNCHANGED <<server, page, upload, shown, dates, response, failed, asked, sent, applied>>
  BY Zenon DEF Answer
<1>2. answer = Failure \/ (answer = server /\ Served(server, r.kind, r.of))
  BY DEF Served, Has, PageInv, VersionInv
<1> HIDE DEF answer
<1>3. /\ IsRequest(answered) /\ answered.id = r.id /\ answered.kind = r.kind /\ answered.of = r.of
      /\ answered.dates = r.dates /\ answered.answer = answer
  BY DEF PageInv, RequestInv, IsRequest
<1> HIDE DEF answered
<1>4. \A q \in requests' : q \in requests \/ q = answered
  BY <1>1
<1>5. ShownInv'
  BY <1>1 DEF PageInv, ShownInv
<1>6. RequestInv'
  BY <1>1, <1>2, <1>3, <1>4 DEF PageInv, RequestInv
<1>7. ModalInv'
  BY <1>1, <1>3, <1>4 DEF PageInv, ModalInv
<1>8. LastInv'
  <2> SUFFICES ASSUME shown.kind \in Fetching, NEW q \in requests', q.id = sent
               PROVE  /\ q.of = shown.of /\ q.dates = dates[shown.of]
                      /\ q.answer \notin {Pending, Failure} => q.answer = page \/ server # page
    BY <1>1 DEF PageInv, LastInv
  <2>1. CASE q \in requests
    BY <2>1 DEF PageInv, LastInv
  <2>2. CASE q = answered
    <3>1. r.id = sent
      BY <1>3, <2>2
    <3>2. q.of = shown.of /\ q.dates = dates[shown.of]
      BY <1>3, <2>2, <3>1 DEF PageInv, LastInv
    <3>3. QED
      BY <1>2, <1>3, <2>2, <3>2
  <2>3. QED
    BY <1>4, <2>1, <2>2
<1>9. QED
  BY <1>5, <1>6, <1>7, <1>8

LEMMA ApplyKeeps ==
  ASSUME PageInv, NEW q \in requests, Apply(q)
  PROVE  ShownInv' /\ RequestInv' /\ ModalInv' /\ LastInv'
<1> DEFINE r == [kind |-> q.kind, of |-> q.of, version |-> q.answer, dates |-> q.dates]
           pending == requests \ {q}
<1>1. /\ q.answer \notin {Pending, Failure} /\ Render(shown, dates, r, pending, asked, sent, failed)
      /\ applied' = q.id /\ UNCHANGED <<server, page>>
  BY DEF Apply
<1>2. /\ shown # Nothing /\ asked = Dependencies(shown, dates)
      /\ q.id \in 1..sent /\ sent \in Nat /\ q.kind = shown.kind /\ Served(q.answer, q.kind, q.of)
  BY <1>1 DEF PageInv, RequestInv
<1>3. dates = [k \in Keys |-> dates[k]] /\ (shown.kind = "modal" => dates["modal"] \in Ranges)
  BY DEF PageInv, ShownInv, ModalInv
<1>4. OwnResponse(shown, r)
  BY <1>2 DEF PageInv, ModalInv, OwnResponse, IsResponse
<1>5. applied' \in 0..sent
  BY <1>1, <1>2
<1>6. applied' = sent /\ shown.kind \in Fetching => Current(shown, dates, r, page)
  <2> SUFFICES ASSUME applied' = sent, shown.kind \in Fetching
               PROVE  Current(shown, dates, r, page)
    OBVIOUS
  <2>1. /\ q.of = shown.of /\ q.dates = dates[shown.of]
        /\ q.answer = page \/ server # page
    BY <1>1 DEF PageInv, LastInv
  <2>2. QED
    BY <1>2, <2>1 DEF Current, IsResponse
<1> HIDE DEF r, pending
<1>7. pending \subseteq requests
  BY DEF pending
<1>8. QED
  BY <1>1, <1>2, <1>3, <1>4, <1>5, <1>6, <1>7, ShownStays

LEMMA FailKeeps ==
  ASSUME PageInv, NEW r \in requests, Fail(r)
  PROVE  ShownInv' /\ RequestInv' /\ ModalInv' /\ LastInv'
<1>1. /\ failed' = TRUE /\ applied' = r.id /\ requests' = requests \ {r}
      /\ response' = NoResponse \/ response' = response
      /\ UNCHANGED <<server, page, upload, shown, dates, asked, sent>>
  BY DEF Fail
<1>2. ShownInv' /\ RequestInv' /\ ModalInv'
  BY <1>1 DEF PageInv, ShownInv, RequestInv, ModalInv
<1>3. LastInv'
  BY <1>1 DEF PageInv, LastInv
<1>4. QED
  BY <1>2, <1>3

LEMMA PageStep == PageInv /\ [Next]_vars => PageInv'
<1> SUFFICES ASSUME PageInv, [Next]_vars PROVE ShownInv' /\ RequestInv' /\ ModalInv' /\ LastInv'
  BY VersionsOrdered DEF PageInv
<1>1. CASE handleFileUpload \/ SendUpload \/ handleUploadState \/ UploadFails \/ UploadSucceeds \/ ServerRestarts
  BY <1>1, UploadKeeps
<1>2. CASE \E p \in Pages : Show(p)
  BY <1>2, ShowKeeps
<1>3. CASE (\E c \in Clusters, f \in Fields : openModal(c, f)) \/ Leave
  BY <1>3, ModalKeeps, LeaveKeeps
<1>4. CASE (\E range \in PickedDates : PickDates(range)) \/ SelectCostType
  BY <1>4, PickKeeps, CostTypeKeeps
<1>5. CASE \E r \in requests : Answer(r) \/ Apply(r) \/ Fail(r)
  BY <1>5, AnswerKeeps, ApplyKeeps, FailKeeps
<1>6. CASE Transfer \/ UNCHANGED vars
  <2>1. UNCHANGED <<server, page, upload, shown, dates, response, failed, requests, asked, sent, applied>>
    BY <1>6, Zenon DEF Transfer, vars, fetching
  <2>2. QED
    BY <2>1 DEF PageInv, ShownInv, RequestInv, ModalInv, LastInv
<1>7. QED
  BY <1>1, <1>2, <1>3, <1>4, <1>5, <1>6 DEF Next

(* However pages are switched, states uploaded and requests answered, the  *)
(* component on the screen has asked last for what it displays.            *)
THEOREM PageInvariance == Spec => []PageInv
<1>1. Init => PageInv
  BY PageAtFirst
<1>2. PageInv /\ [Next]_vars => PageInv'
  BY PageStep
<1>3. QED
  BY <1>1, <1>2, PTL DEF Spec

(* A page that has settled shows its target, from the state the page and   *)
(* the server share, for the dates it displays (the effects of             *)
(* useClusterMetricsFetch, useSummaryCostsFetch and RegionCosts).          *)
THEOREM PageShowsItsTarget == Spec => []PageIsCurrent
<1>1. PageInv => PageIsCurrent
  <2> SUFFICES ASSUME PageInv, shown.kind \in {"summary", "region", "cluster"}, server = page,
                      applied = sent, ~failed
               PROVE  response = [kind |-> shown.kind, of |-> shown.of, version |-> page, dates |-> dates[shown.of]]
    BY DEF PageIsCurrent
  <2>1. /\ IsResponse(response) /\ response.kind = shown.kind
        /\ response.of = shown.of /\ response.dates = dates[shown.of] /\ response.version = page
    BY DEF PageInv, LastInv, Fetching
  <2>2. QED
    BY <2>1 DEF IsResponse
<1>2. QED
  BY <1>1, PageInvariance, PTL

-----------------------------------------------------------------------------
(* The ranges of dates are made of times.                                  *)

DatesInv ==
    /\ \A k \in Keys : dates[k] \in DateRanges
    /\ \A q \in requests : q.dates \in DateRanges
    /\ response.dates \in DateRanges

\* The period of an answer, or of a modal's cluster, is a range of dates.
LEMMA PeriodTyped ==
  ASSUME NEW s, IsComponent(s), NEW r, OwnResponse(s, r)
  PROVE  Metadata(IF s.kind = "modal" THEN s ELSE r) \in DateRanges
<1>1. AllDates \in DateRanges
  BY DEF AllDates, DateRanges
<1>2. \A v \in Versions : /\ Periods[v] \in [Regions \cup Clusters -> DateRanges]
                          /\ DOMAIN RawCosts[v] \subseteq Regions /\ DOMAIN RawMetrics[v] \subseteq Clusters
  BY ExploreAssumption, Zenon
<1>3. \A v \in Versions, t \in Regions \cup Clusters : Periods[v][t] \in DateRanges
  BY <1>2
<1>4. CASE s.kind = "modal"
  <2>1. s.of \in Clusters /\ s.version \in Versions
    BY <1>4, Kinds DEF IsComponent
  <2>2. Metadata(s) = Periods[s.version][s.of]
    BY <1>4 DEF Metadata
  <2>3. QED
    BY <1>3, <1>4, <2>1, <2>2
<1>5. CASE s.kind # "modal" /\ r = NoResponse
  <2>1. Metadata(r) = AllDates
    BY <1>5, Kinds DEF Metadata
  <2>2. QED
    BY <1>1, <1>5, <2>1
<1>6. CASE s.kind # "modal" /\ r # NoResponse
  <2>1. Served(r.version, r.kind, r.of) /\ r.kind = s.kind
    BY <1>6 DEF OwnResponse
  <2>2. r.version \in Versions /\ Has(r.version, r.kind, r.of)
    BY <2>1 DEF Served
  <2>3. CASE r.kind = "nothing"
    BY <1>1, <1>6, <2>3 DEF Metadata
  <2>4. CASE r.kind = "summary"
    <3> DEFINE regions == DOMAIN RawCosts[r.version]
    <3>1. CASE regions = {}
      BY <1>1, <1>6, <2>4, <3>1 DEF Metadata
    <3>2. CASE regions # {}
      <4>1. Metadata(r) = Periods[r.version][CHOOSE x \in regions : TRUE]
        BY <2>4, <3>2 DEF Metadata
      <4>2. (CHOOSE x \in regions : TRUE) \in Regions
        BY <1>2, <2>2, <3>2
      <4>3. QED
        BY <1>3, <1>6, <2>2, <4>1, <4>2
    <3>3. QED
      BY <3>1, <3>2
  <2>5. CASE r.kind \notin {"nothing", "summary"}
    <3>1. r.of \in Regions \cup Clusters
      BY <1>2, <2>2, <2>5 DEF Has
    <3>2. Metadata(r) = Periods[r.version][r.of]
      BY <2>5 DEF Metadata
    <3>3. QED
      BY <1>3, <1>6, <2>2, <3>1, <3>2
  <2>6. QED
    BY <2>3, <2>4, <2>5
<1>7. QED
  BY <1>4, <1>5, <1>6

\* What a render asks for and displays.
LEMMA RenderDates ==
  ASSUME NEW s, IsComponent(s), NEW d, d = [k \in Keys |-> d[k]], \A k \in Keys : d[k] \in DateRanges,
         NEW r, OwnResponse(s, r), r.dates \in DateRanges,
         NEW pending, \A q \in pending : q.dates \in DateRanges,
         NEW before, NEW n \in Nat, NEW error, Render(s, d, r, pending, before, n, error)
  PROVE  DatesInv'
<1>1. s # Nothing => Key(s) \in Keys
  BY DEF IsComponent
<1>2. /\ shown' = s /\ response' = r
      /\ dates' = [k \in Keys |-> dates'[k]]
      /\ \A k \in Keys : k # Key(s) => dates'[k] = d[k]
      /\ dates'[Key(s)] \in {d[Key(s)], Metadata(IF s.kind = "modal" THEN s ELSE r)}
      /\ sent' \in Nat /\ sent' >= n
      /\ s # Nothing => asked' = Dependencies(s, dates')
      /\ pending \subseteq requests'
      /\ \A q \in requests' \ pending :
            /\ IsRequest(q) /\ q.id \in (n + 1)..sent' /\ q.kind = s.kind /\ q.of = s.of /\ q.answer = Pending
            /\ q.dates \in {d[Key(s)], dates'[Key(s)]}
            /\ q.id = sent' => q.dates = dates'[Key(s)]
      /\ s = Nothing => requests' = pending /\ sent' = n
      /\ s # Nothing /\ sent' = n =>
            Dependencies(s, d) = before /\ Dependencies(s, dates') = before /\ (failed' <=> error)
  BY <1>1, Rendered, Zenon
<1>3. Metadata(IF s.kind = "modal" THEN s ELSE r) \in DateRanges
  BY PeriodTyped
<1>4. \A k \in Keys : dates'[k] \in DateRanges
  BY <1>2, <1>3
<1>5. \A q \in requests' : q.dates \in DateRanges
  BY <1>1, <1>2, <1>4
<1>6. QED
  BY <1>2, <1>4, <1>5 DEF DatesInv

LEMMA MountDates ==
  ASSUME PageInv, DatesInv, NEW s, IsComponent(s), Mount(s, dates)
  PROVE  DatesInv'
<1> DEFINE d == [dates EXCEPT !["modal"] = AllDates]
<1>1. AllDates \in DateRanges /\ NoResponse.dates = AllDates
  BY DEF AllDates, DateRanges, NoResponse
<1>2. dates = [k \in Keys |-> dates[k]]
  BY DEF PageInv, ShownInv
<1>3. d = [k \in Keys |-> d[k]] /\ \A k \in Keys : d[k] \in DateRanges
  BY <1>1, <1>2 DEF DatesInv
<1>4. Render(s, d, NoResponse, {}, NoParameters, 0, FALSE)
  BY Zenon DEF Mount
<1> HIDE DEF d
<1>5. OwnResponse(s, NoResponse)
  BY DEF OwnResponse
<1>6. 0 \in Nat
  OBVIOUS
<1>7. \A q \in {} : q.dates \in DateRanges
  OBVIOUS
<1>8. QED
  BY <1>1, <1>3, <1>4, <1>5, <1>6, <1>7, RenderDates

\* A component that stays, with other dates, another answer or the same.
LEMMA StayDates ==
  ASSUME PageInv, DatesInv, NEW s, IsComponent(s), NEW d, d = [k \in Keys |-> d[k]],
         \A k \in Keys : d[k] \in DateRanges, NEW r, OwnResponse(s, r), r.dates \in DateRanges,
         NEW pending, pending \subseteq requests, NEW before, Render(s, d, r, pending, before, sent, failed)
  PROVE  DatesInv'
<1>1. sent \in Nat
  BY DEF PageInv, RequestInv
<1>2. \A q \in pending : q.dates \in DateRanges
  BY DEF DatesInv
<1>3. QED
  BY <1>1, <1>2, RenderDates

LEMMA DatesStep == PageInv /\ DatesInv /\ [Next]_vars => DatesInv'
<1> SUFFICES ASSUME PageInv, DatesInv, [Next]_vars PROVE DatesInv'
  OBVIOUS
<1>1. dates = [k \in Keys |-> dates[k]] /\ (\A k \in Keys : dates[k] \in DateRanges) /\ response.dates \in DateRanges
  BY DEF PageInv, ShownInv, DatesInv
<1>2. IsComponent(shown) /\ OwnResponse(shown, response) /\ IsComponent(Nothing)
  BY DEF PageInv, ShownInv, RequestInv, ModalInv, OwnResponse, IsComponent
<1>3. CASE handleFileUpload \/ Leave
  <2>1. Mount(Nothing, dates)
    BY <1>3, Zenon DEF handleFileUpload, Leave, Unmount
  <2>2. QED
    BY <1>2, <2>1, MountDates
<1>4. CASE SendUpload \/ handleUploadState \/ UploadFails \/ ServerRestarts \/ Transfer \/ UNCHANGED vars
  <2>1. UNCHANGED <<dates, requests, response>>
    BY <1>4, Zenon DEF SendUpload, handleUploadState, UploadFails, ServerRestarts, Transfer, vars, fetching
  <2>2. QED
    BY <2>1 DEF DatesInv
<1>5. CASE UploadSucceeds
  <2> DEFINE summary == [kind |-> "summary", of |-> "summary", version |-> upload.version]
  <2>1. \/ shown.kind = "summary" /\ Update(summary, dates)
        \/ Mount(summary, dates)
        \/ UNCHANGED <<shown, dates, fetching>>
    BY <1>5 DEF UploadSucceeds
  <2>2. IsComponent(summary) /\ summary.kind = "summary"
    BY DEF IsComponent, Fetching, Key, Keys
  <2> HIDE DEF summary
  <2>3. CASE shown.kind = "summary" /\ Update(summary, dates)
    <3>1. Render(summary, dates, response, requests, asked, sent, failed)
      BY <2>3 DEF Update
    <3>2. OwnResponse(summary, response)
      BY <1>2, <2>2, <2>3 DEF OwnResponse
    <3>3. QED
      BY <1>1, <2>2, <3>1, <3>2, StayDates
  <2>4. CASE Mount(summary, dates)
    BY <2>2, <2>4, MountDates
  <2>5. CASE UNCHANGED <<shown, dates, fetching>>
    BY <2>5 DEF fetching, DatesInv
  <2>6. QED
    BY <2>1, <2>3, <2>4, <2>5
<1>6. CASE \E p \in Pages : Show(p)
  <2>1. PICK p \in Pages : Show(p)
    BY <1>6
  <2> DEFINE s == [kind |-> p.kind, of |-> p.of, version |-> IF p.kind = "summary" THEN page ELSE 0]
  <2>2. IF shown.kind = p.kind THEN Update(s, dates) ELSE Mount(s, dates)
    BY <2>1 DEF Show
  <2>3. p.kind \in Fetching /\ p.of \in Keys
    BY DEF Pages, Fetching, Keys
  <2>4. IsComponent(s) /\ s.kind = p.kind /\ s.kind # "modal"
    BY <2>3, Kinds DEF IsComponent, Key, Fetching
  <2> HIDE DEF s
  <2>5. CASE shown.kind = p.kind
    <3>1. Render(s, dates, response, requests, asked, sent, failed)
      BY <2>2, <2>5 DEF Update
    <3>2. OwnResponse(s, response)
      BY <1>2, <2>4, <2>5 DEF OwnResponse
    <3>3. QED
      BY <1>1, <2>4, <3>1, <3>2, StayDates
  <2>6. CASE shown.kind # p.kind
    BY <2>2, <2>4, <2>6, MountDates
  <2>7. QED
    BY <2>5, <2>6
<1>7. CASE \E c \in Clusters, f \in Fields : openModal(c, f)
  <2>1. PICK c \in Clusters, f \in Fields : openModal(c, f)
    BY <1>7
  <2> DEFINE s == [kind |-> "modal", of |-> c, version |-> page]
  <2>2. Has(page, "modal", c) /\ Mount(s, dates)
    BY <2>1 DEF openModal
  <2>3. page \in Versions
    BY <2>2 DEF Has, PageInv, VersionInv
  <2>4. IsComponent(s)
    BY <2>3, Kinds DEF IsComponent, Fetching
  <2> HIDE DEF s
  <2>5. QED
    BY <2>2, <2>4, MountDates
<1>8. CASE \E range \in PickedDates : PickDates(range)
  <2>1. PICK range \in PickedDates : PickDates(range)
    BY <1>8
  <2> DEFINE d == [dates EXCEPT ![Key(shown)] = range]
  <2>2. shown # Nothing /\ Render(shown, d, response, requests, asked, sent, failed)
    BY <2>1 DEF PickDates, Update
  <2>3. range \in DateRanges
    BY ExploreAssumption
  <2>4. d = [k \in Keys |-> d[k]] /\ \A k \in Keys : d[k] \in DateRanges
    BY <1>1, <2>3
  <2> HIDE DEF d
  <2>5. QED
    BY <1>1, <1>2, <2>2, <2>4, StayDates
<1>9. CASE SelectCostType
  <2>1. Render(shown, dates, response, requests, NoParameters, sent, failed)
    BY <1>9 DEF SelectCostType
  <2>2. QED
    BY <1>1, <1>2, <2>1, StayDates
<1>10. CASE \E q \in requests : Answer(q) \/ Fail(q)
  <2>1. PICK q \in requests : Answer(q) \/ Fail(q)
    BY <1>10
  <2>2. CASE Answer(q)
    <3> DEFINE answer == IF Has(server, q.kind, q.of) THEN server ELSE Failure
               answered == [q EXCEPT !.answer = answer]
    <3>1. requests' = (requests \ {q}) \cup {answered} /\ UNCHANGED <<dates, response>>
      BY <2>2, Zenon DEF Answer
    <3> HIDE DEF answer
    <3>2. answered.dates = q.dates
      BY DEF PageInv, RequestInv, IsRequest
    <3> HIDE DEF answered
    <3>3. \A p \in requests' : p \in requests \/ p = answered
      BY <3>1
    <3>4. \A p \in requests' : p.dates \in DateRanges
      BY <3>2, <3>3 DEF DatesInv
    <3>5. QED
      BY <3>1, <3>4 DEF DatesInv
  <2>3. CASE Fail(q)
    <3>1. UNCHANGED dates /\ requests' = requests \ {q} /\ (response' = NoResponse \/ response' = response)
      BY <2>3 DEF Fail
    <3>2. NoResponse.dates \in DateRanges
      BY DEF NoResponse, AllDates, DateRanges
    <3>3. QED
      BY <3>1, <3>2 DEF DatesInv
  <2>4. QED
    BY <2>1, <2>2, <2>3
<1>11. CASE \E q \in requests : Apply(q)
  <2>1. PICK q \in requests : Apply(q)
    BY <1>11
  <2> DEFINE r == [kind |-> q.kind, of |-> q.of, version |-> q.answer, dates |-> q.dates]
             pending == requests \ {q}
  <2>2. q.answer \notin {Pending, Failure} /\ Render(shown, dates, r, pending, asked, sent, failed)
    BY <2>1 DEF Apply
  <2>3. q.kind = shown.kind /\ Served(q.answer, q.kind, q.of)
    BY <2>2 DEF PageInv, RequestInv
  <2>4. OwnResponse(shown, r) /\ r.dates \in DateRanges
    BY <2>3 DEF PageInv, ModalInv, OwnResponse, IsResponse, DatesInv
  <2>5. pending \subseteq requests
    OBVIOUS
  <2> HIDE DEF r, pending
  <2>6. QED
    BY <1>1, <1>2, <2>2, <2>4, <2>5, StayDates
<1>12. QED
  BY <1>3, <1>4, <1>5, <1>6, <1>7, <1>8, <1>9, <1>10, <1>11 DEF Next

LEMMA DatesInvariance == Spec => []DatesInv
<1>1. Init => DatesInv
  <2> SUFFICES ASSUME Init PROVE DatesInv
    OBVIOUS
  <2>1. dates = [k \in Keys |-> AllDates] /\ requests = {} /\ response = NoResponse
    BY DEF Init
  <2>2. AllDates \in DateRanges /\ NoResponse.dates = AllDates
    BY DEF AllDates, DateRanges, NoResponse
  <2>3. QED
    BY <2>1, <2>2 DEF DatesInv
<1>2. PageInv /\ DatesInv /\ [Next]_vars => DatesInv'
  BY DatesStep
<1>3. QED
  BY <1>1, <1>2, PageInvariance, PTL DEF Spec

-----------------------------------------------------------------------------
(* Sums.                                                                   *)

\* Among some subsets of a finite set there is one that shrinks to none of
\* them: what holds of a set when it holds of its smaller subsets holds.
LEMMA SmallestSubset ==
  ASSUME NEW S, IsFiniteSet(S), NEW T, T \subseteq SUBSET S, T # {}
  PROVE  \E s \in T : \A x \in s : s \ {x} \notin T
<1> DEFINE Smaller == StrictSubsetOrdering(S)
<1>1. IsWellFoundedOn(Smaller, SUBSET S)
  BY FS_StrictSubsetOrderingWellFounded, FS_FiniteSubsetsOfFinite
<1>2. \A s \in SUBSET S : \A x \in s : <<s \ {x}, s>> \in Smaller
  BY DEF StrictSubsetOrdering
<1> HIDE DEF Smaller
<1>3. PICK s \in T : \A t \in T : ~ (<<t, s>> \in Smaller)
  BY <1>1, WFMin, Zenon
<1>4. QED
  BY <1>2, <1>3

\* A set of natural numbers that is not empty has a least element.
LEMMA LeastNumber ==
  ASSUME NEW S, S \subseteq Nat, S # {}
  PROVE  \E n \in S : \A m \in S : n <= m
<1> DEFINE Below == {p \in Nat \X Nat : p[1] < p[2]}
<1>1. Below = OpToRel(<, Nat)
  BY Zenon DEF OpToRel
<1>2. IsWellFoundedOn(Below, Nat)
  BY <1>1, NatLessThanWellFounded, Zenon
<1>3. \A m, n \in Nat : m < n => <<m, n>> \in Below
  OBVIOUS
<1> HIDE DEF Below
<1>4. PICK n \in S : \A m \in S : ~ (<<m, n>> \in Below)
  BY <1>2, WFMin, Zenon
<1>5. \A m \in S : ~ (m < n)
  <2> TAKE m \in S
  <2>1. m \in Nat /\ n \in Nat /\ ~ (<<m, n>> \in Below)
    BY <1>4
  <2>2. QED
    BY <1>3, <2>1
<1>6. QED
  BY <1>5

\* The element a sum is taken apart at.
Some(s) == CHOOSE x \in s : TRUE

\* g adds f up over the subsets of S.
Adds(g, f, S) ==
    g = [s \in SUBSET S |-> IF s = {} THEN 0 ELSE LET x == CHOOSE x \in s : TRUE IN f[x] + g[s \ {x}]]

\* There is such a function.
LEMMA AddsExists ==
  ASSUME NEW f, NEW S, IsFiniteSet(S)
  PROVE  \E g : Adds(g, f, S)
<1> DEFINE Level(n) == {s \in SUBSET S : Cardinality(s) <= n}
           Step(g, n) == [s \in Level(n) |-> IF s = {} THEN 0 ELSE f[Some(s)] + g[s \ {Some(s)}]]
           Good(n) == \E g : g = Step(g, n)
           Bad == {n \in Nat : ~ Good(n)}
<1>1. \A s \in SUBSET S : IsFiniteSet(s) /\ Cardinality(s) \in Nat /\ Cardinality(s) <= Cardinality(S)
  BY FS_Subset, FS_CardinalityType
<1>2. Level(0) = {{}}
  BY <1>1, FS_EmptySet
<1>3. Good(0)
  <2> DEFINE g == [s \in {{}} |-> 0]
  <2>1. g = Step(g, 0)
    BY <1>2
  <2>2. QED
    BY <2>1
<1>4. ASSUME NEW n \in Nat, Good(n)
      PROVE  Good(n + 1)
  <2>1. PICK g : g = Step(g, n)
    BY <1>4
  <2> DEFINE h == Step(g, n + 1)
  <2>2. \A s \in SUBSET S : s # {} => Some(s) \in s /\ s \ {Some(s)} \in SUBSET S
    BY DEF Some
  <2>3. \A s \in Level(n + 1) : s # {} => s \ {Some(s)} \in Level(n)
    <3> SUFFICES ASSUME NEW s \in Level(n + 1), s # {}
                 PROVE  Cardinality(s \ {Some(s)}) <= n
      BY <2>2
    <3>1. Some(s) \in s /\ Cardinality(s) \in Nat /\ Cardinality(s \ {Some(s)}) = Cardinality(s) - 1
      BY <1>1, <2>2, FS_RemoveElement
    <3>2. QED
      BY <3>1
  <2>4. \A s \in Level(n) : s \in Level(n + 1) /\ g[s] = h[s]
    <3> TAKE s \in Level(n)
    <3>1. s \in Level(n + 1)
      BY <1>1
    <3>2. g[s] = IF s = {} THEN 0 ELSE f[Some(s)] + g[s \ {Some(s)}]
      BY <2>1
    <3>3. h[s] = IF s = {} THEN 0 ELSE f[Some(s)] + g[s \ {Some(s)}]
      BY <3>1
    <3>4. QED
      BY <3>1, <3>2, <3>3
  <2>5. h = Step(h, n + 1)
    <3>1. \A s \in Level(n + 1) : s # {} => g[s \ {Some(s)}] = h[s \ {Some(s)}]
      BY <2>3, <2>4
    <3> DEFINE k == h
    <3> HIDE DEF k
    <3>2. \A s \in Level(n + 1) : s # {} => g[s \ {Some(s)}] = k[s \ {Some(s)}]
      BY <3>1 DEF k
    <3>3. Step(g, n + 1) = Step(k, n + 1)
      BY <3>2
    <3>4. QED
      BY <3>3 DEF k
  <2>6. QED
    BY <2>5
<1>5. \A n \in Nat : Good(n)
  <2> HIDE DEF Good
  <2> SUFFICES ASSUME Bad # {} PROVE FALSE
    OBVIOUS
  <2>1. PICK n \in Bad : \A m \in Bad : n <= m
    BY LeastNumber
  <2>2. n # 0 /\ n - 1 \in Nat /\ n - 1 \notin Bad
    BY <1>3, <2>1
  <2>3. Good(n - 1) /\ (n - 1) + 1 = n
    BY <2>1, <2>2
  <2>4. Good((n - 1) + 1)
    BY <1>4, <2>2, <2>3
  <2>5. QED
    BY <2>1, <2>3, <2>4
<1>6. PICK g : g = Step(g, Cardinality(S))
  BY <1>5, FS_CardinalityType
<1>7. Level(Cardinality(S)) = SUBSET S
  BY <1>1
<1> HIDE DEF Level
<1>8. g = [s \in SUBSET S |-> IF s = {} THEN 0 ELSE f[Some(s)] + g[s \ {Some(s)}]]
  BY <1>6, <1>7
<1>9. Adds(g, f, S)
  BY <1>8, Zenon DEF Adds, Some
<1>10. QED
  BY <1>9

\* Two functions that add the same numbers up agree.
LEMMA AddsAgree ==
  ASSUME NEW f, NEW g, NEW F, NEW G, NEW S, IsFiniteSet(S), NEW U, NEW V, S \subseteq U, S \subseteq V,
         Adds(F, f, U), Adds(G, g, V), \A x \in S : f[x] = g[x]
  PROVE  F[S] = G[S]
<1> DEFINE T == {s \in SUBSET S : F[s] # G[s]}
<1>1. /\ \A s \in SUBSET S : F[s] = IF s = {} THEN 0 ELSE f[Some(s)] + F[s \ {Some(s)}]
      /\ \A s \in SUBSET S : G[s] = IF s = {} THEN 0 ELSE g[Some(s)] + G[s \ {Some(s)}]
  <2>1. /\ F = [s \in SUBSET U |-> IF s = {} THEN 0 ELSE f[Some(s)] + F[s \ {Some(s)}]]
        /\ G = [s \in SUBSET V |-> IF s = {} THEN 0 ELSE g[Some(s)] + G[s \ {Some(s)}]]
    BY Zenon DEF Adds, Some
  <2>2. \A s \in SUBSET S : s \in SUBSET U /\ s \in SUBSET V
    OBVIOUS
  <2>3. QED
    BY <2>1, <2>2
<1>2. SUFFICES ASSUME T # {} PROVE FALSE
  OBVIOUS
<1>3. PICK s \in T : \A x \in s : s \ {x} \notin T
  <2>1. T \subseteq SUBSET S
    OBVIOUS
  <2> HIDE DEF T
  <2>2. QED
    BY <1>2, <2>1, SmallestSubset, Zenon
<1>4. s # {}
  BY <1>1
<1>5. Some(s) \in s
  BY <1>4 DEF Some
<1>6. F[s \ {Some(s)}] = G[s \ {Some(s)}] /\ f[Some(s)] = g[Some(s)]
  BY <1>3, <1>5
<1>7. QED
  BY <1>1, <1>3, <1>6

\* A sum is found by any function that adds its numbers up.
LEMMA SumFound ==
  ASSUME NEW f, NEW S, IsFiniteSet(S), NEW g, NEW U, S \subseteq U, Adds(g, f, U)
  PROVE  Sum(f, S) = g[S]
<1> DEFINE G == CHOOSE h : Adds(h, f, S)
<1>1. Sum(f, S) = G[S]
  BY Zenon DEF Sum, MapThenSumSet, MapThenFoldSet, Adds
<1>2. Adds(G, f, S)
  BY AddsExists, Zenon
<1> HIDE DEF G
<1>3. \A h, H, V : S \subseteq V /\ Adds(H, h, V) /\ (\A x \in S : f[x] = h[x]) => G[S] = H[S]
  BY <1>2, AddsAgree
<1>4. QED
  BY <1>1, <1>3

\* The sum of no numbers, and of some.
LEMMA SumStep ==
  ASSUME NEW f, NEW S, IsFiniteSet(S)
  PROVE  /\ Sum(f, {}) = 0
         /\ S # {} => Some(S) \in S /\ Sum(f, S) = f[Some(S)] + Sum(f, S \ {Some(S)})
<1>1. PICK g : Adds(g, f, S)
  BY AddsExists
<1>2. \A s \in SUBSET S : IsFiniteSet(s) /\ Sum(f, s) = g[s]
  BY <1>1, SumFound, FS_Subset
<1>3. \A s \in SUBSET S : g[s] = IF s = {} THEN 0 ELSE f[Some(s)] + g[s \ {Some(s)}]
  <2>1. g = [s \in SUBSET S |-> IF s = {} THEN 0 ELSE f[Some(s)] + g[s \ {Some(s)}]]
    BY <1>1, Zenon DEF Adds, Some
  <2>2. QED
    BY <2>1
<1>4. S # {} => Some(S) \in S
  BY DEF Some
<1>5. QED
  BY <1>2, <1>3, <1>4

\* Sums of whole numbers are whole numbers.
LEMMA SumInt ==
  ASSUME NEW S, IsFiniteSet(S), NEW f, \A x \in S : f[x] \in Int
  PROVE  Sum(f, S) \in Int
<1> DEFINE T == {s \in SUBSET S : Sum(f, s) \notin Int}
<1>1. SUFFICES ASSUME T # {} PROVE FALSE
  OBVIOUS
<1>2. PICK s \in T : \A x \in s : s \ {x} \notin T
  <2>1. T \subseteq SUBSET S
    OBVIOUS
  <2> HIDE DEF T
  <2>2. QED
    BY <1>1, <2>1, SmallestSubset, Zenon
<1>3. /\ Sum(f, {}) = 0
      /\ s # {} => Some(s) \in s /\ Sum(f, s) = f[Some(s)] + Sum(f, s \ {Some(s)})
  BY FS_Subset, SumStep
<1>4. QED
  BY <1>2, <1>3

\* Numbers that agree have the same sum.
LEMMA SumSame ==
  ASSUME NEW S, IsFiniteSet(S), NEW f, NEW g, \A x \in S : f[x] = g[x]
  PROVE  Sum(f, S) = Sum(g, S)
<1>1. PICK F : Adds(F, f, S)
  BY AddsExists
<1>2. PICK G : Adds(G, g, S)
  BY AddsExists
<1>3. Sum(f, S) = F[S] /\ Sum(g, S) = G[S]
  BY <1>1, <1>2, SumFound
<1>4. F[S] = G[S]
  BY <1>1, <1>2, AddsAgree
<1>5. QED
  BY <1>3, <1>4

\* A sum does not depend on the element it is taken apart at.
LEMMA SumRemove ==
  ASSUME NEW S, IsFiniteSet(S), NEW f, \A x \in S : f[x] \in Int
  PROVE  \A x \in S : Sum(f, S) = f[x] + Sum(f, S \ {x})
<1> DEFINE T == {s \in SUBSET S : \E x \in s : Sum(f, s) # f[x] + Sum(f, s \ {x})}
<1>1. SUFFICES ASSUME T # {} PROVE FALSE
  OBVIOUS
<1>2. PICK s \in T : \A x \in s : s \ {x} \notin T
  <2>1. T \subseteq SUBSET S
    OBVIOUS
  <2> HIDE DEF T
  <2>2. QED
    BY <1>1, <2>1, SmallestSubset, Zenon
<1>3. PICK x \in s : Sum(f, s) # f[x] + Sum(f, s \ {x})
  BY <1>2
<1> DEFINE c == Some(s)
<1>4. c \in s /\ Sum(f, s) = f[c] + Sum(f, s \ {c})
  BY <1>3, FS_Subset, SumStep
<1> HIDE DEF c
<1>5. x # c
  BY <1>3, <1>4
<1>6. Sum(f, s \ {c}) = f[x] + Sum(f, (s \ {c}) \ {x})
  BY <1>2, <1>4, <1>5
<1>7. Sum(f, s \ {x}) = f[c] + Sum(f, (s \ {x}) \ {c})
  BY <1>2, <1>4, <1>5
<1>8. (s \ {c}) \ {x} = (s \ {x}) \ {c}
  OBVIOUS
<1>9. Sum(f, (s \ {c}) \ {x}) \in Int /\ f[x] \in Int /\ f[c] \in Int
  <2>1. (s \ {c}) \ {x} \in SUBSET S /\ IsFiniteSet((s \ {c}) \ {x})
    BY FS_Subset
  <2>2. QED
    BY <1>4, <2>1, SumInt
<1> DEFINE R == Sum(f, (s \ {c}) \ {x})
<1>10. /\ Sum(f, s) = f[c] + (f[x] + R) /\ Sum(f, s \ {x}) = f[c] + R
       /\ R \in Int /\ f[x] \in Int /\ f[c] \in Int
  BY <1>4, <1>6, <1>7, <1>8, <1>9
<1> HIDE DEF R, T
<1>11. f[c] + (f[x] + R) = f[x] + (f[c] + R)
  BY <1>10
<1>12. QED
  BY <1>3, <1>10, <1>11, Zenon

\* The sum over two sets that share nothing.
LEMMA SumUnion ==
  ASSUME NEW A, IsFiniteSet(A), NEW B, IsFiniteSet(B), A \cap B = {},
         NEW f, \A x \in A \cup B : f[x] \in Int
  PROVE  Sum(f, A \cup B) = Sum(f, A) + Sum(f, B)
<1> DEFINE T == {s \in SUBSET A : Sum(f, s \cup B) # Sum(f, s) + Sum(f, B)}
<1>1. SUFFICES ASSUME T # {} PROVE FALSE
  OBVIOUS
<1>2. PICK s \in T : \A x \in s : s \ {x} \notin T
  <2>1. T \subseteq SUBSET A
    OBVIOUS
  <2> HIDE DEF T
  <2>2. QED
    BY <1>1, <2>1, SmallestSubset, Zenon
<1>3. IsFiniteSet(s) /\ IsFiniteSet(s \cup B)
  BY FS_Subset, FS_Union
<1>4. Sum(f, {}) = 0 /\ Sum(f, B) \in Int
  BY SumStep, SumInt
<1>5. s # {}
  <2>1. s = {} => s \cup B = B
    OBVIOUS
  <2>2. Sum(f, s \cup B) # Sum(f, s) + Sum(f, B)
    BY <1>2
  <2>3. 0 + Sum(f, B) = Sum(f, B)
    BY <1>4
  <2>4. QED
    BY <1>4, <2>1, <2>2, <2>3, Zenon
<1>6. PICK x \in s : TRUE
  BY <1>5
<1>7. Sum(f, s) = f[x] + Sum(f, s \ {x})
  BY <1>3, SumRemove
<1>8. Sum(f, s \cup B) = f[x] + Sum(f, (s \cup B) \ {x})
  BY <1>3, SumRemove
<1>9. (s \cup B) \ {x} = (s \ {x}) \cup B
  OBVIOUS
<1>10. Sum(f, (s \ {x}) \cup B) = Sum(f, s \ {x}) + Sum(f, B)
  BY <1>2
<1>11. f[x] \in Int /\ Sum(f, s \ {x}) \in Int
  <2>1. IsFiniteSet(s \ {x}) /\ s \ {x} \subseteq A
    BY <1>3, FS_RemoveElement
  <2>2. QED
    BY <2>1, SumInt
<1>12. QED
  BY <1>2, <1>4, <1>7, <1>8, <1>9, <1>10, <1>11

\* A sum of zeros.
LEMMA SumZeros ==
  ASSUME NEW S, IsFiniteSet(S), NEW f, \A x \in S : f[x] = 0
  PROVE  Sum(f, S) = 0
<1> DEFINE T == {s \in SUBSET S : Sum(f, s) # 0}
<1>1. SUFFICES ASSUME T # {} PROVE FALSE
  OBVIOUS
<1>2. PICK s \in T : \A x \in s : s \ {x} \notin T
  <2>1. T \subseteq SUBSET S
    OBVIOUS
  <2> HIDE DEF T
  <2>2. QED
    BY <1>1, <2>1, SmallestSubset, Zenon
<1>3. /\ Sum(f, {}) = 0
      /\ s # {} => Some(s) \in s /\ Sum(f, s) = f[Some(s)] + Sum(f, s \ {Some(s)})
  BY FS_Subset, SumStep
<1>4. QED
  BY <1>2, <1>3

\* What is zero outside a subset sums up to the subset's sum.
LEMMA SumWithin ==
  ASSUME NEW S, IsFiniteSet(S), NEW A, A \subseteq S, NEW f, \A x \in A : f[x] \in Int, \A x \in S \ A : f[x] = 0
  PROVE  Sum(f, S) = Sum(f, A)
<1>1. IsFiniteSet(A) /\ IsFiniteSet(S \ A) /\ A \cap (S \ A) = {} /\ A \cup (S \ A) = S
  BY FS_Subset
<1>2. Sum(f, S \ A) = 0 /\ Sum(f, A) \in Int
  BY <1>1, SumZeros, SumInt
<1>3. Sum(f, S) = Sum(f, A) + Sum(f, S \ A)
  <2>1. \A x \in A \cup (S \ A) : f[x] \in Int
    OBVIOUS
  <2>2. Sum(f, A \cup (S \ A)) = Sum(f, A) + Sum(f, S \ A)
    BY <1>1, <2>1, SumUnion, Zenon
  <2>3. QED
    BY <1>1, <2>2
<1>4. QED
  BY <1>2, <1>3

\* Numbers can be added up by groups.
LEMMA SumByGroups ==
  ASSUME NEW S, IsFiniteSet(S), NEW f, \A x \in S : f[x] \in Int,
         NEW D, IsFiniteSet(D), NEW h, \A x \in S : h[x] \in D
  PROVE  Sum([d \in D |-> Sum(f, {x \in S : h[x] = d})], D) = Sum(f, S)
<1> DEFINE F == [d \in D |-> Sum(f, {x \in S : h[x] = d})]
           In(E) == {x \in S : h[x] \in E}
           T == {E \in SUBSET D : Sum(F, E) # Sum(f, In(E))}
<1>1. \A E \in SUBSET D : IsFiniteSet(E) /\ IsFiniteSet(In(E)) /\ \A x \in In(E) : f[x] \in Int
  BY FS_Subset
<1>2. T = {}
  <2>1. SUFFICES ASSUME T # {} PROVE FALSE
    OBVIOUS
  <2>2. PICK E \in T : \A d \in E : E \ {d} \notin T
    <3>1. T \subseteq SUBSET D
      OBVIOUS
    <3> HIDE DEF T
    <3>2. QED
      BY <2>1, <3>1, SmallestSubset, Zenon
  <2>3. E # {}
    <3>1. In({}) = {}
      OBVIOUS
    <3>2. Sum(F, {}) = 0 /\ Sum(f, {}) = 0
      BY SumStep, FS_EmptySet
    <3> HIDE DEF F, In
    <3>3. QED
      BY <2>2, <3>1, <3>2
  <2>4. PICK d \in E : TRUE
    BY <2>3
  <2> DEFINE A == In({d})
             B == In(E \ {d})
  <2>5. /\ In(E) = A \cup B /\ A \cap B = {} /\ F[d] = Sum(f, A) /\ d \in D
        /\ E \ {d} \in SUBSET D /\ {d} \in SUBSET D
    <3>1. A = {x \in S : h[x] = d}
      OBVIOUS
    <3>2. QED
      BY <3>1
  <2>6. IsFiniteSet(A) /\ IsFiniteSet(B) /\ \A x \in A \cup B : f[x] \in Int
    BY <1>1, <2>5
  <2>7. \A e \in D : F[e] \in Int
    <3> TAKE e \in D
    <3>1. IsFiniteSet({x \in S : h[x] = e})
      BY FS_Subset
    <3>2. QED
      BY <3>1, SumInt
  <2> HIDE DEF F, In, A, B
  <2>8. Sum(f, A \cup B) = Sum(f, A) + Sum(f, B)
    BY <2>5, <2>6, SumUnion, Zenon
  <2>9. Sum(F, E) = F[d] + Sum(F, E \ {d})
    BY <1>1, <2>7, SumRemove
  <2>10. Sum(F, E \ {d}) = Sum(f, B)
    BY <2>2, <2>5 DEF B
  <2>11. QED
    BY <2>2, <2>5, <2>8, <2>9, <2>10
<1>3. In(D) = S
  OBVIOUS
<1> HIDE DEF F, In
<1>4. QED
  BY <1>2, <1>3 DEF F

\* A sum over the pairs with one left part is the sum over the right parts.
LEMMA SumOfPairs ==
  ASSUME NEW J, IsFiniteSet(J), NEW i, NEW f, \A j \in J : f[<<i, j>>] \in Int
  PROVE  Sum(f, {i} \X J) = Sum([j \in J |-> f[<<i, j>>]], J)
<1> DEFINE g == [j \in J |-> f[<<i, j>>]]
           Pairs(K) == {i} \X K
           T == {K \in SUBSET J : Sum(f, Pairs(K)) # Sum(g, K)}
<1>1. \A K \in SUBSET J : IsFiniteSet(K) /\ IsFiniteSet(Pairs(K)) /\ \A x \in Pairs(K) : f[x] \in Int
  <2> TAKE K \in SUBSET J
  <2>1. IsFiniteSet(K) /\ IsFiniteSet({i})
    BY FS_Subset, FS_Singleton
  <2>2. IsFiniteSet(Pairs(K))
    BY <2>1, FS_Product
  <2>3. \A x \in Pairs(K) : f[x] \in Int
    OBVIOUS
  <2>4. QED
    BY <2>1, <2>2, <2>3
<1>2. T = {}
  <2>1. SUFFICES ASSUME T # {} PROVE FALSE
    OBVIOUS
  <2>2. PICK K \in T : \A j \in K : K \ {j} \notin T
    <3>1. T \subseteq SUBSET J
      OBVIOUS
    <3> HIDE DEF T
    <3>2. QED
      BY <2>1, <3>1, SmallestSubset, Zenon
  <2>3. K # {}
    <3>1. Pairs({}) = {}
      OBVIOUS
    <3>2. Sum(f, {}) = 0 /\ Sum(g, {}) = 0
      BY SumStep, FS_EmptySet
    <3> HIDE DEF g, Pairs
    <3>3. QED
      BY <2>2, <3>1, <3>2
  <2>4. PICK j \in K : TRUE
    BY <2>3
  <2>5. <<i, j>> \in Pairs(K) /\ Pairs(K) \ {<<i, j>>} = Pairs(K \ {j}) /\ g[j] = f[<<i, j>>]
    OBVIOUS
  <2>6. \A k \in K : g[k] \in Int
    OBVIOUS
  <2> HIDE DEF g, Pairs
  <2>7. Sum(f, Pairs(K)) = f[<<i, j>>] + Sum(f, Pairs(K) \ {<<i, j>>})
    BY <1>1, <2>5, SumRemove
  <2>8. Sum(g, K) = g[j] + Sum(g, K \ {j})
    BY <1>1, <2>6, SumRemove
  <2>9. Sum(g, K \ {j}) = Sum(f, Pairs(K \ {j}))
    BY <2>2
  <2>10. QED
    BY <2>2, <2>5, <2>7, <2>8, <2>9
<1> HIDE DEF g
<1>3. QED
  BY <1>2 DEF g

-----------------------------------------------------------------------------
(* The costs.                                                              *)

\* The values of a function on a finite set are finitely many.
LEMMA FiniteImage ==
  ASSUME NEW S, IsFiniteSet(S), NEW h
  PROVE  IsFiniteSet({h[x] : x \in S})
<1> DEFINE T == {h[x] : x \in S}
           f == [x \in S |-> h[x]]
<1>1. f \in [S -> T] /\ \A y \in T : \E x \in S : f[x] = y
  OBVIOUS
<1>2. f \in Surjection(S, T)
  BY <1>1 DEF Surjection
<1> HIDE DEF f, T
<1>3. IsFiniteSet(T)
  BY <1>2, FS_Surjection
<1>4. QED
  BY <1>3 DEF T

\* The groups of all periods, and those that are counted in a range of dates.
Places(raw) == UNION {{i} \X DOMAIN raw[i].groups : i \in DOMAIN raw}

GroupAt(raw, p) == raw[p[1]].groups[p[2]]

Counted(raw, range, p) ==
    /\ Len(GroupAt(raw, p).keys) >= 2
    /\ raw[p[1]].start # NoPeriod /\ (range # AllDates => Within(raw[p[1]].start, range))

\* The periods, their groups and the amounts of these.
LEMMA CostsTyped ==
  ASSUME NEW raw \in CostResults
  PROVE  /\ IsFiniteSet(DOMAIN raw)
         /\ \A i \in DOMAIN raw : IsFiniteSet(DOMAIN raw[i].groups)
         /\ \A i \in DOMAIN raw : \A j \in DOMAIN raw[i].groups :
               raw[i].groups[j].amounts \in [CostTypes -> Int \cup {NoAmount}]
         /\ \A i \in DOMAIN raw : raw[i].start \in Int \cup {NoTime, NoPeriod}
<1> DEFINE G == [keys : Seq(STRING), amounts : [CostTypes -> Int \cup {NoAmount}]]
           S == [start : Int \cup {NoTime, NoPeriod}, groups : Seq(G)]
<1>1. \A x \in S : x.groups \in Seq(G) /\ x.start \in Int \cup {NoTime, NoPeriod}
  OBVIOUS
<1>2. \A x \in G : x.amounts \in [CostTypes -> Int \cup {NoAmount}]
  OBVIOUS
<1>3. raw \in Seq(S)
  BY DEF CostResults
<1> HIDE DEF G, S
<1>4. \A X : \A s \in Seq(X) : IsFiniteSet(DOMAIN s) /\ \A i \in DOMAIN s : s[i] \in X
  <2> TAKE X
  <2> TAKE s \in Seq(X)
  <2>1. Len(s) \in Nat /\ DOMAIN s = 1..Len(s) /\ \A i \in DOMAIN s : s[i] \in X
    OBVIOUS
  <2>2. QED
    BY <2>1, FS_Interval
<1>5. \A i \in DOMAIN raw : raw[i].groups \in Seq(G)
  BY <1>1, <1>3, <1>4
<1>6. IsFiniteSet(DOMAIN raw) /\ \A i \in DOMAIN raw : IsFiniteSet(DOMAIN raw[i].groups)
  BY <1>3, <1>4, <1>5, Zenon
<1>7. \A i \in DOMAIN raw : \A j \in DOMAIN raw[i].groups :
         raw[i].groups[j].amounts \in [CostTypes -> Int \cup {NoAmount}]
  BY <1>2, <1>4, <1>5, Zenon
<1>8. \A i \in DOMAIN raw : raw[i].start \in Int \cup {NoTime, NoPeriod}
  BY <1>1, <1>3, <1>4, Zenon
<1>9. QED
  BY <1>6, <1>7, <1>8

\* There are finitely many groups.
LEMMA PlacesFinite ==
  ASSUME NEW raw \in CostResults
  PROVE  IsFiniteSet(Places(raw))
<1> DEFINE at == [i \in DOMAIN raw |-> {i} \X DOMAIN raw[i].groups]
           T == {at[i] : i \in DOMAIN raw}
<1>1. Places(raw) = UNION T
  <2>1. T = {{i} \X DOMAIN raw[i].groups : i \in DOMAIN raw}
    OBVIOUS
  <2>2. QED
    BY <2>1 DEF Places
<1>2. \A i \in DOMAIN raw : IsFiniteSet(at[i])
  BY CostsTyped, FS_Singleton, FS_Product
<1>3. IsFiniteSet(T) /\ \A t \in T : IsFiniteSet(t)
  <2>1. \A t \in T : IsFiniteSet(t)
    BY <1>2
  <2> HIDE DEF at
  <2>2. IsFiniteSet(T)
    BY CostsTyped, FiniteImage
  <2>3. QED
    BY <2>1, <2>2
<1> HIDE DEF T
<1>4. QED
  BY <1>1, <1>3, FS_UNION

\* The entries made of a region's costs: one for each group that counts.
AreEntries(costs, raw, range) ==
    /\ DOMAIN costs = {p \in Places(raw) : Counted(raw, range, p)}
    /\ \A p \in DOMAIN costs :
          /\ costs[p].start = raw[p[1]].start
          /\ costs[p].service = GroupAt(raw, p).keys[1]
          /\ costs[p].usageType = GroupAt(raw, p).keys[2]
          /\ \A t \in CostTypes : costs[p].values[t] = Amount(GroupAt(raw, p).amounts, t)

LEMMA CostEntries ==
  ASSUME NEW raw, NEW range
  PROVE  AreEntries(Filtered(flattenCosts(raw), range), raw, range)
<1> DEFINE all == flattenCosts(raw)
           costs == Filtered(all, range)
           kept == {p \in Places(raw) : raw[p[1]].start # NoPeriod /\ Len(GroupAt(raw, p).keys) >= 2}
<1>1. all = [p \in kept |-> [start |-> raw[p[1]].start,
                             service |-> GroupAt(raw, p).keys[1], usageType |-> GroupAt(raw, p).keys[2],
                             values |-> [t \in CostTypes |-> Amount(GroupAt(raw, p).amounts, t)]]]
  BY Zenon DEF flattenCosts, Places, GroupAt
<1> HIDE DEF all
<1>2. /\ DOMAIN costs = {p \in DOMAIN all : range # AllDates => Within(all[p].start, range)}
      /\ \A p \in DOMAIN costs : costs[p] = all[p]
  BY DEF Filtered, Restrict
<1>3. DOMAIN all = kept
  BY <1>1
<1>4. \A p \in kept :
         /\ all[p].start = raw[p[1]].start
         /\ all[p].service = GroupAt(raw, p).keys[1]
         /\ all[p].usageType = GroupAt(raw, p).keys[2]
         /\ \A t \in CostTypes : all[p].values[t] = Amount(GroupAt(raw, p).amounts, t)
  BY <1>1
<1> HIDE DEF costs
<1>5. DOMAIN costs = {p \in Places(raw) : Counted(raw, range, p)}
  BY <1>2, <1>3, <1>4 DEF Counted
<1>6. \A p \in DOMAIN costs : p \in kept /\ costs[p] = all[p]
  BY <1>2, <1>3
<1>7. \A p \in DOMAIN costs :
         /\ costs[p].start = raw[p[1]].start
         /\ costs[p].service = GroupAt(raw, p).keys[1]
         /\ costs[p].usageType = GroupAt(raw, p).keys[2]
         /\ \A t \in CostTypes : costs[p].values[t] = Amount(GroupAt(raw, p).amounts, t)
  BY <1>4, <1>6
<1>8. QED
  BY <1>5, <1>7, Zenon DEF AreEntries, costs, all

\* Finitely many entries, with whole amounts.
IsCosts(costs) ==
    /\ IsFiniteSet(DOMAIN costs)
    /\ \A p \in DOMAIN costs : \A t \in CostTypes : costs[p].values[t] \in Int

\* The entries made of what was returned are such.
LEMMA EntriesAreCosts ==
  ASSUME NEW raw \in CostResults, NEW range
  PROVE  IsCosts(Filtered(flattenCosts(raw), range))
<1> DEFINE costs == Filtered(flattenCosts(raw), range)
<1>0. AreEntries(costs, raw, range)
  BY CostEntries
<1> HIDE DEF costs
<1>1. /\ DOMAIN costs = {p \in Places(raw) : Counted(raw, range, p)}
      /\ \A p \in DOMAIN costs : \A t \in CostTypes : costs[p].values[t] = Amount(GroupAt(raw, p).amounts, t)
  BY <1>0 DEF AreEntries
<1>2. IsFiniteSet(DOMAIN costs)
  <2>1. DOMAIN costs \in SUBSET Places(raw)
    BY <1>1
  <2>2. QED
    BY <2>1, PlacesFinite, FS_Subset
<1>3. \A p \in Places(raw) : \A t \in CostTypes : Amount(GroupAt(raw, p).amounts, t) \in Int
  <2> TAKE p \in Places(raw)
  <2> TAKE t \in CostTypes
  <2>1. PICK i \in DOMAIN raw : p \in {i} \X DOMAIN raw[i].groups
    BY DEF Places
  <2>2. p[1] = i /\ p[2] \in DOMAIN raw[i].groups
    BY <2>1
  <2>3. GroupAt(raw, p).amounts \in [CostTypes -> Int \cup {NoAmount}]
    BY <2>2, CostsTyped DEF GroupAt
  <2>4. QED
    BY <2>3 DEF Amount
<1>4. IsCosts(costs)
  BY <1>1, <1>2, <1>3 DEF IsCosts
<1>5. QED
  BY <1>4 DEF costs

\* The amounts of the entries, counted in one way.
Amounts(costs, type) == [i \in DOMAIN costs |-> costs[i].values[type]]

\* The statistics of a usage type add its entries up.
LEMMA RowSum ==
  ASSUME NEW costs, IsCosts(costs), NEW s \in Services, NEW t \in CostTypes, NEW u \in UsageTypes(costs, s)
  PROVE  calculateCostAggregates(costs)[s][t].rows[u].sum = Sum(Amounts(costs, t), Group(costs, s, u))
<1> DEFINE G == Group(costs, s, u)
           values == ValuesOf(costs, G, t)
<1>1. calculateCostAggregates(costs)[s][t].rows[u] = Statistics(values)
  BY DEF calculateCostAggregates
<1>2. G \subseteq DOMAIN costs /\ IsFiniteSet(G)
  BY FS_Subset DEF Group, IsCosts
<1> HIDE DEF G
<1>3. DOMAIN values = G /\ \A i \in G : values[i] = Amounts(costs, t)[i]
  BY <1>2 DEF ValuesOf, Amounts
<1> HIDE DEF values
<1>4. Statistics(values).sum = Sum(values, G)
  BY <1>3 DEF Statistics
<1>5. Sum(values, G) = Sum(Amounts(costs, t), G)
  BY <1>2, <1>3, SumSame
<1>6. QED
  BY <1>1, <1>4, <1>5 DEF G

\* The total of a row of the cost table is the sum of its cells.
LEMMA RowsAddUp ==
  ASSUME NEW costs, IsCosts(costs), \A p \in DOMAIN costs : costs[p].service \in Services, NEW t \in CostTypes,
         NEW row \in CostTable([results |-> costs, aggregates |-> calculateCostAggregates(costs)], t)
  PROVE  row.total = Sum(row.values, DOMAIN row.values)
<1> DEFINE days == {costs[i].start : i \in DOMAIN costs}
           answer == [results |-> costs, aggregates |-> calculateCostAggregates(costs)]
           cell(s, u, d) == Sum(Amounts(costs, t), {i \in Group(costs, s, u) : costs[i].start = d})
           line(s, u) == [service |-> s, usageType |-> u, values |-> [d \in days |-> cell(s, u, d)],
                          total |-> answer.aggregates[s][t].rows[u].sum]
<1>1. CostTable(answer, t) = {line(costs[i].service, costs[i].usageType) : i \in DOMAIN costs}
  BY DEF CostTable, Amounts
<1>2. PICK i \in DOMAIN costs : row = line(costs[i].service, costs[i].usageType)
  BY <1>1
<1> DEFINE s == costs[i].service
           u == costs[i].usageType
           G == Group(costs, s, u)
           A == Amounts(costs, t)
           start == [p \in DOMAIN costs |-> costs[p].start]
<1>3. s \in Services /\ u \in UsageTypes(costs, s)
  BY DEF UsageTypes
<1>4. row.values = [d \in days |-> Sum(A, {p \in G : costs[p].start = d})] /\ DOMAIN row.values = days
      /\ row.total = calculateCostAggregates(costs)[s][t].rows[u].sum
  BY <1>2
<1>5. row.total = Sum(A, G)
  BY <1>3, <1>4, RowSum
<1>6. IsFiniteSet(G) /\ G \subseteq DOMAIN costs /\ \A p \in G : A[p] \in Int /\ start[p] \in days
  BY FS_Subset DEF Group, IsCosts, Amounts
<1>7. IsFiniteSet(days)
  <2>1. days = {start[p] : p \in DOMAIN costs}
    OBVIOUS
  <2>2. IsFiniteSet({start[p] : p \in DOMAIN costs})
    BY FiniteImage DEF IsCosts
  <2>3. QED
    BY <2>1, <2>2
<1>8. \A d : {p \in G : costs[p].start = d} = {p \in G : start[p] = d}
  BY <1>6
<1> HIDE DEF days, G, A, start
<1>9. row.values = [d \in days |-> Sum(A, {p \in G : start[p] = d})]
  BY <1>4, <1>8
<1>10. Sum([d \in days |-> Sum(A, {p \in G : start[p] = d})], days) = Sum(A, G)
  BY <1>6, <1>7, SumByGroups
<1>11. QED
  BY <1>4, <1>5, <1>9, <1>10

\* The total of a service adds all its entries up.
LEMMA ServiceTotals ==
  ASSUME NEW costs, IsCosts(costs), NEW s \in Services, NEW t \in CostTypes
  PROVE  ServiceTotal(calculateCostAggregates(costs)[s][t].rows)
            = Sum(Amounts(costs, t), {p \in DOMAIN costs : costs[p].service = s})
<1> DEFINE rows == calculateCostAggregates(costs)[s][t].rows
           S == {p \in DOMAIN costs : costs[p].service = s}
           D == UsageTypes(costs, s)
           A == Amounts(costs, t)
           usage == [p \in DOMAIN costs |-> costs[p].usageType]
<1>1. DOMAIN rows = D
  BY DEF calculateCostAggregates
<1>2. \A u \in D : rows[u].sum = Sum(A, Group(costs, s, u))
  BY RowSum
<1>3. IsFiniteSet(S) /\ \A p \in S : A[p] \in Int /\ usage[p] \in D
  BY FS_Subset DEF IsCosts, Amounts, UsageTypes
<1>4. IsFiniteSet(D)
  <2>1. D = {usage[p] : p \in S}
    BY DEF UsageTypes
  <2>2. IsFiniteSet({usage[p] : p \in S})
    BY <1>3, FiniteImage
  <2>3. QED
    BY <2>1, <2>2
<1>5. \A u : Group(costs, s, u) = {p \in S : usage[p] = u}
  BY DEF Group
<1> HIDE DEF rows, S, D, A, usage
<1>6. [u \in D |-> rows[u].sum] = [u \in D |-> Sum(A, {p \in S : usage[p] = u})]
  BY <1>2, <1>5
<1>7. Sum([u \in D |-> Sum(A, {p \in S : usage[p] = u})], D) = Sum(A, S)
  BY <1>3, <1>4, SumByGroups
<1>8. ServiceTotal(rows) = Sum(A, S)
  BY <1>1, <1>6, <1>7 DEF ServiceTotal
<1>9. QED
  BY <1>8 DEF rows, S, A

\* What was returned for a service, period by period, is what its entries
\* add up to.
LEMMA ReturnedAddsUp ==
  ASSUME NEW raw \in CostResults, NEW range \in DateRanges, NoCostsOn(raw, range.end), NEW s \in Services, NEW t \in CostTypes
  PROVE  LET costs == Filtered(flattenCosts(raw), range)
         IN  Returned(raw, range, s, t) = Sum(Amounts(costs, t), {p \in DOMAIN costs : costs[p].service = s})
<1> DEFINE costs == Filtered(flattenCosts(raw), range)
           S == {p \in DOMAIN costs : costs[p].service = s}
           P == Places(raw)
           J(i) == DOMAIN raw[i].groups
           amount(p) == IF Counted(raw, range, p) /\ GroupAt(raw, p).keys[1] = s
                        THEN Amount(GroupAt(raw, p).amounts, t) ELSE 0
           A == [p \in P |-> amount(p)]
           left == [p \in P |-> p[1]]
<1>0. AreEntries(costs, raw, range)
  BY CostEntries
<1>2. IsCosts(costs)
  BY EntriesAreCosts
<1> HIDE DEF costs
<1>1. /\ DOMAIN costs = {p \in P : Counted(raw, range, p)}
      /\ \A p \in DOMAIN costs : /\ costs[p].service = GroupAt(raw, p).keys[1]
                                 /\ costs[p].values[t] = Amount(GroupAt(raw, p).amounts, t)
  BY <1>0 DEF AreEntries
<1> HIDE DEF P
<1>3. \A p \in S : p \in P /\ A[p] = Amounts(costs, t)[p] /\ A[p] \in Int
  BY <1>1, <1>2 DEF IsCosts, Amounts
<1>4. \A p \in P \ S : A[p] = 0
  BY <1>1
<1>5. \A i \in DOMAIN raw : \A j \in J(i) : <<i, j>> \in P
  <2> TAKE i \in DOMAIN raw
  <2> TAKE j \in J(i)
  <2>1. <<i, j>> \in {i} \X DOMAIN raw[i].groups
    OBVIOUS
  <2>2. QED
    BY <2>1 DEF P, Places
<1>6. \A p \in P : p[1] \in DOMAIN raw /\ p[2] \in J(p[1]) /\ p = <<p[1], p[2]>>
  <2> TAKE p \in P
  <2>1. PICK i \in DOMAIN raw : p \in {i} \X DOMAIN raw[i].groups
    BY DEF P, Places
  <2>2. QED
    BY <2>1
<1>7. \A i \in DOMAIN raw : {i} \X J(i) = {p \in P : left[p] = i}
  <2> TAKE i \in DOMAIN raw
  <2>1. \A p \in {i} \X J(i) : p \in P /\ p[1] = i
    BY <1>5
  <2>2. \A p \in P : p[1] = i => p \in {i} \X J(i)
    BY <1>6
  <2>3. QED
    BY <2>1, <2>2
<1>8. \A p \in P : A[p] \in Int
  <2> HIDE DEF A, S
  <2>1. QED
    BY <1>3, <1>4
<1>9. Returned(raw, range, s, t) = Sum([i \in DOMAIN raw |-> Sum([j \in J(i) |-> amount(<<i, j>>)], J(i))], DOMAIN raw)
  <2> DEFINE chosen(start) == /\ start # NoTime
                              /\ range.start = NoDate \/ range.start <= start
                              /\ range.end = NoDate \/ start < range.end
             counted(i, j) ==
                /\ Len(raw[i].groups[j].keys) >= 2 /\ raw[i].groups[j].keys[1] = s
                /\ raw[i].start # NoPeriod /\ (range # AllDates => chosen(raw[i].start))
             group(i, j) == IF counted(i, j) THEN Amount(raw[i].groups[j].amounts, t) ELSE 0
  <2>1. \A i \in DOMAIN raw : \A j \in J(i) : group(i, j) = amount(<<i, j>>)
    <3> TAKE i \in DOMAIN raw
    <3> TAKE j \in J(i)
    <3>1. raw[i].start \in Int \cup {NoTime, NoPeriod} /\ raw[i].start # range.end
      <4>1. raw[i].groups # <<>>
        OBVIOUS
      <4>2. QED
        BY <4>1, CostsTyped DEF NoCostsOn
    <3>2. range.start \in Int \cup {NoDate} /\ range.end \in Int \cup {NoDate}
      BY DEF DateRanges
    <3>3. raw[i].start # NoPeriod => (chosen(raw[i].start) <=> Within(raw[i].start, range))
      BY <3>1, <3>2 DEF Within
    <3> HIDE DEF chosen
    <3>4. counted(i, j) <=> Counted(raw, range, <<i, j>>) /\ GroupAt(raw, <<i, j>>).keys[1] = s
      BY <3>3 DEF Counted, GroupAt
    <3>5. QED
      BY <3>4 DEF GroupAt
  <2>2. Returned(raw, range, s, t) = Sum([i \in DOMAIN raw |-> Sum([j \in J(i) |-> group(i, j)], J(i))], DOMAIN raw)
    BY DEF Returned
  <2> HIDE DEF group, amount, J
  <2>3. \A i \in DOMAIN raw : [j \in J(i) |-> group(i, j)] = [j \in J(i) |-> amount(<<i, j>>)]
    BY <2>1
  <2>4. [i \in DOMAIN raw |-> Sum([j \in J(i) |-> group(i, j)], J(i))]
           = [i \in DOMAIN raw |-> Sum([j \in J(i) |-> amount(<<i, j>>)], J(i))]
    BY <2>3
  <2>5. QED
    BY <2>2, <2>4
<1>10. \A i \in DOMAIN raw : [j \in J(i) |-> amount(<<i, j>>)] = [j \in J(i) |-> A[<<i, j>>]]
  BY <1>5
<1>11. IsFiniteSet(P) /\ IsFiniteSet(DOMAIN raw) /\ \A i \in DOMAIN raw : IsFiniteSet(J(i))
  BY PlacesFinite, CostsTyped DEF P
<1>12. IsFiniteSet(S) /\ S \subseteq P
  BY <1>3, <1>11, FS_Subset
<1>13. \A p \in P : left[p] \in DOMAIN raw
  BY <1>6
<1> HIDE DEF amount, A, left, J, S
<1>14. \A i \in DOMAIN raw : Sum([j \in J(i) |-> amount(<<i, j>>)], J(i)) = Sum(A, {p \in P : left[p] = i})
  <2> TAKE i \in DOMAIN raw
  <2>1. \A j \in J(i) : A[<<i, j>>] \in Int
    BY <1>5, <1>8
  <2>2. Sum(A, {i} \X J(i)) = Sum([j \in J(i) |-> A[<<i, j>>]], J(i))
    BY <1>11, <2>1, SumOfPairs
  <2>3. QED
    BY <1>7, <1>10, <2>2
<1>15. [i \in DOMAIN raw |-> Sum([j \in J(i) |-> amount(<<i, j>>)], J(i))]
          = [i \in DOMAIN raw |-> Sum(A, {p \in P : left[p] = i})]
  BY <1>14
<1>16. Sum([i \in DOMAIN raw |-> Sum(A, {p \in P : left[p] = i})], DOMAIN raw) = Sum(A, P)
  <2>1. \A D : IsFiniteSet(D) /\ (\A p \in P : left[p] \in D) =>
           Sum([i \in D |-> Sum(A, {p \in P : left[p] = i})], D) = Sum(A, P)
    BY <1>8, <1>11, SumByGroups
  <2>2. QED
    BY <1>11, <1>13, <2>1, Zenon
<1>17. Sum(A, P) = Sum(A, S)
  BY <1>3, <1>4, <1>11, <1>12, SumWithin
<1>18. Sum(A, S) = Sum(Amounts(costs, t), S)
  BY <1>3, <1>12, SumSame
<1>19. QED
  BY <1>9, <1>15, <1>16, <1>17, <1>18 DEF S, costs

\* The totals of a region's answer.
LEMMA RegionAddsUp ==
  ASSUME NEW raw \in CostResults, NEW range \in DateRanges, NEW t \in CostTypes,
         \A i \in DOMAIN raw : \A j \in DOMAIN raw[i].groups :
            Len(raw[i].groups[j].keys) >= 2 => raw[i].groups[j].keys[1] \in Services
  PROVE  LET answer == FilterRegionCosts(raw, range)
         IN  /\ \A row \in CostTable(answer, t) : row.total = Sum(row.values, DOMAIN row.values)
             /\ NoCostsOn(raw, range.end) =>
                   /\ \A s \in Services : answer.aggregates[s][t].total = Returned(raw, range, s, t)
                   /\ calculateRegionTotals(answer, t) = Returned(raw, range, MskService, t)
<1> DEFINE costs == Filtered(flattenCosts(raw), range)
           aggregates == calculateCostAggregates(costs)
           answer == [results |-> costs, aggregates |-> aggregates]
<1>1. FilterRegionCosts(raw, range) = answer
  BY Zenon DEF FilterRegionCosts
<1>2. AreEntries(costs, raw, range) /\ IsCosts(costs)
  BY CostEntries, EntriesAreCosts
<1>3. NoCostsOn(raw, range.end) => \A s \in Services :
         Returned(raw, range, s, t) = Sum(Amounts(costs, t), {p \in DOMAIN costs : costs[p].service = s})
  BY ReturnedAddsUp
<1> HIDE DEF costs
<1>4. \A p \in DOMAIN costs : costs[p].service \in Services
  <2> TAKE p \in DOMAIN costs
  <2>1. p \in Places(raw) /\ Len(GroupAt(raw, p).keys) >= 2 /\ costs[p].service = GroupAt(raw, p).keys[1]
    BY <1>2 DEF AreEntries, Counted
  <2>2. PICK i \in DOMAIN raw : p \in {i} \X DOMAIN raw[i].groups
    BY <2>1 DEF Places
  <2>3. p[1] = i /\ p[2] \in DOMAIN raw[i].groups
    BY <2>2
  <2>4. QED
    BY <2>1, <2>3 DEF GroupAt
<1>5. \A row \in CostTable(answer, t) : row.total = Sum(row.values, DOMAIN row.values)
  BY <1>2, <1>4, RowsAddUp
<1>6. ASSUME NoCostsOn(raw, range.end), NEW s \in Services
      PROVE  /\ answer.aggregates[s][t].total = Returned(raw, range, s, t)
             /\ s = MskService => calculateRegionTotals(answer, t) = Returned(raw, range, s, t)
  <2> DEFINE rows == aggregates[s][t].rows
  <2>1. ServiceTotal(rows) = Returned(raw, range, s, t)
    BY <1>2, <1>3, <1>6, ServiceTotals
  <2>2. answer.aggregates[s][t].total = ServiceTotal(rows)
    BY DEF calculateCostAggregates
  <2>3. s = MskService => calculateRegionTotals(answer, t) = ServiceTotal(rows)
    <3>1. answer.aggregates = aggregates
      OBVIOUS
    <3> HIDE DEF answer, aggregates
    <3>2. QED
      BY <3>1, Zenon DEF calculateRegionTotals, ServiceTotal
  <2>4. QED
    BY <2>1, <2>2, <2>3
<1> HIDE DEF answer
<1>7. MskService \in Services
  BY ExploreAssumption
<1>8. QED
  BY <1>1, <1>5, <1>6, <1>7

(* Every total of a region's cost table is the sum of its row, and the     *)
(* totals of a service on the page, and of MSK in the command's report,    *)
(* are those of the amounts Cost Explorer returned for it from the start   *)
(* until before the end of the chosen dates, when none are of the end date *)
(* (useRegionCostsData, calculateCostAggregates, calculateRegionTotals).   *)
THEOREM TotalsAreExact == Spec => []CostTableAddsUp
<1>1. PageInv /\ DatesInv => CostTableAddsUp
  <2> SUFFICES ASSUME PageInv, DatesInv, response.kind = "region" PROVE CostTableAddsUp
    BY DEF CostTableAddsUp
  <2> DEFINE raw == RawCosts[response.version][response.of]
  <2>1. Served(response.version, "region", response.of)
    <3>1. response # NoResponse
      BY DEF NoResponse
    <3>2. QED
      BY <3>1, Zenon DEF PageInv, RequestInv
  <2>2. response.version \in Versions /\ response.of \in DOMAIN RawCosts[response.version]
    BY <2>1 DEF Served, Has
  <2>3. /\ raw \in CostResults
        /\ \A i \in DOMAIN raw : \A j \in DOMAIN raw[i].groups :
              Len(raw[i].groups[j].keys) >= 2 => raw[i].groups[j].keys[1] \in Services
    BY <2>2, ExploreAssumption, Zenon
  <2>4. handleGetCosts(response) = FilterRegionCosts(raw, response.dates)
    BY DEF handleGetCosts
  <2> HIDE DEF raw
  <2>5. \A t \in CostTypes :
           LET answer == FilterRegionCosts(raw, response.dates)
           IN  /\ \A row \in CostTable(answer, t) : row.total = Sum(row.values, DOMAIN row.values)
               /\ NoCostsOn(raw, response.dates.end) =>
                     /\ \A s \in Services : answer.aggregates[s][t].total = Returned(raw, response.dates, s, t)
                     /\ calculateRegionTotals(answer, t) = Returned(raw, response.dates, MskService, t)
    BY <2>3, RegionAddsUp DEF DatesInv
  <2>6. QED
    BY <2>4, <2>5, Zenon DEF CostTableAddsUp, raw
<1>2. QED
  BY <1>1, PageInvariance, DatesInvariance, PTL

-----------------------------------------------------------------------------
(* The values transferred to the TCO inputs.                               *)

\* The lesser of two numbers.
LEMMA LesserOfTwo ==
  ASSUME NEW m \in Nat, NEW n \in Nat
  PROVE  Min({m, n}) \in Nat /\ 1..Min({m, n}) = (1..m) \cap (1..n)
<1>1. \E x \in {m, n} : \A y \in {m, n} : x <= y
  OBVIOUS
<1>2. Min({m, n}) \in {m, n} /\ \A y \in {m, n} : Min({m, n}) <= y
  BY <1>1, Zenon DEF Min
<1>3. QED
  BY <1>2

\* A metric's times and values.
LEMMA MetricTyped ==
  ASSUME NEW results \in MetricResults, NEW i \in DOMAIN results
  PROVE  results[i].values \in Seq(Nat) /\ results[i].times \in Seq(Int)
<1> DEFINE S == [label : STRING, times : Seq(Int), values : Seq(Nat)]
<1>1. \A x \in S : x.values \in Seq(Nat) /\ x.times \in Seq(Int)
  OBVIOUS
<1>2. results \in Seq(S)
  BY DEF MetricResults
<1> HIDE DEF S
<1>3. results[i] \in S
  BY <1>2
<1>4. QED
  BY <1>1, <1>3

\* The entries made of a cluster's metrics: its points, and one without time
\* or value for a metric that has none.
LEMMA MetricEntries ==
  ASSUME NEW results \in MetricResults
  PROVE  LET entries == flattenMetrics(results)
         IN  /\ \A p \in DOMAIN entries : \E i \in DOMAIN results, j \in Nat :
                   /\ p = <<i, j>> /\ entries[p].label = results[i].label
                   /\ \/ j = 0 /\ entries[p].value = NoAmount
                      \/ /\ j \in DOMAIN results[i].values /\ j \in DOMAIN results[i].times
                         /\ entries[p].value = results[i].values[j] /\ entries[p].start = results[i].times[j]
             /\ \A i \in DOMAIN results : \A j \in (DOMAIN results[i].values) \cap (DOMAIN results[i].times) :
                   /\ <<i, j>> \in DOMAIN entries /\ entries[<<i, j>>].label = results[i].label
                   /\ entries[<<i, j>>].value = results[i].values[j] /\ entries[<<i, j>>].start = results[i].times[j]
<1> DEFINE entries == flattenMetrics(results)
           points(i) == 1..Min({Len(results[i].times), Len(results[i].values)})
           places == UNION {{i} \X (IF points(i) = {} THEN {0} ELSE points(i)) : i \in DOMAIN results}
           at(f, j, none) == IF j = 0 THEN none ELSE f[j]
<1>1. entries = [p \in places |-> [start |-> at(results[p[1]].times, p[2], NoTime),
                                   label |-> results[p[1]].label,
                                   value |-> at(results[p[1]].values, p[2], NoAmount)]]
  BY Zenon DEF flattenMetrics
<1>2. \A i \in DOMAIN results :
         /\ DOMAIN results[i].values = 1..Len(results[i].values) /\ DOMAIN results[i].times = 1..Len(results[i].times)
         /\ points(i) = (DOMAIN results[i].values) \cap (DOMAIN results[i].times)
         /\ points(i) \subseteq Nat \ {0}
  <2> TAKE i \in DOMAIN results
  <2>2. results[i].values \in Seq(Nat) /\ results[i].times \in Seq(Int)
    BY MetricTyped
  <2>3. /\ DOMAIN results[i].values = 1..Len(results[i].values) /\ DOMAIN results[i].times = 1..Len(results[i].times)
        /\ Len(results[i].values) \in Nat /\ Len(results[i].times) \in Nat
    BY <2>2
  <2>4. points(i) = (1..Len(results[i].times)) \cap (1..Len(results[i].values))
    BY <2>3, LesserOfTwo
  <2> HIDE DEF points
  <2>5. points(i) = (DOMAIN results[i].values) \cap (DOMAIN results[i].times)
    BY <2>3, <2>4
  <2>6. points(i) \subseteq Nat \ {0}
    BY <2>3, <2>4
  <2>7. QED
    BY <2>3, <2>5, <2>6
<1> HIDE DEF entries, points
<1>3. \A p \in DOMAIN entries : \E i \in DOMAIN results, j \in Nat :
         p = <<i, j>> /\ (j \in points(i) \/ j = 0)
  <2> TAKE p \in DOMAIN entries
  <2>1. PICK i \in DOMAIN results : p \in {i} \X (IF points(i) = {} THEN {0} ELSE points(i))
    BY <1>1
  <2>2. PICK j \in (IF points(i) = {} THEN {0} ELSE points(i)) : p = <<i, j>>
    <3> DEFINE T == IF points(i) = {} THEN {0} ELSE points(i)
    <3>1. p \in {i} \X T
      BY <2>1
    <3> HIDE DEF T
    <3>2. \E j \in T : p = <<i, j>>
      BY <3>1
    <3>3. QED
      BY <3>2 DEF T
  <2>3. QED
    BY <1>2, <2>2
<1>4. \A i \in DOMAIN results : \A j \in points(i) : <<i, j>> \in DOMAIN entries
  <2> TAKE i \in DOMAIN results
  <2> TAKE j \in points(i)
  <2>1. <<i, j>> \in {i} \X (IF points(i) = {} THEN {0} ELSE points(i))
    OBVIOUS
  <2>2. <<i, j>> \in places
    BY <2>1
  <2>3. QED
    BY <1>1, <2>2
<1>5. \A i, j : <<i, j>> \in DOMAIN entries =>
         /\ entries[<<i, j>>].label = results[i].label
         /\ entries[<<i, j>>].value = at(results[i].values, j, NoAmount)
         /\ entries[<<i, j>>].start = at(results[i].times, j, NoTime)
  BY <1>1
<1>6. \A p \in DOMAIN entries : \E i \in DOMAIN results, j \in Nat :
         /\ p = <<i, j>> /\ entries[p].label = results[i].label
         /\ \/ j = 0 /\ entries[p].value = NoAmount
            \/ /\ j \in DOMAIN results[i].values /\ j \in DOMAIN results[i].times
               /\ entries[p].value = results[i].values[j] /\ entries[p].start = results[i].times[j]
  <2> TAKE p \in DOMAIN entries
  <2>1. PICK i \in DOMAIN results, j \in Nat : p = <<i, j>> /\ (j \in points(i) \/ j = 0)
    BY <1>3
  <2>2. CASE j = 0
    BY <1>5, <2>1, <2>2
  <2>3. CASE j # 0
    BY <1>2, <1>5, <2>1, <2>3
  <2>4. QED
    BY <2>2, <2>3
<1>7. \A i \in DOMAIN results : \A j \in (DOMAIN results[i].values) \cap (DOMAIN results[i].times) :
         /\ <<i, j>> \in DOMAIN entries /\ entries[<<i, j>>].label = results[i].label
         /\ entries[<<i, j>>].value = results[i].values[j] /\ entries[<<i, j>>].start = results[i].times[j]
  <2> TAKE i \in DOMAIN results
  <2> TAKE j \in (DOMAIN results[i].values) \cap (DOMAIN results[i].times)
  <2>1. j \in points(i) /\ j # 0
    BY <1>2
  <2>2. QED
    BY <1>4, <1>5, <2>1
<1>8. QED
  BY <1>6, <1>7 DEF entries

\* The points of a metric are finitely many numbers.
LEMMA PointsFinite ==
  ASSUME NEW results \in MetricResults, NEW range, NEW metric
  PROVE  LET own == OwnPoints(results, metric, range)
         IN  IsFiniteSet(DOMAIN own) /\ \A p \in DOMAIN own : own[p] \in Nat
<1> DEFINE at == [i \in DOMAIN results |-> {i} \X DOMAIN results[i].values]
           places == {at[i] : i \in DOMAIN results}
           own == OwnPoints(results, metric, range)
<1>1. IsFiniteSet(DOMAIN results)
  <2> DEFINE S == [label : STRING, times : Seq(Int), values : Seq(Nat)]
  <2>1. results \in Seq(S)
    BY DEF MetricResults
  <2> HIDE DEF S
  <2>2. DOMAIN results = 1..Len(results) /\ Len(results) \in Nat
    BY <2>1
  <2>3. QED
    BY <2>2, FS_Interval
<1>2. \A i \in DOMAIN results :
         IsFiniteSet(DOMAIN results[i].values) /\ \A j \in DOMAIN results[i].values : results[i].values[j] \in Nat
  <2> TAKE i \in DOMAIN results
  <2>1. results[i].values \in Seq(Nat)
    BY MetricTyped
  <2>2. /\ DOMAIN results[i].values = 1..Len(results[i].values) /\ Len(results[i].values) \in Nat
        /\ \A j \in DOMAIN results[i].values : results[i].values[j] \in Nat
    BY <2>1
  <2>3. QED
    BY <2>2, FS_Interval
<1>3. \A i \in DOMAIN results : at[i] = {i} \X DOMAIN results[i].values /\ IsFiniteSet(at[i])
  BY <1>2, FS_Singleton, FS_Product
<1>4. places = {{i} \X DOMAIN results[i].values : i \in DOMAIN results}
  OBVIOUS
<1>5. /\ DOMAIN own \subseteq UNION places
      /\ \A p \in DOMAIN own : own[p] = results[p[1]].values[p[2]]
  BY <1>4, Zenon DEF OwnPoints
<1>6. IsFiniteSet(UNION places)
  <2>1. \A T \in places : IsFiniteSet(T)
    BY <1>3
  <2> HIDE DEF at
  <2>2. IsFiniteSet(places)
    BY <1>1, FiniteImage
  <2> HIDE DEF places
  <2>3. QED
    BY <2>1, <2>2, FS_UNION
<1>7. \A p \in UNION places : \E i \in DOMAIN results : p[1] = i /\ p[2] \in DOMAIN results[i].values
  <2> TAKE p \in UNION places
  <2>1. PICK i \in DOMAIN results : p \in {i} \X DOMAIN results[i].values
    BY <1>4
  <2>2. QED
    BY <2>1
<1> HIDE DEF places, own
<1>8. \A p \in DOMAIN own : own[p] \in Nat
  BY <1>2, <1>5, <1>7
<1>9. QED
  BY <1>5, <1>6, <1>8, FS_Subset DEF own

\* What the answer has of a metric, its points, is what is aggregated.
LEMMA OwnEntries ==
  \A results \in MetricResults : \A range, metric, metrics :
     metrics = Filtered(flattenMetrics(results), range) =>
        LET own == OwnPoints(results, metric, range)
        IN  /\ \A q : q \in DOMAIN own <=> (q \in DOMAIN metrics /\ metrics[q].value # NoAmount /\ metrics[q].label = metric)
            /\ \A p \in DOMAIN own : own[p] = metrics[p].value
<1>1. NoAmount \notin Int
  BY ExploreAssumption
<1> TAKE results \in MetricResults
<1> TAKE range, metric, metrics
<1> HAVE metrics = Filtered(flattenMetrics(results), range)
<1> DEFINE entries == flattenMetrics(results)
           of == {p \in DOMAIN metrics : metrics[p].value # NoAmount /\ metrics[p].label = metric}
           own == OwnPoints(results, metric, range)
           places == UNION {{i} \X DOMAIN results[i].values : i \in DOMAIN results}
           belongs(i, j) == /\ results[i].label = metric /\ j \in DOMAIN results[i].times
                            /\ range # AllDates => Within(results[i].times[j], range)
           mine == {p \in places : belongs(p[1], p[2])}
<1>2. own = [p \in mine |-> results[p[1]].values[p[2]]]
  BY Zenon DEF OwnPoints
<1>3. /\ DOMAIN metrics = {p \in DOMAIN entries : range # AllDates => Within(entries[p].start, range)}
      /\ \A p \in DOMAIN metrics : metrics[p] = entries[p]
  BY Zenon DEF Filtered, Restrict
<1>4. /\ \A p \in DOMAIN entries : \E i \in DOMAIN results, j \in Nat :
            /\ p = <<i, j>> /\ entries[p].label = results[i].label
            /\ \/ j = 0 /\ entries[p].value = NoAmount
               \/ /\ j \in DOMAIN results[i].values /\ j \in DOMAIN results[i].times
                  /\ entries[p].value = results[i].values[j] /\ entries[p].start = results[i].times[j]
      /\ \A i \in DOMAIN results : \A j \in (DOMAIN results[i].values) \cap (DOMAIN results[i].times) :
            /\ <<i, j>> \in DOMAIN entries /\ entries[<<i, j>>].label = results[i].label
            /\ entries[<<i, j>>].value = results[i].values[j] /\ entries[<<i, j>>].start = results[i].times[j]
  BY MetricEntries
<1>5. \A i \in DOMAIN results : \A j \in DOMAIN results[i].values : results[i].values[j] # NoAmount
  <2> TAKE i \in DOMAIN results
  <2>1. results[i].values \in Seq(Nat)
    BY MetricTyped
  <2>2. QED
    BY <1>1, <2>1
<1> HIDE DEF entries
<1>6. ASSUME NEW p \in of
      PROVE  p \in mine /\ metrics[p].value = results[p[1]].values[p[2]]
  <2>1. p \in DOMAIN entries /\ metrics[p] = entries[p] /\ (range # AllDates => Within(entries[p].start, range))
    BY <1>3
  <2>2. PICK i \in DOMAIN results, j \in Nat :
            /\ p = <<i, j>> /\ entries[p].label = results[i].label
            /\ \/ j = 0 /\ entries[p].value = NoAmount
               \/ /\ j \in DOMAIN results[i].values /\ j \in DOMAIN results[i].times
                  /\ entries[p].value = results[i].values[j] /\ entries[p].start = results[i].times[j]
    BY <1>4, <2>1
  <2>3. /\ j \in DOMAIN results[i].values /\ j \in DOMAIN results[i].times /\ results[i].label = metric
        /\ entries[p].value = results[i].values[j] /\ entries[p].start = results[i].times[j]
    BY <2>1, <2>2
  <2>4. p \in {i} \X DOMAIN results[i].values /\ p[1] = i /\ p[2] = j
    BY <2>2, <2>3
  <2>5. p \in places
    BY <2>4
  <2>6. belongs(p[1], p[2])
    BY <2>1, <2>3, <2>4
  <2>7. QED
    BY <2>1, <2>3, <2>4, <2>5, <2>6
<1>7. ASSUME NEW p \in mine
      PROVE  p \in of
  <2>1. PICK i \in DOMAIN results : p \in {i} \X DOMAIN results[i].values
    OBVIOUS
  <2>2. PICK j \in DOMAIN results[i].values : p = <<i, j>>
    BY <2>1
  <2>3. belongs(i, j)
    BY <2>2
  <2>4. /\ p \in DOMAIN entries /\ entries[p].label = results[i].label
        /\ entries[p].value = results[i].values[j] /\ entries[p].start = results[i].times[j]
    BY <1>4, <2>2, <2>3
  <2>5. p \in DOMAIN metrics /\ metrics[p] = entries[p]
    BY <1>3, <2>3, <2>4
  <2>6. QED
    BY <1>5, <2>3, <2>4, <2>5
<1>8. of = mine
  BY <1>6, <1>7
<1> HIDE DEF mine, of, own
<1>9. own = [p \in of |-> metrics[p].value]
  BY <1>2, <1>6, <1>8
<1>10. QED
  BY <1>9 DEF own, of

\* The statistics of a metric in an answer are those of its points, of which
\* there are some; a metric with points is in the answer.
LEMMA AggregatesAreOwn ==
  ASSUME NoAmount \notin Int, NEW results \in MetricResults, NEW range, NEW metric
  PROVE  LET answer == FilterMetrics(results, range)
             own == OwnPoints(results, metric, range)
         IN  /\ metric \in DOMAIN answer.aggregates =>
                   DOMAIN own # {} /\ answer.aggregates[metric] = Statistics(own)
             /\ DOMAIN own # {} => metric \in {answer.results[i].label : i \in DOMAIN answer.results}
<1> DEFINE metrics == Filtered(flattenMetrics(results), range)
           valued == {i \in DOMAIN metrics : metrics[i].value # NoAmount}
           of(label) == {i \in valued : metrics[i].label = label}
           own == OwnPoints(results, metric, range)
           answer == FilterMetrics(results, range)
           aggregates == [label \in {metrics[i].label : i \in valued} |-> Statistics([i \in of(label) |-> metrics[i].value])]
<1>1. answer = [results |-> metrics, aggregates |-> aggregates]
  BY Zenon DEF FilterMetrics, calculateMetricsAggregates
<1>2. /\ DOMAIN own = {q \in DOMAIN metrics : metrics[q].value # NoAmount /\ metrics[q].label = metric}
      /\ \A p \in DOMAIN own : own[p] = metrics[p].value
  <2>1. PICK held : held = metrics
    OBVIOUS
  <2>2. held = Filtered(flattenMetrics(results), range)
    BY <2>1
  <2> HIDE DEF valued, of, answer, aggregates, metrics
  <2>3. /\ \A q : q \in DOMAIN own <=> (q \in DOMAIN held /\ held[q].value # NoAmount /\ held[q].label = metric)
        /\ \A p \in DOMAIN own : own[p] = held[p].value
    BY <2>2, OwnEntries
  <2>4. QED
    BY <2>1, <2>3
<1>3. own = [p \in DOMAIN own |-> own[p]]
  BY Zenon DEF OwnPoints
<1>4. of(metric) = {i \in DOMAIN metrics : metrics[i].value # NoAmount /\ metrics[i].label = metric}
  OBVIOUS
<1>5. answer.results = metrics /\ answer.aggregates = aggregates
  BY <1>1
<1> HIDE DEF metrics, own, answer
<1>6. own = [i \in of(metric) |-> metrics[i].value]
  BY <1>2, <1>3, <1>4
<1>7. ASSUME metric \in DOMAIN aggregates
      PROVE  DOMAIN own # {} /\ aggregates[metric] = Statistics(own)
  <2>1. metric \in {metrics[i].label : i \in valued} /\ aggregates[metric] = Statistics([i \in of(metric) |-> metrics[i].value])
    BY <1>7
  <2>2. PICK i \in valued : metrics[i].label = metric
    BY <2>1
  <2>3. i \in of(metric)
    BY <2>2
  <2>4. QED
    BY <1>6, <2>1, <2>3
<1>8. DOMAIN own # {} => metric \in {metrics[i].label : i \in DOMAIN metrics}
  BY <1>6
<1>9. QED
  BY <1>5, <1>7, <1>8 DEF answer, own

\* A finite set of natural numbers that is not empty has a greatest element.
LEMMA GreatestNumber ==
  ASSUME NEW S, S \subseteq Nat, S # {}, IsFiniteSet(S)
  PROVE  \E n \in S : \A m \in S : m <= n
<1> DEFINE Tops(s) == \E n \in s : \A m \in s : m <= n
           T == {s \in SUBSET S : s # {} /\ ~Tops(s)}
<1>1. SUFFICES ASSUME T # {} PROVE FALSE
  OBVIOUS
<1>2. PICK s \in T : \A x \in s : s \ {x} \notin T
  BY <1>1, SmallestSubset
<1>3. PICK x \in s : TRUE
  BY <1>2
<1>4. x \in Nat /\ s \subseteq Nat
  BY <1>3
<1>5. CASE s \ {x} = {}
  BY <1>3, <1>4, <1>5
<1>6. CASE s \ {x} # {}
  <2>1. PICK n \in s \ {x} : \A m \in s \ {x} : m <= n
    BY <1>2, <1>3, <1>6
  <2>2. \E k \in {n, x} : n <= k /\ x <= k
    BY <1>4, <2>1
  <2>3. \E k \in s : \A m \in s : m <= k
    BY <1>3, <1>4, <2>1, <2>2
  <2>4. QED
    BY <2>3
<1>7. QED
  BY <1>5, <1>6

\* What the statistics of some points are, as ratios.
LEMMA StatisticsAreFigures ==
  ASSUME NEW points, IsFiniteSet(DOMAIN points), DOMAIN points # {}, \A p \in DOMAIN points : points[p] \in Nat,
         NEW value \in AggregateStats(Statistics(points))
  PROVE  value \in Figures(points) /\ value.num \in Int /\ value.den \in Nat \ {0}
<1> DEFINE S == Statistics(points)
<1>1. /\ S.sum = Sum(points, DOMAIN points) /\ S.count = Cardinality(DOMAIN points)
      /\ S.max = Max(Range(points)) /\ S.min = Min(Range(points))
  BY DEF Statistics
<1>2. S.sum \in Int /\ S.count \in Nat \ {0}
  <2>1. Sum(points, DOMAIN points) \in Int
    BY SumInt
  <2>2. Cardinality(DOMAIN points) \in Nat /\ Cardinality(DOMAIN points) # 0
    BY FS_CardinalityType, FS_EmptySet
  <2>3. QED
    BY <1>1, <2>1, <2>2
<1>3. S.max \in Int /\ S.min \in Int
  <2>1. Range(points) \subseteq Nat /\ Range(points) # {}
    BY DEF Range
  <2>2. PICK n \in Range(points) : \A m \in Range(points) : n <= m
    BY <2>1, LeastNumber
  <2>3. Min(Range(points)) \in Range(points)
    BY <2>2, Zenon DEF Min
  <2>4. IsFiniteSet(Range(points))
    <3>1. Range(points) = {points[p] : p \in DOMAIN points}
      BY DEF Range
    <3>2. QED
      BY <3>1, FiniteImage
  <2>5. \E n1 \in Range(points) : \A m \in Range(points) : m <= n1
    BY <2>1, <2>4, GreatestNumber
  <2>6. Max(Range(points)) \in Range(points)
    BY <2>5, Zenon DEF Max
  <2>7. QED
    BY <1>1, <2>1, <2>3, <2>6
<1>4. AggregateStats(S) = Figures(points)
  BY <1>1 DEF AggregateStats, Figures
<1> HIDE DEF S
<1>5. value.num \in Int /\ value.den \in Nat \ {0}
  <2>1. value \in AggregateStats(S)
    BY DEF S
  <2>2. QED
    BY <1>2, <1>3, <2>1 DEF AggregateStats
<1>6. QED
  BY <1>4, <1>5 DEF S

\* Rounding gives a nearest whole number.
LEMMA RoundedIsNearest ==
  ASSUME NEW num \in Int, NEW den \in Nat \ {0}
  PROVE  Nearest(Rounded(num, den), num, den)
<1> DEFINE q == (2 * num + den) \div (2 * den)
           r == (2 * num + den) % (2 * den)
<1>1. 2 * num + den \in Int /\ 2 * den \in Nat \ {0}
  OBVIOUS
<1>2. \A a \in Int, b \in Nat \ {0} : a \div b \in Int /\ a % b \in 0..(b - 1) /\ a = b * (a \div b) + (a % b)
  <2> TAKE a \in Int, b \in Nat \ {0}
  <2>1. a \div b \in Int
    OBVIOUS
  <2>2. a % b \in 0..(b - 1)
    OBVIOUS
  <2>3. a = b * (a \div b) + (a % b)
    OBVIOUS
  <2>4. QED
    BY <2>1, <2>2, <2>3
<1>3. q \in Int /\ r \in 0..(2 * den - 1) /\ 2 * num + den = (2 * den) * q + r
  BY <1>1, <1>2
<1> HIDE DEF q, r
<1>4. (2 * den) * q = 2 * (den * q) /\ den * q \in Int
  BY <1>3
<1>5. 2 * (den * q - num) <= den /\ 2 * (num - den * q) <= den
  BY <1>3, <1>4
<1>6. QED
  BY <1>5 DEF Nearest, Rounded, q

\* The value transferred expresses the figure in the field's unit.
LEMMA ConvertedExpresses ==
  ASSUME NEW f, NEW value, value.num \in Int, value.den \in Nat \ {0}
  PROVE  Expresses(f, converted(f, value), value)
<1>1. 100000 * value.num \in Int /\ 1048576 * value.den \in Nat \ {0}
  OBVIOUS
<1>2. QED
  BY <1>1, RoundedIsNearest DEF Expresses, converted

\* The inputs of every cluster are its own, and an open modal is for a field.
OwnInv ==
    /\ tco = [cf \in Clusters \X Fields |-> tco[cf]]
    /\ shown.kind = "modal" => field \in Fields
    /\ TransfersAreOwn

\* What the modal's answer gives a field of its cluster is the cluster's own.
LEMMA ModalGivesItsOwn ==
  ASSUME PageInv, shown.kind = "modal", response # NoResponse,
         NEW metric \in DOMAIN handleGetMetrics(response).aggregates,
         MetricOf[field] \in {handleGetMetrics(response).results[i].label : i \in DOMAIN handleGetMetrics(response).results}
            => metric = MetricOf[field],
         NEW value \in AggregateStats(handleGetMetrics(response).aggregates[metric])
  PROVE  shown.of \in Clusters /\ IsOwn(shown.of, field, [metric |-> metric, value |-> converted(field, value)])
<1> DEFINE c == shown.of
           v == response.version
           results == RawMetrics[v][c]
           range == response.dates
           own(m) == OwnPoints(results, m, range)
           answer == FilterMetrics(results, range)
<1>1. /\ response.of = c /\ range \in Ranges /\ c \in Clusters
      /\ Served(v, "modal", c)
  <2>1. shown # Nothing
    BY DEF Nothing
  <2>2. QED
    BY <2>1, Zenon DEF PageInv, ModalInv, RequestInv, ShownInv, IsComponent
<1>2. v \in Versions /\ c \in DOMAIN RawMetrics[v]
  BY <1>1 DEF Served, Has
<1>3. results \in MetricResults /\ NoAmount \notin Int
  BY <1>2, ExploreAssumption, Zenon
<1>4. handleGetMetrics(response) = answer
  BY <1>1 DEF handleGetMetrics
<1> HIDE DEF results, range
<1>5. \A m : /\ m \in DOMAIN answer.aggregates => DOMAIN own(m) # {} /\ answer.aggregates[m] = Statistics(own(m))
             /\ DOMAIN own(m) # {} => m \in {answer.results[i].label : i \in DOMAIN answer.results}
  <2> TAKE m
  <2>1. QED
    BY <1>3, AggregatesAreOwn
<1>6. IsFiniteSet(DOMAIN own(metric)) /\ \A p \in DOMAIN own(metric) : own(metric)[p] \in Nat
  BY <1>3, PointsFinite
<1> HIDE DEF answer, own
<1>7. DOMAIN own(metric) # {} /\ value \in AggregateStats(Statistics(own(metric)))
  BY <1>4, <1>5
<1>8. metric # MetricOf[field] => DOMAIN own(MetricOf[field]) = {}
  BY <1>4, <1>5
<1>9. value \in Figures(own(metric)) /\ Expresses(field, converted(field, value), value)
  BY <1>6, <1>7, StatisticsAreFigures, ConvertedExpresses
<1>10. IsOwn(c, field, [metric |-> metric, value |-> converted(field, value)])
  <2> DEFINE entry == [metric |-> metric, value |-> converted(field, value)]
  <2>1. entry.metric = metric /\ entry.value = converted(field, value)
    OBVIOUS
  <2> HIDE DEF entry
  <2>2. /\ DOMAIN own(entry.metric) # {}
        /\ entry.metric # MetricOf[field] => DOMAIN own(MetricOf[field]) = {}
        /\ \E figure \in Figures(own(entry.metric)) : Expresses(field, entry.value, figure)
    BY <1>7, <1>8, <1>9, <2>1
  <2>3. v \in {w \in Versions : c \in DOMAIN RawMetrics[w]} /\ range \in Ranges
    BY <1>1, <1>2
  <2>4. IsOwn(c, field, entry)
    BY <2>2, <2>3, Zenon DEF IsOwn, own, results
  <2>5. QED
    BY <2>4 DEF entry
<1>11. QED
  BY <1>1, <1>10

\* Only a transfer changes the inputs.
LEMMA OnlyTransfers ==
  ASSUME [Next]_vars, tco' # tco
  PROVE  Transfer
BY Zenon DEF Next, vars, handleFileUpload, SendUpload, handleUploadState, UploadFails, UploadSucceeds,
             ServerRestarts, Show, openModal, Leave, PickDates, SelectCostType, Answer, Apply, Fail

\* A modal is opened for a field, and has it while it is open.
LEMMA FieldKept ==
  ASSUME [Next]_vars, shown.kind = "modal" => field \in Fields
  PROVE  shown'.kind = "modal" => field' \in Fields
<1>1. \A s, d, r, pending, before, n, error : Render(s, d, r, pending, before, n, error) => shown' = s
  BY DEF Render
<1>2. \A s, d : (Mount(s, d) => shown' = s) /\ (Update(s, d) => shown' = s)
  BY <1>1, Zenon DEF Mount, Update
<1>3. Unmount => shown'.kind # "modal"
  BY <1>2 DEF Unmount, Nothing
<1>4. CASE handleFileUpload \/ Leave
  BY <1>3, <1>4, Zenon DEF handleFileUpload, Leave
<1>5. CASE SendUpload \/ handleUploadState \/ UploadFails \/ ServerRestarts
  BY <1>5, Zenon DEF SendUpload, handleUploadState, UploadFails, ServerRestarts
<1>6. CASE UploadSucceeds
  <2> DEFINE summary == [kind |-> "summary", of |-> "summary", version |-> upload.version]
  <2>1. field' = field /\ (Update(summary, dates) \/ Mount(summary, dates) \/ shown' = shown)
    BY <1>6 DEF UploadSucceeds
  <2>2. summary.kind # "modal"
    OBVIOUS
  <2> HIDE DEF summary
  <2>3. shown' = summary \/ shown' = shown
    BY <1>2, <2>1, Zenon
  <2>4. QED
    BY <2>1, <2>2, <2>3
<1>7. CASE \E p \in Pages : Show(p)
  <2>1. PICK p \in Pages : Show(p)
    BY <1>7
  <2> DEFINE s == [kind |-> p.kind, of |-> p.of, version |-> IF p.kind = "summary" THEN page ELSE 0]
  <2>2. Update(s, dates) \/ Mount(s, dates)
    BY <2>1 DEF Show
  <2>3. s.kind # "modal"
    BY DEF Pages
  <2> HIDE DEF s
  <2>4. shown' = s
    BY <1>2, <2>2, Zenon
  <2>5. QED
    BY <2>3, <2>4
<1>8. CASE \E c \in Clusters, f \in Fields : openModal(c, f)
  BY <1>8 DEF openModal
<1>9. CASE \E range \in PickedDates : PickDates(range)
  BY <1>2, <1>9, Zenon DEF PickDates
<1>10. CASE SelectCostType
  BY <1>1, <1>10, Zenon DEF SelectCostType
<1>11. CASE \E r \in requests : Answer(r) \/ Apply(r) \/ Fail(r)
  BY <1>1, <1>11, Zenon DEF Answer, Apply, Fail
<1>12. CASE Transfer \/ UNCHANGED vars
  BY <1>12, Zenon DEF Transfer, vars
<1>13. QED
  BY <1>4, <1>5, <1>6, <1>7, <1>8, <1>9, <1>10, <1>11, <1>12 DEF Next

LEMMA OwnStep == PageInv /\ OwnInv /\ [Next]_vars => OwnInv'
<1> SUFFICES ASSUME PageInv, OwnInv, [Next]_vars PROVE OwnInv'
  OBVIOUS
<1>1. shown'.kind = "modal" => field' \in Fields
  BY FieldKept DEF OwnInv
<1>2. CASE tco' = tco
  BY <1>1, <1>2, Zenon DEF OwnInv, TransfersAreOwn, IsOwn
<1>3. CASE tco' # tco
  <2>1. Transfer
    BY <1>3, OnlyTransfers
  <2> DEFINE answer == handleGetMetrics(response)
             labels == {answer.results[i].label : i \in DOMAIN answer.results}
             at == <<shown.of, field>>
  <2>2. PICK metric \in DOMAIN answer.aggregates :
          /\ MetricOf[field] \in labels => metric = MetricOf[field]
          /\ \E value \in AggregateStats(answer.aggregates[metric]) :
                tco' = [tco EXCEPT ![at] = [metric |-> metric, value |-> converted(field, value)]]
    BY <2>1, Zenon DEF Transfer
  <2>3. PICK value \in AggregateStats(answer.aggregates[metric]) :
          tco' = [tco EXCEPT ![at] = [metric |-> metric, value |-> converted(field, value)]]
    BY <2>2
  <2> DEFINE entry == [metric |-> metric, value |-> converted(field, value)]
  <2>4. shown.of \in Clusters /\ IsOwn(shown.of, field, entry) /\ field \in Fields
    BY <2>1, <2>2, ModalGivesItsOwn, Zenon DEF Transfer, OwnInv
  <2>5. tco' = [tco EXCEPT ![at] = entry]
    BY <2>3
  <2> HIDE DEF entry
  <2>6. tco' = [cf \in Clusters \X Fields |-> IF cf = at THEN entry ELSE tco[cf]]
    BY <2>5 DEF OwnInv
  <2>7. \A c \in Clusters, f \in Fields : (c = shown.of /\ f = field /\ tco'[<<c, f>>] = entry) \/ tco'[<<c, f>>] = tco[<<c, f>>]
    BY <2>6
  <2>8. \A c \in Clusters, f \in Fields : tco'[<<c, f>>] # NoValue => IsOwn(c, f, tco'[<<c, f>>])
    BY <2>4, <2>7, Zenon DEF OwnInv, TransfersAreOwn
  <2>9. tco' = [cf \in Clusters \X Fields |-> tco'[cf]]
    BY <2>6
  <2>10. QED
    BY <1>1, <2>8, <2>9, Zenon DEF OwnInv, TransfersAreOwn, IsOwn
<1>4. QED
  BY <1>2, <1>3

(* A value transferred to a field of a cluster's inputs is, in the field's *)
(* unit and to its last digit, the least, the greatest or the mean of that *)
(* cluster's own points of a metric in some uploaded state and range of    *)
(* dates, of the field's metric if there are such points                   *)
(* (handleTransferToTCO and the modal's answers).                          *)
THEOREM TransfersComeFromTheirCluster == Spec => []TransfersAreOwn
<1>1. Init => OwnInv
  <2> SUFFICES ASSUME Init PROVE OwnInv
    OBVIOUS
  <2>1. tco = [cf \in Clusters \X Fields |-> NoValue] /\ shown.kind # "modal"
    BY DEF Init, Nothing
  <2>2. \A c \in Clusters, f \in Fields : tco[<<c, f>>] = NoValue
    BY <2>1
  <2>3. tco = [cf \in Clusters \X Fields |-> tco[cf]]
    BY <2>1
  <2>4. QED
    BY <2>1, <2>2, <2>3 DEF OwnInv, TransfersAreOwn
<1>2. PageInv /\ OwnInv /\ [Next]_vars => OwnInv'
  BY OwnStep
<1>3. OwnInv => TransfersAreOwn
  BY DEF OwnInv
<1>4. QED
  BY <1>1, <1>2, <1>3, PageInvariance, PTL DEF Spec

=============================================================================
