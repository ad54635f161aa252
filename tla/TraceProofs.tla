----------------------------- MODULE TraceProofs ------------------------------
(***************************************************************************)
(* Theorems about the trace tool, for any settings and any bounds.         *)
(***************************************************************************)
EXTENDS Trace, SetSums

-----------------------------------------------------------------------------
(* What the adapters come back with.                                       *)

\* What is known of a result of an adapter.
Fitting(a, r) ==
  /\ r \in Result
  /\ r.cost <= r.spent + Rounded(r)
  /\ r.cost + Rounded(r) < r.spent =>
       \/ r.status = "error"
       \/ a \in Metered /\ r.cut /\ r.verify = 0
       \/ a \in Scrapers /\ r.apify = Cap * Row
  /\ r.status = "empty" /\ r.cut => a \in Hushes
  /\ Attributed(a, r) \in Nat
  /\ Attributed(a, r) <= r.cost + Rounded(r) /\ r.cost <= Attributed(a, r) + Rounded(r)
Fits(a, S) == \A o \in S : Fitting(a, o)

\* Results of four kinds of adapter: of a free page, of an actor, of a search before an
\* actor, of a search before the verifier.
Free == {r \in Result : r.cost = 0 /\ r.apify = 0 /\ r.verify = 0 /\ r.spent = 0}
Heard == {r \in Free : r.status = "empty" => ~r.cut}
Paid == {r \in Result : /\ r.cost <= r.spent + Rounded(r) /\ r.verify + r.apify <= r.cost + Rounded(r)
                        /\ r.status = "empty" => ~r.cut}
Searched == {r \in Paid : r.verify = 0 /\ (r.cost + Rounded(r) < r.spent => r.status = "error" \/ r.apify = Cap * Row)}
Acted == {r \in Searched : r.cost <= r.apify + Rounded(r)}
Verdicts == {r \in Paid : r.cost + Rounded(r) < r.spent => r.status = "error" \/ (r.cut /\ r.verify = 0)}

\* Rounding moves a price by half a paisa at most, and nothing where there is none.
LEMMA SlackIs == /\ \A x \in Nat : Slack(x) \in Nat
                 /\ \A r \in Result : Rounded(r) \in Nat
  BY DEF Slack, Rounded, Result
LEMMA RoundFits == \A x \in Nat : Round(x) \in Nat /\ Round(x) <= x + Slack(x) /\ x <= Round(x) + Slack(x)
<1> TAKE x \in Nat
<1> DEFINE q == (x + 5) \div 10
<1>1. q \in Nat /\ 10 * q <= x + 5 /\ x + 5 < 10 * q + 10 /\ (x = 0 => q = 0)
  OBVIOUS
<1>2. Round(x) = q * 10
  BY DEF Round
<1> HIDE DEF q
<1>3. q * 10 = 10 * q
  BY <1>1
<1> QED BY <1>1, <1>2, <1>3 DEF Slack

LEMMA MaxZero == \A x \in Int : Max({0, x}) = IF x >= 0 THEN x ELSE 0
<1> TAKE x \in Int
<1> DEFINE m == IF x >= 0 THEN x ELSE 0
<1>1. m \in {0, x} /\ \A y \in {0, x} : m >= y
  OBVIOUS
<1>2. \A n \in {0, x} : (\A y \in {0, x} : n >= y) => n = m
  OBVIOUS
<1> HIDE DEF m
<1>3. Max({0, x}) = m
  BY <1>1, <1>2 DEF Max
<1> QED BY <1>3 DEF m

\* The four lists of adapters keep apart.
LEMMA ListsApart ==
  /\ \A a \in ApifySerper : a \in Scrapers /\ a \notin Metered /\ a \notin Hushes
  /\ \A a \in Scrapers : a \notin Metered /\ a \notin Hushes
  BY DEF ApifySerper, Scrapers, Metered, Hushes

LEMMA FreeFits == \A r \in Free, a \in AllAdapters : r \in Heard \/ a \in Hushes => Fitting(a, r)
<1> TAKE r \in Free, a \in AllAdapters
<1>1. r \in Result /\ r.cost = 0 /\ r.apify = 0 /\ r.verify = 0 /\ r.spent = 0
  BY DEF Free
<1>2. Max({0, r.cost - r.verify}) = 0 /\ Max({0, 0}) = 0
  BY <1>1, MaxZero
<1>3. Attributed(a, r) = 0 /\ Rounded(r) = 0
  BY <1>1, <1>2 DEF Attributed, Rounded, Slack
<1> QED BY <1>1, <1>3 DEF Fitting, Heard, Result

LEMMA SearchedFits == \A r \in Searched, a \in ApifySerper : Fitting(a, r)
<1> TAKE r \in Searched, a \in ApifySerper
<1>1. /\ r \in Result /\ r.verify = 0 /\ r.cost \in Nat /\ r.apify \in Nat /\ r.apify <= r.cost + Rounded(r)
      /\ r.cost <= r.spent + Rounded(r) /\ (r.status = "empty" => ~r.cut)
      /\ (r.cost + Rounded(r) < r.spent => r.status = "error" \/ r.apify = Cap * Row)
  BY DEF Searched, Paid, Result
<1>2. /\ Max({0, r.cost - r.verify}) = r.cost
      /\ Max({0, r.cost - r.apify}) = IF r.cost - r.apify >= 0 THEN r.cost - r.apify ELSE 0
  BY <1>1, MaxZero
<1>3. Attributed(a, r) = r.verify + (r.apify + IF r.cost - r.apify >= 0 THEN r.cost - r.apify ELSE 0)
  BY <1>1, <1>2, ListsApart DEF Attributed
<1>4. Rounded(r) \in Nat
  BY <1>1, SlackIs
<1>5. Attributed(a, r) \in Nat /\ Attributed(a, r) <= r.cost + Rounded(r) /\ r.cost <= Attributed(a, r) + Rounded(r)
  BY <1>1, <1>3, <1>4
<1> QED BY <1>1, <1>5, ListsApart DEF Fitting

LEMMA ActedFits == \A r \in Acted, a \in Scrapers \ ApifySerper : Fitting(a, r)
<1> TAKE r \in Acted, a \in Scrapers \ ApifySerper
<1>1. /\ r \in Result /\ r.verify = 0 /\ r.cost \in Nat /\ r.apify \in Nat /\ r.apify <= r.cost + Rounded(r)
      /\ r.cost <= r.spent + Rounded(r) /\ r.cost <= r.apify + Rounded(r) /\ (r.status = "empty" => ~r.cut)
      /\ (r.cost + Rounded(r) < r.spent => r.status = "error" \/ r.apify = Cap * Row)
  BY DEF Acted, Searched, Paid, Result
<1>2. Attributed(a, r) = r.verify + r.apify
  BY <1>1, ListsApart DEF Attributed
<1>3. Attributed(a, r) \in Nat /\ Attributed(a, r) <= r.cost + Rounded(r) /\ r.cost <= Attributed(a, r) + Rounded(r)
  BY <1>1, <1>2
<1> QED BY <1>1, <1>3, ListsApart DEF Fitting

LEMMA VerdictFits == \A r \in Verdicts, a \in Metered : Fitting(a, r)
<1> TAKE r \in Verdicts, a \in Metered
<1>1. /\ r \in Result /\ r.verify \in Nat /\ r.cost \in Nat /\ r.apify \in Nat /\ r.verify + r.apify <= r.cost + Rounded(r)
      /\ r.cost <= r.spent + Rounded(r) /\ (r.cost + Rounded(r) < r.spent => r.status = "error" \/ (r.cut /\ r.verify = 0))
      /\ (r.status = "empty" => ~r.cut)
  BY DEF Verdicts, Paid, Result
<1>2. Max({0, r.cost - r.verify}) = IF r.cost - r.verify >= 0 THEN r.cost - r.verify ELSE 0
  BY <1>1, MaxZero
<1>3. Attributed(a, r) = r.verify + IF r.cost - r.verify >= 0 THEN r.cost - r.verify ELSE 0
  BY <1>1, <1>2, ListsApart DEF Attributed
<1>4. Rounded(r) \in Nat
  BY <1>1, SlackIs
<1>5. Attributed(a, r) \in Nat /\ Attributed(a, r) <= r.cost + Rounded(r) /\ r.cost <= Attributed(a, r) + Rounded(r)
  BY <1>1, <1>3, <1>4
<1> QED BY <1>1, <1>5 DEF Fitting

LEMMA PlainFree == \A s \in Statuses, c \in BOOLEAN : Plain(s, c) \in Free /\ (s # "empty" \/ c = FALSE => Plain(s, c) \in Heard)
  BY DEF Plain, Free, Heard, Result

LEMMA PageHeard == \A s, t, u, v \in Statuses : v # "empty" => Page(s, t, u, v) \subseteq Heard
  BY PlainFree DEF Page

LEMMA HushedFree == Hushed \subseteq Free
  BY PlainFree DEF Hushed, Statuses

LEMMA HeardKinds == Heard \subseteq Free /\ Heard \subseteq Acted /\ Heard \subseteq Searched /\ Heard \subseteq Verdicts
<1>1. \A r \in Free : Rounded(r) = 0
  BY DEF Free, Rounded, Slack
<1> QED BY <1>1 DEF Heard, Free, Acted, Searched, Verdicts, Paid, Result

\* The answers of a paid call: what they say they cost was spent, and unless there is none,
\* nothing else was.
Answers == {c \in [got : {"some", "none", "down"}, cost : Nat, spent : Nat] :
              c.cost <= c.spent /\ (c.got # "down" => c.cost = c.spent)}
\* Those of an actor: rows beyond those kept were spent too.
Runs == {p \in [got : {"some", "none", "down"}, cost : Nat, spent : Nat] :
           p.cost <= p.spent /\ (p.got # "down" => p.cost = p.spent \/ p.cost = Cap * Row)}

LEMMA CallAnswers == \A price \in Nat : Call(price) \subseteq Answers
  BY DEF Call, Answers

LEMMA CallsAnswer == Serper \subseteq Answers /\ Brave \subseteq Answers /\ ListenNotes \subseteq Answers
                     /\ Apify \subseteq Runs /\ NoCall \in Answers /\ NoCall \in {c \in Answers : c.got = "some"}
<1>1. Serper \subseteq Answers /\ Brave \subseteq Answers /\ ListenNotes \subseteq Answers
  BY CallAnswers DEF Serper, Brave, ListenNotes
<1>2. Apify \subseteq Runs
  <2>1. Cap = 1 /\ Row = 63
    BY DEF Cap, Row
  <2>2. \A n \in 1..(Cap + 1) : n \in {1, 2} /\ Kept(n) = Cap
    BY <2>1 DEF Kept
  <2>3. \A n \in 1..(Cap + 1) : [got |-> "some", cost |-> Kept(n) * Row, spent |-> n * Row] \in Runs
    <3> TAKE n \in 1..(Cap + 1)
    <3>1. Kept(n) * Row = 63 /\ n * Row \in {63, 126} /\ Cap * Row = 63
      BY <2>1, <2>2
    <3> QED BY <3>1 DEF Runs
  <2>4. [got |-> "none", cost |-> 0, spent |-> 0] \in Runs /\ \A s \in {0, Cap * Row} : [got |-> "down", cost |-> 0, spent |-> s] \in Runs
    BY <2>1 DEF Runs
  <2> QED BY <2>3, <2>4 DEF Apify
<1> QED BY <1>1, <1>2 DEF NoCall, Answers

LEMMA VerifierAnswers == \A w : Verifier(w) \subseteq {v \in Answers : v.got = "down" => v.cost = 0}
<1> TAKE w
<1>1. \A n \in 0..2 : n * Tokens \in Nat
  BY DEF Tokens
<1>2. NoCall \in Answers /\ NoCall.got # "down"
  BY DEF NoCall, Answers
<1> HIDE DEF Tokens
<1>3. \A g \in {"some", "none"}, n \in 1..2 :
        [got |-> g, cost |-> n * Tokens, spent |-> n * Tokens] \in {v \in Answers : v.got = "down" => v.cost = 0}
  BY <1>1 DEF Answers
<1>4. \A n \in 0..2 : [got |-> "down", cost |-> 0, spent |-> n * Tokens] \in {v \in Answers : v.got = "down" => v.cost = 0}
  BY <1>1 DEF Answers
<1> QED BY <1>2, <1>3, <1>4 DEF Verifier

\* A plain result with some of its fields changed.
LEMMA PlainChanged ==
  ASSUME NEW s \in Statuses, NEW cut \in BOOLEAN, NEW x \in Nat, NEW y \in Nat, NEW z \in Nat
  PROVE  /\ Plain(s, cut) \in Result
         /\ [Plain(s, cut) EXCEPT !.spent = z] \in Result
         /\ [Plain(s, cut) EXCEPT !.cost = x, !.spent = z] \in Result
         /\ [Plain(s, cut) EXCEPT !.cost = x, !.verify = y, !.spent = z] \in Result
         /\ [Plain(s, cut) EXCEPT !.cost = x, !.apify = y, !.spent = z] \in Result
<1>1. Plain(s, cut) \in Result
  BY DEF Plain, Result
<1>2. \A r \in Result, n \in Nat : [r EXCEPT !.spent = n] \in Result
  BY DEF Result
<1>3. \A r \in Result, n \in Nat : [r EXCEPT !.cost = n] \in Result
  BY DEF Result
<1>4. \A r \in Result, n \in Nat : [r EXCEPT !.verify = n] \in Result
  BY DEF Result
<1>5. \A r \in Result, n \in Nat : [r EXCEPT !.apify = n] \in Result
  BY DEF Result
<1> QED BY <1>1, <1>2, <1>3, <1>4, <1>5

LEMMA FailedFits == \A c \in Answers \cup Runs : Failed(c) \in Searched /\ Failed(c) \in Verdicts /\ Failed(c) \in Acted
<1> TAKE c \in Answers \cup Runs
<1> DEFINE r == Failed(c)
<1>1. c.spent \in Nat
  BY DEF Answers, Runs
<1>2. r \in Result
  BY <1>1, PlainChanged DEF Failed, Statuses
<1>3. r.status = "error" /\ r.cost = 0 /\ r.apify = 0 /\ r.verify = 0 /\ r.spent = c.spent
  BY DEF Failed, Plain
<1> HIDE DEF r
<1>5. Rounded(r) = 0
  BY <1>3 DEF Rounded, Slack
<1>4. r \in Searched /\ r \in Verdicts /\ r \in Acted
  BY <1>1, <1>2, <1>3, <1>5 DEF Searched, Verdicts, Acted, Paid
<1> QED BY <1>4 DEF r

LEMMA FoundFits == \A c \in Answers, s \in Statuses : c.got # "down" => Found(s, c) \in Searched /\ Found(s, c) \in Verdicts
<1>0. \A c \in Answers : c.got # "down" => c.spent \in Nat /\ c.cost = c.spent
  BY DEF Answers
<1> TAKE c \in Answers, s \in Statuses
<1> HAVE c.got # "down"
<1>1. c.spent \in Nat /\ c.cost = c.spent
  BY <1>0
<1> DEFINE r == Found(s, c)
<1>2. r \in Result
  BY <1>1, PlainChanged DEF Found
<1>3. r.cost = c.cost /\ r.apify = 0 /\ r.verify = 0 /\ r.spent = c.spent /\ r.cut = FALSE
  BY DEF Found, Plain
<1> HIDE DEF r
<1>5. Rounded(r) = 0
  BY <1>3 DEF Rounded, Slack
<1>4. r \in Searched /\ r \in Verdicts
  BY <1>1, <1>2, <1>3, <1>5 DEF Searched, Verdicts, Paid
<1> QED BY <1>4 DEF r

LEMMA CheckedFits ==
  \A c \in Answers, v \in Answers, s \in Statuses :
    c.got # "down" /\ (v.got = "down" => v.cost = 0 /\ s # "empty") => Checked(s, c, v) \in Verdicts
<1> TAKE c \in Answers, v \in Answers, s \in Statuses
<1> HAVE c.got # "down" /\ (v.got = "down" => v.cost = 0 /\ s # "empty")
<1> DEFINE r == Checked(s, c, v)
           cut == v.got = "down"
           x == c.cost + Round(v.cost)
           z == c.spent + v.spent
<1>1. c.spent \in Nat /\ c.cost = c.spent /\ v.cost \in Nat /\ v.spent \in Nat /\ v.cost <= v.spent
      /\ (v.got # "down" => v.cost = v.spent)
  BY DEF Answers
<1>9. /\ Round(v.cost) \in Nat /\ Slack(v.cost) \in Nat
      /\ Round(v.cost) <= v.cost + Slack(v.cost) /\ v.cost <= Round(v.cost) + Slack(v.cost)
  BY <1>1, RoundFits, SlackIs
<1>2. x \in Nat /\ z \in Nat /\ cut \in BOOLEAN
  BY <1>1, <1>9
<1>3. r = [Plain(s, cut) EXCEPT !.cost = x, !.verify = v.cost, !.spent = z]
  BY DEF Checked, Plain
<1> HIDE DEF cut, x, z, r
<1>4. r \in Result
  BY <1>1, <1>2, <1>3, PlainChanged
<1>5. /\ r.status = s /\ r.cost = x /\ r.apify = 0 /\ r.verify = v.cost
      /\ r.spent = z /\ r.cut = cut
  BY <1>3 DEF Plain
<1>6. r.cut <=> v.got = "down"
  BY <1>5 DEF cut
<1>10. Rounded(r) = Slack(v.cost)
  <2>1. r.apify + r.verify = v.cost
    BY <1>1, <1>5
  <2> QED BY <2>1 DEF Rounded
<1>11. r.cost = c.cost + Round(v.cost) /\ r.spent = c.cost + v.spent
  BY <1>1, <1>5 DEF x, z
<1>12. r.cost <= r.spent + Rounded(r) /\ r.verify + r.apify <= r.cost + Rounded(r)
  BY <1>1, <1>5, <1>9, <1>10, <1>11
<1>7. r \in Paid
  BY <1>4, <1>5, <1>6, <1>12 DEF Paid
<1>13. v.got # "down" => r.spent <= r.cost + Rounded(r)
  BY <1>1, <1>9, <1>10, <1>11
<1>8. r \in Verdicts
  <2>1. r.cost \in Nat /\ r.spent \in Nat /\ Rounded(r) \in Nat
    BY <1>4, SlackIs DEF Result
  <2>2. CASE v.got = "down"
    BY <1>5, <1>6, <1>7, <2>2 DEF Verdicts
  <2>3. CASE v.got # "down"
    BY <1>7, <1>13, <2>1, <2>3 DEF Verdicts
  <2> QED BY <2>2, <2>3
<1> QED BY <1>8 DEF r

LEMMA ScrapedFits ==
  \A c \in Answers, p \in Runs : c.got # "down" => /\ Scraped(c, p) \in Searched
                                                   /\ (c.cost = 0 => Scraped(c, p) \in Acted)
<1> TAKE c \in Answers, p \in Runs
<1> HAVE c.got # "down"
<1> DEFINE s == CASE p.got = "some" -> "ok" [] p.got = "none" -> "empty" [] p.got = "down" -> "error"
           cut == p.got = "down"
           x == c.cost + Round(p.cost)
           z == c.spent + p.spent
           r == Scraped(c, p)
<1>1. c.spent \in Nat /\ c.cost = c.spent /\ p.cost \in Nat /\ p.spent \in Nat /\ p.cost <= p.spent
      /\ p.got \in {"some", "none", "down"} /\ (p.got # "down" => p.cost = p.spent \/ p.cost = Cap * Row)
  BY DEF Answers, Runs
<1>10. /\ Round(p.cost) \in Nat /\ Slack(p.cost) \in Nat
       /\ Round(p.cost) <= p.cost + Slack(p.cost) /\ p.cost <= Round(p.cost) + Slack(p.cost)
  BY <1>1, RoundFits, SlackIs
<1>2. s \in Statuses /\ (s = "empty" => p.got # "down") /\ (p.got = "down" => s = "error")
  BY <1>1 DEF Statuses
<1>3. x \in Nat /\ z \in Nat /\ cut \in BOOLEAN
  BY <1>1, <1>10
<1>4. r = [Plain(s, cut) EXCEPT !.cost = x, !.apify = p.cost, !.spent = z]
  BY SMT DEF Scraped, Plain
<1> HIDE DEF s, cut, x, z, r
<1>5. r \in Result
  BY <1>1, <1>2, <1>3, <1>4, PlainChanged
<1>6. /\ r.status = s /\ r.cost = x /\ r.apify = p.cost /\ r.verify = 0
      /\ r.spent = z /\ r.cut = cut
  BY <1>4 DEF Plain
<1>7. r.cut <=> p.got = "down"
  BY <1>6 DEF cut
<1>11. Rounded(r) = Slack(p.cost)
  <2>1. r.apify + r.verify = p.cost
    BY <1>1, <1>6
  <2> QED BY <2>1 DEF Rounded
<1>12. r.cost = c.cost + Round(p.cost) /\ r.spent = c.cost + p.spent
  BY <1>1, <1>6 DEF x, z
<1>13. r.cost <= r.spent + Rounded(r) /\ r.verify + r.apify <= r.cost + Rounded(r)
  BY <1>1, <1>6, <1>10, <1>11, <1>12
<1>8. r \in Paid
  BY <1>2, <1>5, <1>6, <1>7, <1>13 DEF Paid
<1>14. p.cost = p.spent => r.spent <= r.cost + Rounded(r)
  BY <1>1, <1>10, <1>11, <1>12
<1>9. r \in Searched
  <2>1. r.cost \in Nat /\ r.spent \in Nat /\ Rounded(r) \in Nat
    BY <1>5, SlackIs DEF Result
  <2>2. r.verify = 0 /\ r.apify = p.cost
    BY <1>6
  <2>3. r.cost + Rounded(r) < r.spent => p.cost # p.spent
    BY <1>14, <2>1
  <2>4. p.cost # p.spent => r.status = "error" \/ p.cost = Cap * Row
    BY <1>1, <1>2, <1>6
  <2> QED BY <1>8, <2>2, <2>3, <2>4 DEF Searched
<1>15. c.cost = 0 => r.cost <= r.apify + Rounded(r)
  BY <1>6, <1>10, <1>11, <1>12
<1> QED BY <1>9, <1>15 DEF Acted, r

LEMMA HitsAnswer == \A call : call \subseteq Answers => \A c \in Hits(call) : c \in Answers /\ c.got # "down"
  BY DEF Hits

LEMMA MissedFits == \A call : \A s \in Statuses : call \subseteq Answers => Missed(call, s) \subseteq Searched /\ Missed(call, s) \subseteq Verdicts
  BY FailedFits, FoundFits DEF Missed

LEMMA VerifiedFits == \A call, w : call \subseteq Answers => Verified(call, w) \subseteq Verdicts
<1> TAKE call, w
<1> HAVE call \subseteq Answers
<1>1. Missed(call, "empty") \subseteq Verdicts
  BY MissedFits DEF Statuses
<1>2. \A c \in Hits(call), v \in Verifier(w) : Checked(IF v.got = "none" THEN "empty" ELSE "ok", c, v) \in Verdicts
  <2> TAKE c \in Hits(call), v \in Verifier(w)
  <2> DEFINE s == IF v.got = "none" THEN "empty" ELSE "ok"
  <2>1. s \in Statuses /\ (v.got = "down" => s # "empty")
    BY DEF Statuses
  <2> HIDE DEF s
  <2>2. Checked(s, c, v) \in Verdicts
    BY <2>1, HitsAnswer, VerifierAnswers, CheckedFits
  <2> QED BY <2>2 DEF s
<1> QED BY <1>1, <1>2 DEF Verified

LEMMA ScrapeFits == \A known \in BOOLEAN : Scrape(known) \subseteq Searched /\ (known => Scrape(known) \subseteq Acted)
<1> TAKE known \in BOOLEAN
<1>1. \A p \in Apify : Scraped(NoCall, p) \in Searched /\ Scraped(NoCall, p) \in Acted
  BY CallsAnswer, ScrapedFits DEF NoCall
<1>2. \A c \in Hits(Serper), p \in Apify : Scraped(c, p) \in Searched
  BY CallsAnswer, HitsAnswer, ScrapedFits
<1>3. Missed(Serper, "empty") \subseteq Searched
  BY CallsAnswer, MissedFits DEF Statuses
<1> QED BY <1>1, <1>2, <1>3 DEF Scrape

LEMMA ChannelFits == \A c \in Answers : c.got # "down" => Channel(c) \subseteq Verdicts
<1> TAKE c \in Answers
<1> HAVE c.got # "down"
<1>1. Failed(c) \in Verdicts
  BY FailedFits
<1>2. \A cut \in BOOLEAN : [Found("ok", c) EXCEPT !.cut = cut] \in Verdicts
  <2> TAKE cut \in BOOLEAN
  <2> DEFINE f == Found("ok", c)
             r == [f EXCEPT !.cut = cut]
  <2>1. f \in Verdicts /\ f.status = "ok" /\ f.cost = c.cost /\ f.spent = c.spent
    <3>1. f.status = "ok" /\ f.cost = c.cost /\ f.spent = c.spent
      BY DEF Found, Plain
    <3> QED BY <3>1, FoundFits DEF Statuses
  <2>2. c.spent \in Nat /\ c.cost = c.spent
    BY DEF Answers
  <2> HIDE DEF f
  <2>3. r \in Result /\ r.status = "ok" /\ r.cost = f.cost /\ r.spent = f.spent /\ r.verify = f.verify /\ r.apify = f.apify
    BY <2>1 DEF Verdicts, Paid, Result
  <2> HIDE DEF r
  <2>4. Rounded(r) = Rounded(f)
    BY <2>3 DEF Rounded
  <2>5. f \in Result /\ f.cost <= f.spent + Rounded(f) /\ f.verify + f.apify <= f.cost + Rounded(f) /\ Rounded(f) \in Nat
    BY <2>1, SlackIs DEF Verdicts, Paid
  <2>6. r \in Paid
    BY <2>3, <2>4, <2>5 DEF Paid
  <2>7. ~(r.cost + Rounded(r) < r.spent)
    BY <2>1, <2>2, <2>3, <2>4, <2>5
  <2>8. r \in Verdicts
    BY <2>6, <2>7 DEF Verdicts
  <2> QED BY <2>8 DEF r, f
<1> QED BY <1>1, <1>2 DEF Channel

-----------------------------------------------------------------------------
(* The forty adapters, kind by kind.                                       *)
LEMMA HeardFits == \A a \in AllAdapters : \A S : S \subseteq Heard => Fits(a, S)
  BY FreeFits, HeardKinds DEF Fits

LEMMA HeardPages ==
  /\ Adzuna \subseteq Heard /\ Careers \subseteq Heard /\ Crtsh \subseteq Heard /\ HttpHeaders \subseteq Heard
  /\ SocialLinks \subseteq Heard /\ Ambitionbox \subseteq Heard
  /\ \A w : GithubOrg(w) \subseteq Heard /\ GithubEvents(w) \subseteq Heard /\ GithubReleases(w) \subseteq Heard
  /\ CrunchbaseUrl \subseteq Heard /\ MetaLibraryUrl \subseteq Heard /\ GoogleTransparencyUrl \subseteq Heard
  /\ Rss \subseteq Heard /\ Dns \subseteq Heard /\ Whois \subseteq Heard
<1>1. {"ok", "partial", "empty", "error"} \subseteq Statuses
  BY DEF Statuses
<1>2. Page("ok", "empty", "error", "error") \subseteq Heard /\ Page("ok", "ok", "error", "error") \subseteq Heard
      /\ Page("ok", "ok", "ok", "error") \subseteq Heard
  BY <1>1, PageHeard
<1>3. Plain("ok", FALSE) \in Heard /\ Plain("empty", FALSE) \in Heard
  BY <1>1, PlainFree
<1> DEFINE loud == {"ok", "partial", "error"}
<1>10. \A s \in loud, c \in BOOLEAN : Plain(s, c) \in Heard
  BY <1>1, PlainFree
<1>4. Adzuna \subseteq Heard /\ Careers \subseteq Heard /\ Crtsh \subseteq Heard /\ HttpHeaders \subseteq Heard
      /\ SocialLinks \subseteq Heard /\ Ambitionbox \subseteq Heard
  BY <1>2 DEF Adzuna, Careers, Crtsh, HttpHeaders, SocialLinks, Ambitionbox
<1>5. \A w : GithubOrg(w) \subseteq Heard /\ GithubEvents(w) \subseteq Heard /\ GithubReleases(w) \subseteq Heard
  BY <1>2, <1>3 DEF GithubOrg, GithubEvents, GithubReleases
<1>6. CrunchbaseUrl \subseteq Heard /\ MetaLibraryUrl \subseteq Heard /\ GoogleTransparencyUrl \subseteq Heard
  BY <1>3 DEF CrunchbaseUrl, MetaLibraryUrl, GoogleTransparencyUrl
<1>7. Rss \subseteq Heard
  <2> DEFINE noise == {Plain(s, c) : s \in loud, c \in BOOLEAN}
  <2>1. noise \subseteq Heard
    BY <1>10 DEF loud
  <2>2. Rss = {Plain("empty", FALSE)} \cup noise
    BY DEF Rss
  <2> HIDE DEF noise
  <2> QED BY <1>3, <2>1, <2>2
<1>8. Dns \subseteq Heard
  <2> DEFINE noise == {Plain(s, c) : s \in {"partial", "error"}, c \in BOOLEAN}
  <2>1. noise \subseteq Heard
    BY <1>10
  <2>2. Dns = {Plain("ok", FALSE)} \cup noise
    BY DEF Dns
  <2> HIDE DEF noise
  <2> QED BY <1>3, <2>1, <2>2
<1>9. Whois \subseteq Heard
  BY <1>2, <1>3 DEF Whois
<1> QED BY <1>4, <1>5, <1>6, <1>7, <1>8, <1>9

LEMMA TelltalesHeard == TechStack \subseteq Heard /\ Zaubacorp \subseteq Heard
<1>1. \A r \in Heard, t \in {"nothing", "saas", "India"} : [r EXCEPT !.tells = t] \in Heard
  <2> TAKE r \in Heard, t \in {"nothing", "saas", "India"}
  <2> DEFINE q == [r EXCEPT !.tells = t]
  <2>1. q \in Result
    BY DEF Heard, Free, Result
  <2>2. q.status = r.status /\ q.cost = r.cost /\ q.apify = r.apify /\ q.verify = r.verify
        /\ q.spent = r.spent /\ q.cut = r.cut
    BY DEF Heard, Free, Result
  <2> HIDE DEF q
  <2>3. q \in Heard
    BY <2>1, <2>2 DEF Heard, Free
  <2> QED BY <2>3 DEF q
<1>2. {"ok", "empty", "error"} \subseteq Statuses
  BY DEF Statuses
<1>3. Page("ok", "empty", "error", "error") \subseteq Heard /\ Page("empty", "empty", "error", "error") \subseteq Heard
  BY <1>2, PageHeard
<1>4. Plain("ok", FALSE) \in Heard
  BY <1>2, PlainFree
<1>5. TechStack \subseteq Heard
  BY <1>1, <1>3, <1>4 DEF TechStack, Detected
<1>6. Zaubacorp \subseteq Heard
  BY <1>1, <1>3 DEF Zaubacorp
<1> QED BY <1>5, <1>6

LEMMA HushedFits ==
  /\ \A a \in Hushes : Fits(a, Hushed)
  /\ Fits("operational.pagespeed", Pagespeed) /\ Fits("operational.robots_txt", RobotsTxt)
<1>1. {"ok", "partial", "empty", "error"} \subseteq Statuses
  BY DEF Statuses
<1>2. Hushes \subseteq AllAdapters
  BY DEF Hushes, AllAdapters
<1>3. "operational.pagespeed" \in Hushes /\ "operational.robots_txt" \in Hushes
  BY DEF Hushes
<1>4. Page("ok", "partial", "error", "error") \subseteq Free /\ Page("ok", "empty", "empty", "error") \subseteq Free
  BY <1>1, PageHeard, HeardKinds
<1>5. Plain("empty", TRUE) \in Free
  BY <1>1, PlainFree
<1>6. Pagespeed \subseteq Free /\ RobotsTxt \subseteq Free
  BY <1>4, <1>5 DEF Pagespeed, RobotsTxt
<1> QED BY <1>2, <1>3, <1>6, HushedFree, FreeFits DEF Fits

LEMMA VoicesFit == \A w :
  /\ FounderLinkedinUrl(w) \subseteq Verdicts /\ FounderGithubUrl(w) \subseteq Verdicts
  /\ LinkedinPulse(w) \subseteq Verdicts /\ PodcastAppearances(w) \subseteq Verdicts
  /\ YoutubeChannel(w) \subseteq Verdicts /\ CrunchbaseSnippet(w) \subseteq Verdicts
  /\ BraveNews(w) \subseteq Verdicts /\ SerperNews(w) \subseteq Verdicts
  /\ LinkedinPosts(w) \subseteq Searched
<1> TAKE w
<1>1. {"ok", "empty"} \subseteq Statuses
  BY DEF Statuses
<1>2. Plain("ok", FALSE) \in Verdicts /\ Plain("empty", FALSE) \in Verdicts /\ Plain("empty", FALSE) \in Searched
  BY <1>1, PlainFree, HeardKinds
<1>3. \A c \in Hits(Serper) : Found("ok", c) \in Verdicts
  BY <1>1, CallsAnswer, HitsAnswer, FoundFits
<1>4. Missed(Serper, "ok") \subseteq Verdicts /\ Missed(Serper, "empty") \subseteq Verdicts
  BY <1>1, CallsAnswer, MissedFits
<1>5. \A c \in Hits(Serper), v \in Verifier(w) : Checked("ok", c, v) \in Verdicts
  <2> TAKE c \in Hits(Serper), v \in Verifier(w)
  <2>1. "ok" \in Statuses /\ "ok" # "empty"
    BY <1>1
  <2> QED BY <2>1, CallsAnswer, HitsAnswer, VerifierAnswers, CheckedFits
<1>6. FounderLinkedinUrl(w) \subseteq Verdicts
  BY <1>2, <1>3, <1>4 DEF FounderLinkedinUrl
<1>7. FounderGithubUrl(w) \subseteq Verdicts
  <2> DEFINE judged == {Checked("ok", c, v) : c \in Hits(Serper), v \in Verifier(w)}
  <2>1. judged \subseteq Verdicts
    BY <1>5
  <2>2. FounderGithubUrl(w) = IF ~w.founder THEN {Plain("empty", FALSE)} ELSE Missed(Serper, "ok") \cup judged
    BY DEF FounderGithubUrl
  <2> HIDE DEF judged
  <2> QED BY <1>2, <1>4, <2>1, <2>2
<1>8. LinkedinPulse(w) \subseteq Verdicts /\ PodcastAppearances(w) \subseteq Verdicts
      /\ BraveNews(w) \subseteq Verdicts /\ SerperNews(w) \subseteq Verdicts
  BY CallsAnswer, VerifiedFits DEF LinkedinPulse, PodcastAppearances, BraveNews, SerperNews
<1>9. YoutubeChannel(w) \subseteq Verdicts
  <2>1. \A c \in Hits(Serper) : Channel(c) \subseteq Verdicts
    BY CallsAnswer, HitsAnswer, ChannelFits
  <2>2. Channel(NoCall) \subseteq Verdicts
    BY CallsAnswer, ChannelFits DEF NoCall
  <2> QED BY <1>4, <2>1, <2>2 DEF YoutubeChannel
<1>10. CrunchbaseSnippet(w) \subseteq Verdicts
  BY <1>2, <1>3, <1>4 DEF CrunchbaseSnippet
<1>11. LinkedinPosts(w) \subseteq Searched
  <2>1. FounderKnown(w) \in BOOLEAN
    BY DEF FounderKnown
  <2> QED BY <1>2, <2>1, ScrapeFits DEF LinkedinPosts
<1> QED BY <1>6, <1>7, <1>8, <1>9, <1>10, <1>11


LEMMA OutcomesFit == \A a \in AllAdapters : \A w : Fits(a, Outcomes(a, w))
<1> TAKE a \in AllAdapters
<1> TAKE w
<1>1. \A S : S \subseteq Heard => Fits(a, S)
  BY HeardFits
<1>2. \A S : a \in Metered /\ S \subseteq Verdicts => Fits(a, S)
  BY VerdictFits DEF Fits
<1>3. \A S : a \in ApifySerper /\ S \subseteq Searched => Fits(a, S)
  BY SearchedFits DEF Fits
<1>4. \A S : a \in Scrapers \ ApifySerper /\ S \subseteq Acted => Fits(a, S)
  BY ActedFits DEF Fits
<1>5. /\ a = "hiring.adzuna" => Fits(a, Adzuna)
      /\ a = "hiring.careers" => Fits(a, Careers)
      /\ a = "product.github_org" => Fits(a, GithubOrg(w))
      /\ a = "product.github_events" => Fits(a, GithubEvents(w))
      /\ a = "product.github_releases" => Fits(a, GithubReleases(w))
      /\ a = "product.rss" => Fits(a, Rss)
      /\ a = "operational.tech_stack" => Fits(a, TechStack)
      /\ a = "operational.crtsh" => Fits(a, Crtsh)
      /\ a = "operational.dns" => Fits(a, Dns)
      /\ a = "operational.http_headers" => Fits(a, HttpHeaders)
      /\ a = "operational.whois" => Fits(a, Whois)
  BY Zenon, <1>1, HeardPages, TelltalesHeard
<1>6. /\ a = "ads.meta_library_url" => Fits(a, MetaLibraryUrl)
      /\ a = "ads.google_transparency_url" => Fits(a, GoogleTransparencyUrl)
      /\ a = "social.links" => Fits(a, SocialLinks)
      /\ a = "directories.zaubacorp" => Fits(a, Zaubacorp)
      /\ a = "directories.ambitionbox" => Fits(a, Ambitionbox)
      /\ a = "directories.crunchbase_url" => Fits(a, CrunchbaseUrl)
  BY Zenon, <1>1, HeardPages, TelltalesHeard
<1>7. /\ a = "product.changelog" => Fits(a, Changelog)
      /\ a = "product.sitemap" => Fits(a, Sitemap)
      /\ a = "customer.logos_current" => Fits(a, LogosCurrent)
      /\ a = "customer.wayback_diff" => Fits(a, WaybackDiff)
      /\ a = "directories.g2_capterra" => Fits(a, G2Capterra)
      /\ a = "operational.pagespeed" => Fits(a, Pagespeed)
      /\ a = "operational.robots_txt" => Fits(a, RobotsTxt)
  BY Zenon, HushedFits DEF Hushes, Changelog, Sitemap, LogosCurrent, WaybackDiff, G2Capterra
<1>8. /\ a = "voice.founder_linkedin_url" => a \in Metered /\ Fits(a, FounderLinkedinUrl(w))
      /\ a = "voice.founder_github_url" => Fits(a, FounderGithubUrl(w))
      /\ a = "voice.linkedin_pulse" => Fits(a, LinkedinPulse(w))
      /\ a = "voice.podcast_appearances" => Fits(a, PodcastAppearances(w))
      /\ a = "voice.youtube_channel" => Fits(a, YoutubeChannel(w))
      /\ a = "positioning.crunchbase_snippet" => Fits(a, CrunchbaseSnippet(w))
      /\ a = "positioning.brave_news" => Fits(a, BraveNews(w))
      /\ a = "positioning.serper_news" => Fits(a, SerperNews(w))
  BY Zenon, <1>2, VoicesFit DEF Metered
<1>9. \A known \in BOOLEAN : Scrape(known) \subseteq Searched
  BY ScrapeFits
<1>0. /\ ("linkedin" \in w.anchors) \in BOOLEAN /\ ("twitter" \in w.anchors) \in BOOLEAN
      /\ ("instagram" \in w.anchors) \in BOOLEAN /\ ("facebook" \in w.anchors) \in BOOLEAN
  OBVIOUS
<1>10. LinkedinCompany(w) \subseteq Searched /\ TwitterPosts(w) \subseteq Searched
       /\ InstagramPosts(w) \subseteq Searched /\ FacebookPosts(w) \subseteq Searched
  BY Zenon, <1>9, <1>0 DEF LinkedinCompany, TwitterPosts, InstagramPosts, FacebookPosts
<1>11. /\ a = "voice.linkedin_posts_apify" => Fits(a, LinkedinPosts(w))
       /\ a = "social.twitter_posts_apify" => Fits(a, TwitterPosts(w))
       /\ a = "social.instagram_posts_apify" => Fits(a, InstagramPosts(w))
       /\ a = "social.facebook_posts_apify" => Fits(a, FacebookPosts(w))
       /\ a = "directories.linkedin_company_apify" => Fits(a, LinkedinCompany(w))
  BY Zenon, <1>3, <1>10, VoicesFit DEF ApifySerper
<1>12. MetaCreatives \subseteq Acted /\ GoogleCreatives \subseteq Acted /\ GlassdoorApify \subseteq Acted
  BY ScrapeFits DEF MetaCreatives, GoogleCreatives, GlassdoorApify
<1>13. a \in {"ads.meta_creatives_apify", "ads.google_creatives_apify", "directories.glassdoor_apify"}
       => a \in Scrapers \ ApifySerper
  BY DEF Scrapers, ApifySerper
<1>14. /\ a = "ads.meta_creatives_apify" => Fits(a, MetaCreatives)
       /\ a = "ads.google_creatives_apify" => Fits(a, GoogleCreatives)
       /\ a = "directories.glassdoor_apify" => Fits(a, GlassdoorApify)
  BY Zenon, <1>4, <1>12, <1>13
<1> QED BY <1>5, <1>6, <1>7, <1>8, <1>11, <1>14 DEF Outcomes, AllAdapters

LEMMA ValidatedFit == \A a \in AllAdapters : \A w : \A o \in Outcomes(a, w) : \A r \in Validated(o) : Fitting(a, r)
<1> TAKE a \in AllAdapters
<1> TAKE w
<1> TAKE o \in Outcomes(a, w)
<1>1. Fitting(a, o)
  BY OutcomesFit DEF Fits
<1>2. o.status = "ok" => Fitting(a, [o EXCEPT !.status = "partial"])
  <2> HAVE o.status = "ok"
  <2> DEFINE q == [o EXCEPT !.status = "partial"]
  <2>1. q \in Result
    BY <1>1 DEF Fitting, Result, Statuses
  <2>2. q.status = "partial" /\ q.cost = o.cost /\ q.apify = o.apify /\ q.verify = o.verify
        /\ q.spent = o.spent /\ q.cut = o.cut
    BY <1>1 DEF Fitting, Result
  <2> HIDE DEF q
  <2>3. Attributed(a, q) = Attributed(a, o)
    BY <2>2 DEF Attributed
  <2>5. Rounded(q) = Rounded(o)
    BY <2>2 DEF Rounded
  <2>4. Fitting(a, q)
    BY <1>1, <2>1, <2>2, <2>3, <2>5 DEF Fitting
  <2> QED BY <2>4 DEF q
<1> QED BY <1>1, <1>2 DEF Validated

-----------------------------------------------------------------------------
(* The inductive invariant.                                                *)

\* The run's own options and the day it goes by, which is never to come.
RunFits ==
  stage # "idle" => /\ run \in [scope : SUBSET Adapters, skipped : SUBSET Adapters,
                                linkedin : {"none", "url", "junk"}, useCache : BOOLEAN,
                                anchors : env.sites \cup {{}}, fee : {0, Fee}, day : Days]
                    /\ run.day <= day /\ ~dossier.handed
\* The gated ones wait for the first wave, and the second for nothing else.
WavesInOrder ==
  /\ stage = "anchors" => (run.fee = 0 /\ \A a \in run.scope : task[a] = "waiting")
  /\ stage = "wave 1" => \A a \in run.scope \cap Gated : task[a] = "waiting"
  /\ stage = "wave 2" => Done(run.scope \ Gated)
\* Results and files are what the adapters come back with; an error never gets a file.
ResultsFit ==
  /\ res \in [run.scope -> Result \cup {NoResult}]
  /\ \A a \in run.scope : task[a] \in {"writing", "done"} => Fitting(a, res[a])
  /\ \A a \in run.scope : task[a] = "writing" => res[a].status # "error"
FilesFit == \A d \in Days, a \in Adapters :
  /\ cache[d][a].kind = "file" => Fitting(a, cache[d][a].result) /\ cache[d][a].result.status # "error"
  /\ cache[d][a].kind = "torn" => d \in torn
\* A paid answer has its file, and a call in progress that would pay again has none.
PaidFor ==
  /\ bill \in [Days -> Nat] /\ paid \in [Adapters -> {0, 1}]
  /\ \A a \in Adapters : paid[a] = 1 =>
       cache[day][a].kind # "none" /\ (a \in ShortLived => cache[day][a].fresh)
  /\ \A a \in run.scope : task[a] \in {"asking", "writing"} /\ run.useCache /\ run.day = day => paid[a] = 0
Core == env \in Settings /\ TraceTypeOK /\ RunFits /\ WavesInOrder /\ ResultsFit /\ FilesFit /\ PaidFor

LEMMA Bounds == MaxRuns \in Nat /\ MaxDays \in Nat /\ MaxCrashes \in Nat /\ Days \subseteq Nat
<1>1. MaxRuns \in Nat /\ MaxDays \in Nat /\ MaxCrashes \in Nat
  BY TraceAssumption
<1> QED BY <1>1 DEF Days

LEMMA CoreInit == TraceInit => Core
<1> HAVE TraceInit
<1>1. 0 \in Days
  BY Bounds DEF Days
<1>2. TraceTypeOK
  <2>1. cache \in [Days -> [Adapters -> {NoFile}]]
    BY DEF TraceInit
  <2> QED BY <1>1, <2>1, TraceAssumption DEF TraceInit, TraceTypeOK, NoRun
<1>3. RunFits /\ WavesInOrder /\ ResultsFit
  BY DEF TraceInit, RunFits, WavesInOrder, ResultsFit, NoRun
<1>4. \A d \in Days, a \in Adapters : cache[d][a] = NoFile
  BY DEF TraceInit
<1>5. FilesFit
  BY <1>4 DEF FilesFit, NoFile
<1>6. PaidFor
  <2>1. bill \in [Days -> Nat] /\ paid \in [Adapters -> {0, 1}] /\ \A a \in Adapters : paid[a] # 1
    BY DEF TraceInit
  <2>2. run.scope = {}
    BY DEF TraceInit, NoRun
  <2> QED BY <2>1, <2>2 DEF PaidFor
<1> QED BY <1>2, <1>3, <1>5, <1>6 DEF Core, TraceInit

\* The types of the variables, one by one.
LEMMA Typed == Core =>
  /\ env \in Settings /\ env.menu \subseteq AllAdapters /\ Adapters = env.menu /\ IsFiniteSet(Adapters)
  /\ run.scope \in SUBSET Adapters /\ task \in [run.scope -> {"waiting", "asking", "writing", "done"}]
  /\ res \in [run.scope -> Result \cup {NoResult}]
  /\ cache \in [Days -> [Adapters -> {NoFile} \cup [kind : {"torn"}, fresh : BOOLEAN]
                                    \cup [kind : {"file"}, fresh : BOOLEAN, result : Result]]]
  /\ day \in Days /\ torn \in SUBSET Days /\ runs \in 0..MaxRuns /\ crashes \in 0..MaxCrashes
  /\ bill \in [Days -> Nat] /\ paid \in [Adapters -> {0, 1}]
  /\ stage \in {"idle", "anchors", "wave 1", "wave 2"} /\ (stage = "idle" => run = NoRun)
  BY TraceAssumption DEF Core, TraceTypeOK, ResultsFit, PaidFor, Adapters

LEMMA StartCore == Core /\ Start => Core'
<1> SUFFICES ASSUME Core, NEW scope \in SUBSET env.menu, NEW linkedin \in {"none", "url", "junk"},
                    NEW skipPaid \in BOOLEAN, NEW useCache \in BOOLEAN, NEW ceiling \in Ceilings,
                    Invoke(scope, linkedin, skipPaid, useCache, ceiling)
             PROVE  Core'
  BY DEF Start
<1> DEFINE skipped == Skipped(scope, skipPaid)
           names == scope \ skipped
<1>1. /\ stage = "idle" /\ runs < MaxRuns /\ runs' = runs + 1 /\ dossier' = NoDossier
      /\ UNCHANGED <<env, cache, day, bill, paid, torn, crashes>>
  BY DEF Invoke
<1>2. skipped \in SUBSET Adapters /\ names \in SUBSET Adapters
  BY DEF Skipped, Adapters
<1>3. CASE UNCHANGED <<stage, run, task, res>>
  <2>1. TraceTypeOK'
    BY <1>1, <1>3, Typed, TraceAssumption DEF Core, TraceTypeOK, Adapters
  <2>2. RunFits' /\ WavesInOrder' /\ ResultsFit' /\ FilesFit' /\ PaidFor'
    BY <1>1, <1>3 DEF Core, RunFits, WavesInOrder, ResultsFit, FilesFit, PaidFor, Adapters, Done
  <2> QED BY <1>1, <2>1, <2>2 DEF Core
<1>4. CASE /\ stage' = "anchors"
           /\ run' = [scope |-> names, skipped |-> skipped, linkedin |-> linkedin,
                      useCache |-> useCache, anchors |-> {}, fee |-> 0, day |-> day]
           /\ task' = [a \in names |-> "waiting"] /\ res' = [a \in names |-> NoResult]
  <2> HIDE DEF names, skipped
  <2>1. run'.scope = names /\ run'.fee = 0 /\ run'.day = day
    BY <1>4
  <2>2. /\ task' \in [names -> {"waiting"}] /\ res' \in [names -> {NoResult}]
        /\ \A a \in names : task'[a] = "waiting" /\ res'[a] = NoResult
    BY <1>4
  <2>3. TraceTypeOK'
    BY <1>1, <1>2, <1>4, <2>1, <2>2, Typed, TraceAssumption DEF Core, TraceTypeOK, Adapters
  <2>4. RunFits'
    <3>1. run' \in [scope : SUBSET Adapters, skipped : SUBSET Adapters, linkedin : {"none", "url", "junk"},
                    useCache : BOOLEAN, anchors : env.sites \cup {{}}, fee : {0, Fee}, day : Days]
      BY <1>2, <1>4, Typed
    <3> QED BY <1>1, <2>1, <3>1, Typed DEF RunFits, Adapters, Days, NoDossier
  <2>5. WavesInOrder'
    BY <1>4, <2>1, <2>2 DEF WavesInOrder
  <2>6. ResultsFit'
    BY <2>1, <2>2 DEF ResultsFit
  <2>7. FilesFit'
    BY <1>1 DEF Core, FilesFit, Adapters
  <2>8. PaidFor'
    BY <1>1, <2>1, <2>2 DEF Core, PaidFor, Adapters
  <2> QED BY <1>1, <2>3, <2>4, <2>5, <2>6, <2>7, <2>8 DEF Core
<1> QED BY <1>3, <1>4 DEF Invoke

LEMMA ClearCore == Core /\ ClearCache => Core'
<1> HAVE Core /\ ClearCache
<1>1. /\ stage = "idle" /\ runs < MaxRuns /\ runs' = runs + 1 /\ torn' = {}
      /\ cache' = [d \in Days |-> [a \in Adapters |-> NoFile]] /\ paid' = [a \in Adapters |-> 0]
      /\ UNCHANGED <<env, stage, run, task, res, day, dossier, bill, crashes>>
  BY DEF ClearCache
<1>2. cache' \in [Days -> [Adapters -> {NoFile}]]
  BY <1>1
<1>3. TraceTypeOK'
  BY <1>1, <1>2, Typed, TraceAssumption DEF Core, TraceTypeOK, Adapters
<1>4. RunFits' /\ WavesInOrder' /\ ResultsFit'
  BY <1>1 DEF Core, RunFits, WavesInOrder, ResultsFit, Adapters, Done
<1>5. \A d \in Days, a \in Adapters : cache'[d][a] = NoFile
  BY <1>1
<1>6. FilesFit'
  BY <1>1, <1>5 DEF FilesFit, Adapters, NoFile
<1>7. PaidFor'
  <2>1. bill' \in [Days -> Nat] /\ paid' \in [Adapters -> {0, 1}] /\ \A a \in Adapters : paid'[a] = 0
    BY <1>1, Typed
  <2>2. run'.scope \in SUBSET Adapters
    BY <1>1, Typed
  <2> QED BY <1>1, <2>1, <2>2 DEF PaidFor, Adapters
<1> QED BY <1>1, <1>3, <1>4, <1>6, <1>7 DEF Core

LEMMA AnchorsCore == Core /\ DiscoverAnchors => Core'
<1> SUFFICES ASSUME Core, DiscoverAnchors PROVE Core'
  OBVIOUS
<1>1. PICK found \in Links, asked \in BOOLEAN :
        /\ run' = [run EXCEPT !.anchors = found, !.fee = IF asked THEN Fee ELSE 0, !.day = day]
        /\ bill' = [bill EXCEPT ![day] = @ + IF asked THEN Fee ELSE 0]
  BY DEF DiscoverAnchors
<1>2. /\ stage = "anchors" /\ stage' = "wave 1"
      /\ UNCHANGED <<env, task, res, cache, day, dossier, paid, torn, runs, crashes>>
  BY DEF DiscoverAnchors
<1> DEFINE fee == IF asked THEN Fee ELSE 0
<1>3. fee \in {0, Fee} /\ fee \in Nat
  BY DEF Fee
<1> HIDE DEF fee
<1>4. /\ run \in [scope : SUBSET Adapters, skipped : SUBSET Adapters, linkedin : {"none", "url", "junk"},
                   useCache : BOOLEAN, anchors : env.sites \cup {{}}, fee : {0, Fee}, day : Days]
      /\ run.day <= day /\ ~dossier.handed
  BY <1>2 DEF Core, RunFits
<1>5. run' = [run EXCEPT !.anchors = found, !.fee = fee, !.day = day]
  BY <1>1 DEF fee
<1>6. /\ run' \in [scope : SUBSET Adapters, skipped : SUBSET Adapters, linkedin : {"none", "url", "junk"},
                    useCache : BOOLEAN, anchors : env.sites \cup {{}}, fee : {0, Fee}, day : Days]
  BY <1>3, <1>4, <1>5, Typed DEF Links
<1>7. run'.scope = run.scope /\ run'.day = day /\ run'.useCache = run.useCache /\ run'.fee = fee
  BY <1>4, <1>5
<1>8. \A a \in run.scope : task[a] = "waiting"
  BY <1>2 DEF Core, WavesInOrder
<1>9. TraceTypeOK'
  BY <1>2, <1>7, Typed, TraceAssumption DEF Core, TraceTypeOK, Adapters
<1>10. RunFits'
  <2>1. day \in Nat
    BY Bounds, Typed
  <2>2. run'.day <= day'
    <3>1. run'.day = day /\ day' = day
      BY <1>2, <1>7
    <3> QED BY <2>1, <3>1
  <2>3. ~dossier'.handed
    BY <1>2, <1>4
  <2> QED BY <1>2, <1>6, <2>2, <2>3 DEF RunFits, Adapters
<1>11. WavesInOrder' /\ ResultsFit'
  BY <1>2, <1>7, <1>8 DEF Core, WavesInOrder, ResultsFit
<1>12. FilesFit'
  BY <1>2 DEF Core, FilesFit, Adapters
<1>13. bill' \in [Days -> Nat]
  <2>1. bill' = [bill EXCEPT ![day] = bill[day] + fee]
    BY <1>1 DEF fee
  <2>2. bill \in [Days -> Nat] /\ day \in Days
    BY Typed
  <2>3. bill[day] + fee \in Nat
    BY <1>3, <2>2
  <2> QED BY <2>1, <2>2, <2>3
<1>14. PaidFor'
  BY <1>2, <1>7, <1>8, <1>13 DEF Core, PaidFor, Adapters
<1> QED BY <1>2, <1>9, <1>10, <1>11, <1>12, <1>14 DEF Core

LEMMA WaveCore == Core /\ NextWave => Core'
<1> HAVE Core /\ NextWave
<1>1. /\ stage = "wave 1" /\ stage' = "wave 2"
      /\ UNCHANGED <<env, run, task, res, cache, day, dossier, bill, paid, torn, runs, crashes>>
  BY DEF NextWave
<1>2. Done(run.scope \ Gated)
  BY <1>1 DEF NextWave, Wave
<1>3. TraceTypeOK'
  BY <1>1, Typed, TraceAssumption DEF Core, TraceTypeOK, Adapters
<1>4. RunFits' /\ ResultsFit' /\ FilesFit' /\ PaidFor'
  BY <1>1 DEF Core, RunFits, ResultsFit, FilesFit, PaidFor, Adapters
<1>5. WavesInOrder'
  BY <1>1, <1>2 DEF WavesInOrder, Done
<1> QED BY <1>1, <1>3, <1>4, <1>5 DEF Core

\* What is left when a run is over.
LEMMA OverCore ==
  ASSUME Core, stage' = "idle", run' = NoRun, task' = <<>>, res' = <<>>,
         UNCHANGED <<env, cache, day, bill, paid, torn, runs, crashes>>
  PROVE  Core'
<1>1. run'.scope = {} /\ task' \in [{} -> {"waiting", "asking", "writing", "done"}]
      /\ res' \in [{} -> Result \cup {NoResult}] /\ DOMAIN res' = {}
  BY DEF NoRun
<1>2. TraceTypeOK'
  BY <1>1, Typed, TraceAssumption DEF Core, TraceTypeOK, Adapters
<1>3. RunFits' /\ WavesInOrder' /\ ResultsFit'
  BY <1>1 DEF RunFits, WavesInOrder, ResultsFit
<1>4. FilesFit'
  BY DEF Core, FilesFit, Adapters
<1>5. PaidFor'
  BY <1>1 DEF Core, PaidFor, Adapters
<1> QED BY <1>2, <1>3, <1>4, <1>5 DEF Core

LEMMA ReportCore == Core /\ Report => Core'
<1> HAVE Core /\ Report
<1>1. /\ stage' = "idle" /\ run' = NoRun /\ task' = <<>> /\ res' = <<>>
      /\ UNCHANGED <<env, cache, day, bill, paid, torn, runs, crashes>>
  BY DEF Report
<1> QED BY <1>1, OverCore

LEMMA MidnightCore == Core /\ Midnight => Core'
<1> HAVE Core /\ Midnight
<1>1. /\ day < MaxDays /\ day' = day + 1 /\ paid' = [a \in Adapters |-> 0]
      /\ UNCHANGED <<env, stage, run, task, res, cache, dossier, bill, torn, runs, crashes>>
  BY DEF Midnight
<1>2. day' \in Days /\ day <= day' /\ day \in Nat
  <2>1. day \in Days /\ MaxDays \in Nat
    BY Typed, Bounds
  <2> QED BY <1>1, <2>1 DEF Days
<1>3. TraceTypeOK'
  BY <1>1, <1>2, Typed, TraceAssumption DEF Core, TraceTypeOK, Adapters
<1>4. RunFits'
  <2>1. stage # "idle" => run.day \in Nat
    BY TraceAssumption DEF Core, RunFits, Days
  <2> QED BY <1>1, <1>2, <2>1 DEF Core, RunFits, Adapters
<1>5. WavesInOrder' /\ ResultsFit' /\ FilesFit'
  BY <1>1 DEF Core, WavesInOrder, ResultsFit, FilesFit, Adapters, Done
<1>6. paid' \in [Adapters -> {0, 1}] /\ \A a \in Adapters : paid'[a] = 0
  BY <1>1
<1>7. PaidFor'
  <2>1. bill \in [Days -> Nat] /\ run.scope \in SUBSET Adapters
    BY Typed
  <2> QED BY <1>1, <1>6, <2>1 DEF PaidFor, Adapters
<1> QED BY <1>1, <1>3, <1>4, <1>5, <1>7 DEF Core

LEMMA ExpireCore == Core /\ Expire => Core'
<1> SUFFICES ASSUME Core, Expire PROVE Core'
  OBVIOUS
<1> DEFINE aged(f, a) == IF a \in ShortLived /\ f.kind # "none" THEN [f EXCEPT !.fresh = FALSE] ELSE f
           File3 == {NoFile} \cup [kind : {"torn"}, fresh : BOOLEAN] \cup [kind : {"file"}, fresh : BOOLEAN, result : Result]
<1>1. /\ cache' = [cache EXCEPT ![day] = [a \in Adapters |-> aged(cache[day][a], a)]]
      /\ paid' = [a \in Adapters |-> IF a \in ShortLived THEN 0 ELSE paid[a]]
      /\ UNCHANGED <<env, stage, run, task, res, day, dossier, bill, torn, runs, crashes>>
  BY DEF Expire
<1>2. \A f \in File3, a \in Adapters :
        /\ aged(f, a) \in File3 /\ aged(f, a).kind = f.kind
        /\ f.kind = "file" => aged(f, a).result = f.result
        /\ a \notin ShortLived => aged(f, a) = f
  BY DEF NoFile
<1>3. cache \in [Days -> [Adapters -> File3]] /\ day \in Days
  BY Zenon, Typed
<1> HIDE DEF aged
<1>4. /\ \A d \in Days : d # day => cache'[d] = cache[d]
      /\ \A a \in Adapters : cache'[day][a] = aged(cache[day][a], a)
  BY <1>1, Typed
<1>5. [a \in Adapters |-> aged(cache[day][a], a)] \in [Adapters -> File3]
  <2> HIDE DEF File3
  <2> QED BY <1>2, <1>3
<1>6. cache' \in [Days -> [Adapters -> File3]]
  <2> HIDE DEF File3
  <2> QED BY <1>1, <1>3, <1>5
<1>7. TraceTypeOK'
  BY <1>1, <1>6, Typed, TraceAssumption DEF Core, TraceTypeOK, Adapters
<1>8. RunFits' /\ WavesInOrder' /\ ResultsFit'
  BY <1>1 DEF Core, RunFits, WavesInOrder, ResultsFit, Adapters, Done
<1>9. \A d \in Days, a \in Adapters :
        /\ cache'[d][a].kind = cache[d][a].kind
        /\ cache[d][a].kind = "file" => cache'[d][a].result = cache[d][a].result
        /\ a \notin ShortLived => cache'[d][a] = cache[d][a]
  <2> HIDE DEF File3
  <2> QED BY <1>2, <1>3, <1>4
<1>10. FilesFit'
  <2>1. FilesFit /\ Adapters' = Adapters /\ torn' = torn
    BY <1>1 DEF Core, Adapters
  <2>2. ASSUME NEW d \in Days, NEW a \in Adapters
        PROVE  /\ cache'[d][a].kind = "file" =>
                    Fitting(a, cache'[d][a].result) /\ cache'[d][a].result.status # "error"
               /\ cache'[d][a].kind = "torn" => d \in torn
    <3>1. /\ cache'[d][a].kind = cache[d][a].kind
          /\ cache[d][a].kind = "file" => cache'[d][a].result = cache[d][a].result
      BY <1>9
    <3>2. /\ cache[d][a].kind = "file" => Fitting(a, cache[d][a].result) /\ cache[d][a].result.status # "error"
          /\ cache[d][a].kind = "torn" => d \in torn
      BY <2>1 DEF FilesFit
    <3> HIDE DEF File3
    <3> QED BY <3>1, <3>2
  <2> QED BY Zenon, <2>1, <2>2 DEF FilesFit
<1>11. paid' \in [Adapters -> {0, 1}] /\ \A a \in Adapters : paid'[a] = IF a \in ShortLived THEN 0 ELSE paid[a]
  BY <1>1, Typed
<1>12. PaidFor'
  <2>1. bill \in [Days -> Nat] /\ run.scope \in SUBSET Adapters /\ day \in Days
    BY Typed
  <2>2. ASSUME NEW a \in Adapters, paid'[a] = 1
        PROVE  cache'[day][a].kind # "none" /\ (a \in ShortLived => cache'[day][a].fresh)
    <3>1. a \notin ShortLived /\ paid[a] = 1
      BY <1>11, <2>2
    <3>2. cache[day][a].kind # "none"
      BY <3>1 DEF Core, PaidFor
    <3> QED BY <1>9, <2>1, <3>1, <3>2
  <2>3. \A a \in run.scope : paid[a] = 0 => paid'[a] = 0
    BY <1>11, <2>1
  <2> QED BY <1>1, <1>11, <2>1, <2>2, <2>3 DEF Core, PaidFor, Adapters
<1> QED BY <1>1, <1>7, <1>8, <1>10, <1>12 DEF Core

\* A run that is going: its record, and its day.
LEMMA RunTyped == Core /\ stage # "idle" => run.day \in Days /\ run.useCache \in BOOLEAN /\ run.fee \in Nat
  BY DEF Core, RunFits, Fee

LEMMA SettleCore ==
  ASSUME Core, stage \in {"wave 1", "wave 2"}, NEW a \in Wave, task[a] # "done", NEW r, Fitting(a, r), Settle(a, r),
         UNCHANGED <<env, stage, run, cache, day, dossier, bill, paid, torn, runs, crashes>>
  PROVE  Core'
<1>1. a \in run.scope /\ (stage = "wave 1" => a \notin Gated) /\ r \in Result
  BY DEF Wave, Fitting
<1>2. task' = [task EXCEPT ![a] = "done"] /\ res' = [res EXCEPT ![a] = r]
  BY DEF Settle
<1>3. /\ task' \in [run.scope -> {"waiting", "asking", "writing", "done"}]
      /\ task'[a] = "done" /\ \A b \in run.scope : b # a => task'[b] = task[b]
  BY <1>1, <1>2, Typed
<1>4. /\ res' \in [run.scope -> Result \cup {NoResult}]
      /\ res'[a] = r /\ \A b \in run.scope : b # a => res'[b] = res[b]
  BY <1>1, <1>2, Typed
<1>5. TraceTypeOK'
  BY <1>1, <1>3, <1>4, Typed DEF Core, TraceTypeOK, Adapters
<1>6. RunFits' /\ FilesFit'
  BY DEF Core, RunFits, FilesFit, Adapters
<1>7. WavesInOrder'
  BY <1>1, <1>3 DEF Core, WavesInOrder, Done
<1>8. ResultsFit'
  BY <1>3, <1>4 DEF Core, ResultsFit
<1>9. PaidFor'
  BY <1>3 DEF Core, PaidFor, Adapters
<1> QED BY <1>5, <1>6, <1>7, <1>8, <1>9 DEF Core

LEMMA SettlesOK ==
  \A a \in AllAdapters : Fitting(a, Stub) /\ Fitting(a, Plain("error", FALSE))
<1> TAKE a \in AllAdapters
<1>1. {"empty", "error"} \subseteq Statuses
  BY DEF Statuses
<1>2. Plain("empty", FALSE) \in Heard /\ Plain("error", FALSE) \in Heard
  BY <1>1, PlainFree
<1>3. \A r \in Heard : Fitting(a, r)
  BY HeardKinds, FreeFits
<1> QED BY <1>2, <1>3 DEF Stub

\* Where an adapter's turn comes, it is one of the forty.
LEMMA InWave == Core => \A a \in Wave : a \in run.scope /\ a \in Adapters /\ a \in AllAdapters
                                         /\ (stage = "wave 1" => a \notin Gated)
<1> HAVE Core
<1>1. run.scope \in SUBSET Adapters /\ Adapters \subseteq AllAdapters
  BY Typed
<1> QED BY <1>1 DEF Wave

LEMMA BeginCore == \A a : Core /\ Begin(a) => Core'
<1> SUFFICES ASSUME NEW a, Core, Begin(a) PROVE Core'
  OBVIOUS
<1>1. /\ stage \in {"wave 1", "wave 2"} /\ a \in Wave /\ task[a] = "waiting"
      /\ UNCHANGED <<env, stage, run, cache, day, dossier, bill, paid, torn, runs, crashes>>
  BY DEF Begin
<1>2. a \in run.scope /\ a \in Adapters /\ a \in AllAdapters /\ (stage = "wave 1" => a \notin Gated)
  BY <1>1, InWave
<1>3. CASE Settle(a, Stub)
  BY <1>1, <1>2, <1>3, SettlesOK, SettleCore
<1>4. CASE Settle(a, Plain("error", FALSE))
  BY <1>1, <1>2, <1>4, SettlesOK, SettleCore
<1>5. CASE Stored(a).kind = "file" /\ Settle(a, Stored(a).result)
  <2>1. Fitting(a, Stored(a).result)
    BY <1>1, <1>2, <1>5, RunTyped DEF Core, FilesFit, Stored
  <2> QED BY <1>1, <1>5, <2>1, SettleCore
<1>6. CASE Gate(a) /\ ~Readable(a) /\ task' = [task EXCEPT ![a] = "asking"] /\ UNCHANGED res
  <2>1. /\ task' \in [run.scope -> {"waiting", "asking", "writing", "done"}]
        /\ task'[a] = "asking" /\ \A b \in run.scope : b # a => task'[b] = task[b]
    BY <1>2, <1>6, Typed
  <2>2. res[a] = NoResult
    BY <1>1, <1>2 DEF Core, TraceTypeOK
  <2>3. TraceTypeOK'
    BY <1>1, <1>2, <1>6, <2>1, <2>2, Typed DEF Core, TraceTypeOK, Adapters
  <2>4. RunFits' /\ FilesFit'
    BY <1>1 DEF Core, RunFits, FilesFit, Adapters
  <2>5. WavesInOrder'
    BY <1>1, <1>2, <2>1 DEF Core, WavesInOrder, Done
  <2>6. ResultsFit'
    BY <1>1, <1>6, <2>1 DEF Core, ResultsFit
  <2>7. run.useCache /\ run.day = day => paid[a] = 0
    <3> HAVE run.useCache /\ run.day = day
    <3>1. cache[day][a].kind = "none" \/ (a \in ShortLived /\ ~cache[day][a].fresh)
      BY <1>6 DEF Readable, Stored
    <3>2. paid[a] # 1 /\ paid[a] \in {0, 1}
      BY <1>2, <3>1, Typed DEF Core, PaidFor
    <3> QED BY <3>2
  <2>8. PaidFor'
    BY <1>1, <2>1, <2>7 DEF Core, PaidFor, Adapters
  <2> QED BY <1>1, <2>3, <2>4, <2>5, <2>6, <2>8 DEF Core
<1> QED BY <1>3, <1>4, <1>5, <1>6 DEF Begin

LEMMA AnswerCore == \A a : Core /\ Answer(a) => Core'
<1> SUFFICES ASSUME NEW a, Core, Answer(a) PROVE Core'
  OBVIOUS
<1>1. /\ stage \in {"wave 1", "wave 2"} /\ a \in Wave /\ task[a] = "asking"
      /\ UNCHANGED <<env, stage, run, cache, day, dossier, paid, torn, runs, crashes>>
  BY DEF Answer
<1>2. a \in run.scope /\ a \in Adapters /\ a \in AllAdapters /\ (stage = "wave 1" => a \notin Gated)
  BY <1>1, InWave
<1>3. PICK r : /\ Fitting(a, r) /\ res' = [res EXCEPT ![a] = r]
               /\ task' = [task EXCEPT ![a] = IF r.status = "error" THEN "done" ELSE "writing"]
               /\ Spend(r.spent)
  BY <1>2, ValidatedFit DEF Answer
<1> DEFINE next == IF r.status = "error" THEN "done" ELSE "writing"
<1>4. next \in {"done", "writing"} /\ (next = "writing" => r.status # "error")
  OBVIOUS
<1>5. task' = [task EXCEPT ![a] = next]
  BY <1>3
<1> HIDE DEF next
<1>6. /\ task' \in [run.scope -> {"waiting", "asking", "writing", "done"}]
      /\ task'[a] = next /\ \A b \in run.scope : b # a => task'[b] = task[b]
  BY <1>2, <1>4, <1>5, Typed
<1>7. r \in Result
  BY <1>3 DEF Fitting
<1>8. /\ res' \in [run.scope -> Result \cup {NoResult}]
      /\ res'[a] = r /\ \A b \in run.scope : b # a => res'[b] = res[b]
  BY <1>2, <1>3, <1>7, Typed
<1>9. bill' \in [Days -> Nat]
  <2>1. bill' = [bill EXCEPT ![run.day] = bill[run.day] + r.spent]
    BY <1>3 DEF Spend
  <2>2. bill \in [Days -> Nat] /\ run.day \in Days
    BY <1>1, Typed, RunTyped
  <2>3. bill[run.day] + r.spent \in Nat
    BY <1>7, <2>2 DEF Result
  <2> QED BY <2>1, <2>2, <2>3
<1>10. TraceTypeOK'
  BY <1>1, <1>4, <1>6, <1>7, <1>8, Typed DEF Core, TraceTypeOK, Adapters
<1>11. RunFits' /\ FilesFit'
  BY <1>1 DEF Core, RunFits, FilesFit, Adapters
<1>12. WavesInOrder'
  BY <1>1, <1>2, <1>6 DEF Core, WavesInOrder, Done
<1>13. ResultsFit'
  BY <1>1, <1>3, <1>4, <1>6, <1>8 DEF Core, ResultsFit
<1>14. PaidFor'
  BY <1>1, <1>2, <1>4, <1>6, <1>9 DEF Core, PaidFor, Adapters
<1> QED BY <1>1, <1>10, <1>11, <1>12, <1>13, <1>14 DEF Core

LEMMA WriteCore == \A a : Core /\ WriteFile(a) => Core'
<1> SUFFICES ASSUME NEW a, Core, WriteFile(a) PROVE Core'
  OBVIOUS
<1> DEFINE file == File(res[a])
           File3 == {NoFile} \cup [kind : {"torn"}, fresh : BOOLEAN] \cup [kind : {"file"}, fresh : BOOLEAN, result : Result]
           more == IF run.useCache /\ res[a].spent > 0 /\ run.day = day THEN paid[a] + 1 ELSE paid[a]
<1>1. /\ stage \in {"wave 1", "wave 2"} /\ a \in Wave /\ task[a] = "writing"
      /\ UNCHANGED <<env, stage, run, res, day, dossier, bill, torn, runs, crashes>>
  BY DEF WriteFile
<1>2. /\ cache' = [cache EXCEPT ![run.day][a] = file]
      /\ task' = [task EXCEPT ![a] = "done"]
      /\ paid' = [paid EXCEPT ![a] = more]
  BY DEF WriteFile
<1>3. a \in run.scope /\ a \in Adapters /\ a \in AllAdapters /\ (stage = "wave 1" => a \notin Gated)
  BY <1>1, InWave
<1>4. run.day \in Days /\ day \in Days
  BY <1>1, Typed, RunTyped
<1>5. res[a] \in Result /\ Fitting(a, res[a]) /\ res[a].status # "error"
  BY <1>1, <1>3 DEF Core, ResultsFit, Fitting
<1>6. file \in File3 /\ file.kind = "file" /\ file.fresh /\ file.result = res[a]
  BY <1>5 DEF File
<1>7. cache \in [Days -> [Adapters -> File3]]
  BY Zenon, Typed
<1> HIDE DEF file, File3, more
<1>8. /\ cache' \in [Days -> [Adapters -> File3]]
      /\ cache'[run.day][a] = file
      /\ \A d \in Days, b \in Adapters : d # run.day \/ b # a => cache'[d][b] = cache[d][b]
  BY <1>2, <1>3, <1>4, <1>6, <1>7
<1>9. /\ task' \in [run.scope -> {"waiting", "asking", "writing", "done"}]
      /\ task'[a] = "done" /\ \A b \in run.scope : b # a => task'[b] = task[b]
  BY <1>2, <1>3, Typed
<1>10. cache' \in [Days -> [Adapters -> {NoFile} \cup [kind : {"torn"}, fresh : BOOLEAN]
                                    \cup [kind : {"file"}, fresh : BOOLEAN, result : Result]]]
  BY Zenon, <1>8 DEF File3
<1>11. TraceTypeOK'
  BY <1>1, <1>3, <1>5, <1>9, <1>10, Typed DEF Core, TraceTypeOK, Adapters
<1>12. RunFits'
  BY <1>1 DEF Core, RunFits, Adapters
<1>13. WavesInOrder'
  BY <1>1, <1>3, <1>9 DEF Core, WavesInOrder, Done
<1>14. ResultsFit'
  BY <1>1, <1>5, <1>9 DEF Core, ResultsFit
<1>15. FilesFit'
  <2> SUFFICES ASSUME NEW d \in Days, NEW b \in Adapters
               PROVE  /\ cache'[d][b].kind = "file" => Fitting(b, cache'[d][b].result) /\ cache'[d][b].result.status # "error"
                      /\ cache'[d][b].kind = "torn" => d \in torn
    BY <1>1 DEF FilesFit, Adapters
  <2>1. CASE d = run.day /\ b = a
    BY <1>5, <1>6, <1>8, <2>1
  <2>2. CASE d # run.day \/ b # a
    <3>1. cache'[d][b] = cache[d][b]
      BY <1>8, <2>2
    <3> QED BY <3>1 DEF Core, FilesFit
  <2> QED BY <2>1, <2>2
<1>16. paid \in [Adapters -> {0, 1}]
  BY Typed
<1>17. more \in {0, 1} /\ (more = 1 => paid[a] = 1 \/ run.day = day)
  <2>1. CASE run.useCache /\ run.day = day
    <3>1. paid[a] = 0
      BY <1>1, <1>3, <2>1 DEF Core, PaidFor
    <3> QED BY <2>1, <3>1 DEF more
  <2>2. CASE ~(run.useCache /\ run.day = day)
    BY <1>3, <1>16, <2>2 DEF more
  <2> QED BY <2>1, <2>2
<1>18. paid' \in [Adapters -> {0, 1}] /\ paid'[a] = more /\ \A b \in Adapters : b # a => paid'[b] = paid[b]
  BY <1>2, <1>3, <1>16, <1>17
<1>19. ASSUME NEW b \in Adapters, paid'[b] = 1
       PROVE  cache'[day][b].kind # "none" /\ (b \in ShortLived => cache'[day][b].fresh)
  <2>1. CASE b = a /\ run.day = day
    BY <1>6, <1>8, <2>1
  <2>2. CASE ~(b = a /\ run.day = day)
    <3>1. paid[b] = 1
      BY <1>17, <1>18, <1>19, <2>2
    <3>2. cache'[day][b] = cache[day][b]
      BY <1>4, <1>8, <2>2
    <3> QED BY <3>1, <3>2 DEF Core, PaidFor
  <2> QED BY <2>1, <2>2
<1>20. \A b \in run.scope : task'[b] \in {"asking", "writing"} /\ run.useCache /\ run.day = day => paid'[b] = 0
  <2>1. run.scope \in SUBSET Adapters
    BY Typed
  <2> QED BY <1>9, <1>18, <2>1 DEF Core, PaidFor
<1>21. PaidFor'
  <2>1. bill \in [Days -> Nat]
    BY Typed
  <2> QED BY <1>1, <1>18, <1>19, <1>20, <2>1 DEF PaidFor, Adapters
<1> QED BY <1>1, <1>11, <1>12, <1>13, <1>14, <1>15, <1>21 DEF Core

\* A death leaves files cut short, each where nothing was paid for and kept, or a later one.
LEMMA DiesCore == Core /\ stage # "idle" /\ crashes' \in 0..MaxCrashes /\ Dies => Core'
<1> SUFFICES ASSUME Core, stage # "idle", crashes' \in 0..MaxCrashes, Dies PROVE Core'
  OBVIOUS
<1> DEFINE File3 == {NoFile} \cup [kind : {"torn"}, fresh : BOOLEAN] \cup [kind : {"file"}, fresh : BOOLEAN, result : Result]
<1>1. PICK hurt \in SUBSET {a \in run.scope : task[a] = "writing"} :
        /\ cache' = [cache EXCEPT ![run.day] = [a \in Adapters |-> IF a \in hurt THEN Torn ELSE cache[run.day][a]]]
        /\ torn' = IF hurt = {} THEN torn ELSE torn \cup {run.day}
  BY DEF Dies
<1>2. /\ stage' = "idle" /\ run' = NoRun /\ task' = <<>> /\ res' = <<>>
      /\ UNCHANGED <<env, day, dossier, bill, paid, runs>>
  BY DEF Dies
<1>3. run.day \in Days /\ day \in Days
  BY Typed, RunTyped
<1>4. hurt \subseteq Adapters
  <2>1. run.scope \in SUBSET Adapters
    BY Typed
  <2> QED BY <2>1
<1>5. Torn \in File3 /\ Torn.kind = "torn" /\ Torn.fresh
  BY DEF Torn
<1>6. cache \in [Days -> [Adapters -> File3]]
  BY Zenon, Typed
<1> HIDE DEF File3
<1>7. [a \in Adapters |-> IF a \in hurt THEN Torn ELSE cache[run.day][a]] \in [Adapters -> File3]
  BY <1>3, <1>5, <1>6
<1>8. /\ cache' \in [Days -> [Adapters -> File3]]
      /\ \A a \in hurt : cache'[run.day][a] = Torn
      /\ \A d \in Days, a \in Adapters : d # run.day \/ a \notin hurt => cache'[d][a] = cache[d][a]
  BY <1>1, <1>3, <1>4, <1>6, <1>7
<1>9. cache' \in [Days -> [Adapters -> {NoFile} \cup [kind : {"torn"}, fresh : BOOLEAN]
                                    \cup [kind : {"file"}, fresh : BOOLEAN, result : Result]]]
  BY Zenon, <1>8 DEF File3
<1>10. torn' \in SUBSET Days /\ (hurt # {} => run.day \in torn') /\ torn \subseteq torn'
  BY <1>1, <1>3, Typed
<1>11. run'.scope = {} /\ task' \in [{} -> {"waiting", "asking", "writing", "done"}]
       /\ res' \in [{} -> Result \cup {NoResult}] /\ DOMAIN res' = {}
  BY <1>2 DEF NoRun
<1>12. TraceTypeOK'
  BY <1>2, <1>9, <1>10, <1>11, Typed DEF Core, TraceTypeOK, Adapters
<1>13. RunFits' /\ WavesInOrder' /\ ResultsFit'
  BY <1>2, <1>11 DEF RunFits, WavesInOrder, ResultsFit
<1>14. FilesFit'
  <2> SUFFICES ASSUME NEW d \in Days, NEW b \in Adapters
               PROVE  /\ cache'[d][b].kind = "file" => Fitting(b, cache'[d][b].result) /\ cache'[d][b].result.status # "error"
                      /\ cache'[d][b].kind = "torn" => d \in torn'
    BY <1>2 DEF FilesFit, Adapters
  <2>1. CASE d = run.day /\ b \in hurt
    BY <1>5, <1>8, <1>10, <2>1
  <2>2. CASE d # run.day \/ b \notin hurt
    <3>1. cache'[d][b] = cache[d][b]
      BY <1>8, <2>2
    <3> QED BY <1>10, <3>1 DEF Core, FilesFit
  <2> QED BY <2>1, <2>2
<1>15. ASSUME NEW b \in Adapters, paid[b] = 1
       PROVE  cache'[day][b].kind # "none" /\ (b \in ShortLived => cache'[day][b].fresh)
  <2>1. CASE run.day = day /\ b \in hurt
    BY <1>5, <1>8, <2>1
  <2>2. CASE ~(run.day = day /\ b \in hurt)
    <3>1. cache'[day][b] = cache[day][b]
      BY <1>3, <1>8, <2>2
    <3> QED BY <1>15, <3>1 DEF Core, PaidFor
  <2> QED BY <2>1, <2>2
<1>16. PaidFor'
  <2>1. bill \in [Days -> Nat] /\ paid \in [Adapters -> {0, 1}]
    BY Typed
  <2> QED BY <1>2, <1>11, <1>15, <2>1 DEF PaidFor, Adapters
<1> QED BY <1>2, <1>12, <1>13, <1>14, <1>16 DEF Core

LEMMA CrashCore == Core /\ Crash => Core'
<1> HAVE Core /\ Crash
<1>1. stage # "idle" /\ crashes < MaxCrashes /\ crashes' = crashes + 1 /\ Dies
  BY DEF Crash
<1>2. crashes \in 0..MaxCrashes /\ MaxCrashes \in Nat
  BY Typed, Bounds
<1>3. crashes' \in 0..MaxCrashes
  BY <1>1, <1>2
<1> QED BY <1>1, <1>3, DiesCore

LEMMA RejectCore == \A a : Core /\ Reject(a) => Core'
<1> TAKE a
<1> HAVE Core /\ Reject(a)
<1>1. stage \in {"wave 1", "wave 2"} /\ Dies /\ crashes' = crashes
  BY DEF Reject
<1>2. crashes' \in 0..MaxCrashes
  BY <1>1, Typed
<1> QED BY <1>1, <1>2, DiesCore

LEMMA StepCore == Core /\ [Next]_trace => Core'
<1> SUFFICES ASSUME Core, [Next]_trace PROVE Core'
  OBVIOUS
<1>1. CASE RunStep
  BY <1>1, AnchorsCore, WaveCore, ReportCore, BeginCore, AnswerCore, WriteCore, RejectCore DEF RunStep
<1>2. CASE UNCHANGED trace
  <2>1. UNCHANGED <<env, stage, run, task, res, cache, day, dossier, bill, paid, torn, runs, crashes>>
    BY <1>2 DEF trace
  <2>2. TraceTypeOK'
    BY <2>1 DEF Core, TraceTypeOK, Adapters
  <2>3. RunFits' /\ WavesInOrder' /\ ResultsFit'
    BY <2>1 DEF Core, RunFits, WavesInOrder, ResultsFit, Adapters, Done
  <2>4. FilesFit' /\ PaidFor'
    BY <2>1 DEF Core, FilesFit, PaidFor, Adapters
  <2> QED BY <2>1, <2>2, <2>3, <2>4 DEF Core
<1> QED BY <1>1, <1>2, StartCore, ClearCore, CrashCore, MidnightCore, ExpireCore DEF Next

-----------------------------------------------------------------------------
(* The money of a day.                                                     *)

\* What the dossiers of a day could still report of an adapter: its file or its result in hand.
FileSpent(d, a) == IF cache[d][a].kind = "file" THEN cache[d][a].result.spent ELSE 0
InHand(d, a) ==
  IF stage # "idle" /\ run.day = d /\ a \in run.scope /\ task[a] \in {"writing", "done"} THEN res[a].spent ELSE 0
Worth(d) == [a \in Adapters |-> IF FileSpent(d, a) >= InHand(d, a) THEN FileSpent(d, a) ELSE InHand(d, a)]
FeeOf(d) == IF stage # "idle" /\ run.day = d THEN run.fee ELSE 0
Covered == \A d \in Days : FeeOf(d) + SumOver(Worth(d), Adapters) <= bill[d]
\* A dossier handed over charges no more than was spent, and its parts are its total, but
\* for what rounding may have moved.
DossierFits ==
  /\ dossier.handed \in BOOLEAN
  /\ dossier.handed => /\ dossier.day \in Days /\ dossier.total \in Nat /\ dossier.parts \in Nat /\ dossier.slack \in Nat
                       /\ dossier.total <= bill[dossier.day] + dossier.slack
                       /\ dossier.parts <= dossier.total + dossier.slack
                       /\ dossier.total <= dossier.parts + dossier.slack

AmountsOK ==
  /\ \A d \in Days : FeeOf(d) \in Nat /\ bill[d] \in Nat /\ Worth(d) \in [Adapters -> Nat]
  /\ \A d \in Days, a \in Adapters :
       /\ FileSpent(d, a) \in Nat /\ InHand(d, a) \in Nat /\ Worth(d)[a] \in {FileSpent(d, a), InHand(d, a)}
       /\ FileSpent(d, a) <= Worth(d)[a] /\ InHand(d, a) <= Worth(d)[a]

LEMMA Amounts == Core => AmountsOK
<1> HAVE Core
<1>1. \A d \in Days, a \in Adapters : FileSpent(d, a) \in Nat
  BY DEF Core, FilesFit, FileSpent, Fitting, Result
<1>2. \A d \in Days, a \in Adapters : InHand(d, a) \in Nat
  BY DEF Core, ResultsFit, InHand, Fitting, Result
<1>3. \A d \in Days : FeeOf(d) \in Nat
  BY RunTyped DEF FeeOf
<1>4. \A d \in Days : bill[d] \in Nat
  BY Typed
<1>5. \A d \in Days, a \in Adapters :
        /\ Worth(d)[a] \in {FileSpent(d, a), InHand(d, a)}
        /\ FileSpent(d, a) <= Worth(d)[a] /\ InHand(d, a) <= Worth(d)[a]
  BY <1>1, <1>2 DEF Worth
<1>6. \A d \in Days : Worth(d) \in [Adapters -> Nat]
  BY <1>1, <1>2 DEF Worth
<1> QED BY <1>1, <1>2, <1>3, <1>4, <1>5, <1>6 DEF AmountsOK

LEMMA AmountsNext == Core' => AmountsOK'
  BY Amounts, PTL

\* A step after which nothing is worth more than before, and which bills its fee.
LEMMA LesserCovered ==
  ASSUME Core, Core', Covered, env' = env,
         \A d \in Days : FeeOf(d)' + bill[d] <= FeeOf(d) + bill'[d],
         \A d \in Days, a \in Adapters : FileSpent(d, a)' <= Worth(d)[a] /\ InHand(d, a)' <= Worth(d)[a]
  PROVE  Covered'
<1>1. Adapters' = Adapters
  BY DEF Adapters
<1>2. IsFiniteSet(Adapters)
  BY Typed
<1> SUFFICES ASSUME NEW d \in Days PROVE FeeOf(d)' + SumOver(Worth(d)', Adapters) <= bill'[d]
  BY <1>1 DEF Covered
<1>3. \A a \in Adapters : /\ Worth(d)'[a] \in Nat /\ Worth(d)'[a] <= Worth(d)[a] /\ Worth(d)[a] \in Nat
  <2> TAKE a \in Adapters
  <2>1. Worth(d)'[a] \in {FileSpent(d, a)', InHand(d, a)'} /\ FileSpent(d, a)' \in Nat /\ InHand(d, a)' \in Nat
    BY <1>1, AmountsNext DEF AmountsOK
  <2>2. Worth(d)[a] \in Nat
    BY Amounts DEF AmountsOK
  <2> QED BY <2>1, <2>2
<1>4. SumOver(Worth(d)', Adapters) <= SumOver(Worth(d), Adapters)
  BY <1>2, <1>3, SumMonotone
<1>5. SumOver(Worth(d)', Adapters) \in Nat /\ SumOver(Worth(d), Adapters) \in Nat
  BY <1>2, <1>3, SumAdd
<1>6. FeeOf(d) + SumOver(Worth(d), Adapters) <= bill[d]
  BY DEF Covered
<1>7. FeeOf(d) \in Nat /\ FeeOf(d)' \in Nat /\ bill[d] \in Nat /\ bill'[d] \in Nat
  BY Amounts, AmountsNext DEF AmountsOK
<1>8. FeeOf(d)' + bill[d] <= FeeOf(d) + bill'[d]
  OBVIOUS
<1> DEFINE before == SumOver(Worth(d), Adapters)
           after == SumOver(Worth(d)', Adapters)
<1> HIDE DEF before, after
<1>9. after <= before /\ after \in Nat /\ before \in Nat /\ FeeOf(d) + before <= bill[d]
  BY <1>4, <1>5, <1>6 DEF before, after
<1>10. FeeOf(d)' + after <= bill'[d]
  BY <1>7, <1>8, <1>9
<1> QED BY <1>10 DEF after

\* Files and money as they are, and every result in hand as it was or from its file or gone.
LEMMA SameFilesCovered ==
  ASSUME Core, Core', Covered, env' = env, cache' = cache, bill' = bill,
         \A d \in Days : FeeOf(d)' \in {0, FeeOf(d)},
         \A d \in Days, a \in Adapters : InHand(d, a)' \in {0, InHand(d, a), FileSpent(d, a)}
  PROVE  Covered'
<1>1. \A d \in Days : FeeOf(d)' + bill[d] <= FeeOf(d) + bill'[d]
  <2> TAKE d \in Days
  <2>1. FeeOf(d) \in Nat /\ bill[d] \in Nat
    BY Amounts DEF AmountsOK
  <2> QED BY <2>1
<1>2. \A d \in Days, a \in Adapters : FileSpent(d, a)' <= Worth(d)[a] /\ InHand(d, a)' <= Worth(d)[a]
  <2> TAKE d \in Days, a \in Adapters
  <2>1. FileSpent(d, a)' = FileSpent(d, a)
    BY DEF FileSpent
  <2>2. FileSpent(d, a) \in Nat /\ InHand(d, a) \in Nat /\ Worth(d)[a] \in Nat
        /\ FileSpent(d, a) <= Worth(d)[a] /\ InHand(d, a) <= Worth(d)[a]
    BY Amounts DEF AmountsOK
  <2>3. 0 <= Worth(d)[a]
    BY <2>2
  <2> QED BY <2>1, <2>2, <2>3
<1> QED BY <1>1, <1>2, LesserCovered

\* A run that is over has nothing in hand.
LEMMA OverCovered ==
  ASSUME Core, Core', Covered, env' = env, stage' = "idle", bill' = bill,
         \A d \in Days, a \in Adapters : FileSpent(d, a)' <= FileSpent(d, a)
  PROVE  Covered'
<1>1. \A d \in Days, a \in Adapters : FeeOf(d)' = 0 /\ InHand(d, a)' = 0
  BY DEF FeeOf, InHand
<1>2. \A d \in Days : FeeOf(d)' = 0
  BY DEF FeeOf
<1>3. Adapters' = Adapters
  BY DEF Adapters
<1>4. \A d \in Days : FeeOf(d)' + bill[d] <= FeeOf(d) + bill'[d]
  <2> TAKE d \in Days
  <2>1. FeeOf(d) \in Nat /\ bill[d] \in Nat
    BY Amounts DEF AmountsOK
  <2> QED BY <1>2, <2>1
<1>5. \A d \in Days, a \in Adapters : FileSpent(d, a)' <= Worth(d)[a] /\ InHand(d, a)' <= Worth(d)[a]
  <2> TAKE d \in Days, a \in Adapters
  <2>1. FileSpent(d, a) \in Nat /\ FileSpent(d, a) <= Worth(d)[a] /\ Worth(d)[a] \in Nat
    BY Amounts DEF AmountsOK
  <2>2. FileSpent(d, a)' \in Nat
    BY <1>3, AmountsNext DEF AmountsOK
  <2> QED BY <1>1, <2>1, <2>2
<1> QED BY <1>4, <1>5, LesserCovered

LEMMA StartCovered == Core /\ Core' /\ Covered /\ Start => Covered'
<1> SUFFICES ASSUME Core, Core', Covered, NEW scope, NEW linkedin, NEW skipPaid, NEW useCache, NEW ceiling,
                    Invoke(scope, linkedin, skipPaid, useCache, ceiling)
             PROVE  Covered'
  BY DEF Start
<1>1. stage = "idle" /\ env' = env /\ cache' = cache /\ bill' = bill
  BY DEF Invoke
<1>2. CASE stage' = stage
  <2>1. \A d \in Days, a \in Adapters : InHand(d, a)' = 0
    BY <1>1, <1>2 DEF InHand
  <2>2. \A d \in Days : FeeOf(d)' = 0
    BY <1>1, <1>2 DEF FeeOf
  <2> QED BY <1>1, <2>1, <2>2, SameFilesCovered
<1>3. CASE stage' = "anchors"
  <2>1. run'.fee = 0 /\ \A a \in run'.scope : task'[a] = "waiting"
    BY <1>3 DEF Core, WavesInOrder
  <2>2. \A d \in Days, a \in Adapters : InHand(d, a)' = 0
    BY <2>1 DEF InHand
  <2>3. \A d \in Days : FeeOf(d)' = 0
    BY <2>1 DEF FeeOf
  <2> QED BY <1>1, <2>2, <2>3, SameFilesCovered
<1> QED BY <1>2, <1>3 DEF Invoke

LEMMA ClearCovered == Core /\ Core' /\ Covered /\ ClearCache => Covered'
<1> HAVE Core /\ Core' /\ Covered /\ ClearCache
<1>1. /\ env' = env /\ stage' = "idle" /\ bill' = bill
      /\ cache' = [d \in Days |-> [a \in Adapters |-> NoFile]]
  BY DEF ClearCache
<1>2. \A d \in Days, a \in Adapters : FileSpent(d, a)' = 0
  <2>1. \A d \in Days, a \in Adapters : cache'[d][a] = NoFile
    BY <1>1
  <2> QED BY <2>1 DEF FileSpent, NoFile
<1>3. \A d \in Days, a \in Adapters : FileSpent(d, a) \in Nat
  BY Amounts DEF AmountsOK
<1> QED BY <1>1, <1>2, <1>3, OverCovered

LEMMA AnchorsCovered == Core /\ Core' /\ Covered /\ DiscoverAnchors => Covered'
<1> SUFFICES ASSUME Core, Core', Covered, DiscoverAnchors PROVE Covered'
  OBVIOUS
<1>1. PICK found \in Links, asked \in BOOLEAN :
        /\ run' = [run EXCEPT !.anchors = found, !.fee = IF asked THEN Fee ELSE 0, !.day = day]
        /\ bill' = [bill EXCEPT ![day] = @ + IF asked THEN Fee ELSE 0]
  BY DEF DiscoverAnchors
<1> DEFINE fee == IF asked THEN Fee ELSE 0
<1>2. stage = "anchors" /\ stage' = "wave 1" /\ UNCHANGED <<env, task, res, cache>>
  BY DEF DiscoverAnchors
<1>3. fee \in Nat
  BY DEF Fee
<1>4. run' = [run EXCEPT !.anchors = found, !.fee = fee, !.day = day] /\ bill' = [bill EXCEPT ![day] = bill[day] + fee]
  BY <1>1
<1> HIDE DEF fee
<1>5. run \in [scope : SUBSET Adapters, skipped : SUBSET Adapters, linkedin : {"none", "url", "junk"},
               useCache : BOOLEAN, anchors : env.sites \cup {{}}, fee : {0, Fee}, day : Days]
  BY <1>2 DEF Core, RunFits
<1>6. run'.scope = run.scope /\ run'.day = day /\ run'.fee = fee
  BY <1>4, <1>5
<1>7. run.fee = 0 /\ \A a \in run.scope : task[a] = "waiting"
  BY <1>2 DEF Core, WavesInOrder
<1>8. \A d \in Days, a \in Adapters : InHand(d, a)' = 0
  BY <1>2, <1>6, <1>7 DEF InHand
<1>9. \A d \in Days : FeeOf(d) = 0 /\ FeeOf(d)' = IF d = day THEN fee ELSE 0
  BY <1>2, <1>6, <1>7 DEF FeeOf
<1>10. bill \in [Days -> Nat] /\ day \in Days
  BY Typed
<1>11. \A d \in Days : FeeOf(d)' + bill[d] <= FeeOf(d) + bill'[d]
  <2> TAKE d \in Days
  <2>1. bill'[d] = IF d = day THEN bill[d] + fee ELSE bill[d]
    BY <1>4, <1>10
  <2>2. bill[d] \in Nat
    BY <1>10
  <2> QED BY <1>3, <1>9, <2>1, <2>2
<1>12. \A d \in Days, a \in Adapters : FileSpent(d, a)' <= Worth(d)[a] /\ InHand(d, a)' <= Worth(d)[a]
  <2> TAKE d \in Days, a \in Adapters
  <2>1. FileSpent(d, a)' = FileSpent(d, a)
    BY <1>2 DEF FileSpent
  <2>2. FileSpent(d, a) \in Nat /\ FileSpent(d, a) <= Worth(d)[a] /\ Worth(d)[a] \in Nat
    BY Amounts DEF AmountsOK
  <2> QED BY <1>8, <2>1, <2>2
<1> QED BY <1>2, <1>11, <1>12, LesserCovered

LEMMA WaveCovered == Core /\ Core' /\ Covered /\ NextWave => Covered'
<1> HAVE Core /\ Core' /\ Covered /\ NextWave
<1>1. stage = "wave 1" /\ stage' = "wave 2" /\ UNCHANGED <<env, run, task, res, cache, bill>>
  BY DEF NextWave
<1>2. \A d \in Days : FeeOf(d)' = FeeOf(d)
  BY <1>1 DEF FeeOf
<1>3. \A d \in Days, a \in Adapters : InHand(d, a)' = InHand(d, a)
  BY <1>1 DEF InHand
<1> QED BY <1>1, <1>2, <1>3, SameFilesCovered

LEMMA ReportCovered == Core /\ Core' /\ Covered /\ Report => Covered'
<1> HAVE Core /\ Core' /\ Covered /\ Report
<1>1. env' = env /\ stage' = "idle" /\ bill' = bill /\ cache' = cache
  BY DEF Report
<1>2. \A d \in Days, a \in Adapters : FileSpent(d, a)' = FileSpent(d, a) /\ FileSpent(d, a) \in Nat
  BY <1>1, Amounts DEF FileSpent, AmountsOK
<1> QED BY <1>1, <1>2, OverCovered

LEMMA MidnightCovered == Core /\ Core' /\ Covered /\ Midnight => Covered'
<1> HAVE Core /\ Core' /\ Covered /\ Midnight
<1>1. UNCHANGED <<env, stage, run, task, res, cache, bill>>
  BY DEF Midnight
<1>2. \A d \in Days : FeeOf(d)' = FeeOf(d)
  BY <1>1 DEF FeeOf
<1>3. \A d \in Days, a \in Adapters : InHand(d, a)' = InHand(d, a)
  BY <1>1 DEF InHand
<1> QED BY <1>1, <1>2, <1>3, SameFilesCovered

LEMMA ExpireCovered == Core /\ Core' /\ Covered /\ Expire => Covered'
<1> HAVE Core /\ Core' /\ Covered /\ Expire
<1> DEFINE aged(f, a) == IF a \in ShortLived /\ f.kind # "none" THEN [f EXCEPT !.fresh = FALSE] ELSE f
           File3 == {NoFile} \cup [kind : {"torn"}, fresh : BOOLEAN] \cup [kind : {"file"}, fresh : BOOLEAN, result : Result]
<1>1. /\ cache' = [cache EXCEPT ![day] = [a \in Adapters |-> aged(cache[day][a], a)]]
      /\ UNCHANGED <<env, stage, run, task, res, bill>>
  BY DEF Expire
<1>2. \A f \in File3, a \in Adapters : aged(f, a).kind = f.kind /\ (f.kind = "file" => aged(f, a).result = f.result)
  BY DEF NoFile
<1>3. cache \in [Days -> [Adapters -> File3]] /\ day \in Days
  BY Zenon, Typed
<1> HIDE DEF aged, File3
<1>4. \A d \in Days, a \in Adapters : cache'[d][a] = IF d = day THEN aged(cache[d][a], a) ELSE cache[d][a]
  BY <1>1, <1>3
<1>5. \A d \in Days, a \in Adapters :
        cache'[d][a].kind = cache[d][a].kind /\ (cache[d][a].kind = "file" => cache'[d][a].result = cache[d][a].result)
  BY <1>2, <1>3, <1>4
<1>6. \A d \in Days, a \in Adapters : FileSpent(d, a)' = FileSpent(d, a) /\ FileSpent(d, a) \in Nat
  BY <1>5, Amounts DEF FileSpent, AmountsOK
<1>7. \A d \in Days : FeeOf(d)' = FeeOf(d)
  BY <1>1 DEF FeeOf
<1>8. \A d \in Days, a \in Adapters : InHand(d, a)' = InHand(d, a)
  BY <1>1 DEF InHand
<1>9. \A d \in Days : FeeOf(d)' + bill[d] <= FeeOf(d) + bill'[d]
  <2> TAKE d \in Days
  <2>1. FeeOf(d) \in Nat /\ bill[d] \in Nat
    BY Amounts DEF AmountsOK
  <2> QED BY <1>1, <1>7, <2>1
<1>10. \A d \in Days, a \in Adapters : FileSpent(d, a)' <= Worth(d)[a] /\ InHand(d, a)' <= Worth(d)[a]
  BY <1>6, <1>8, Amounts DEF AmountsOK
<1> QED BY <1>1, <1>9, <1>10, LesserCovered

LEMMA BeginCovered == \A a : Core /\ Core' /\ Covered /\ Begin(a) => Covered'
<1> SUFFICES ASSUME NEW a, Core, Core', Covered, Begin(a) PROVE Covered'
  OBVIOUS
<1>1. /\ stage \in {"wave 1", "wave 2"} /\ a \in Wave /\ task[a] = "waiting"
      /\ UNCHANGED <<env, stage, run, cache, bill>>
  BY DEF Begin
<1>2. a \in run.scope /\ a \in Adapters
  BY <1>1, InWave
<1>3. \A d \in Days : FeeOf(d)' = FeeOf(d)
  BY <1>1 DEF FeeOf
<1>4. task \in [run.scope -> {"waiting", "asking", "writing", "done"}] /\ res \in [run.scope -> Result \cup {NoResult}]
  BY Typed
<1>5. ASSUME NEW r, r.spent = 0 \/ (Stored(a).kind = "file" /\ r = Stored(a).result), Settle(a, r)
      PROVE  Covered'
  <2>1. /\ task'[a] = "done" /\ \A b \in run.scope : b # a => task'[b] = task[b]
        /\ res'[a] = r /\ \A b \in run.scope : b # a => res'[b] = res[b]
    BY <1>2, <1>4, <1>5 DEF Settle
  <2>2. ASSUME NEW d \in Days, NEW b \in Adapters
        PROVE  InHand(d, b)' \in {0, InHand(d, b), FileSpent(d, b)}
    <3>1. CASE b = a
      <4>1. run.day = d /\ r.spent # 0 => r.spent = FileSpent(d, b)
        BY <1>5, <3>1 DEF FileSpent, Stored
      <4>2. InHand(d, b)' = 0 \/ (run.day = d /\ InHand(d, b)' = r.spent)
        BY <1>1, <2>1, <3>1 DEF InHand
      <4> QED BY <4>1, <4>2
    <3>2. CASE b # a
      <4>1. InHand(d, b)' = InHand(d, b)
        BY <1>1, <2>1, <3>2 DEF InHand
      <4> QED BY <4>1
    <3> QED BY <3>1, <3>2
  <2> QED BY <1>1, <1>3, <2>2, SameFilesCovered
<1>6. CASE Settle(a, Stub)
  <2>1. Stub.spent = 0
    BY DEF Stub, Plain
  <2> QED BY <1>5, <1>6, <2>1
<1>7. CASE Settle(a, Plain("error", FALSE))
  <2>1. Plain("error", FALSE).spent = 0
    BY DEF Plain
  <2> QED BY <1>5, <1>7, <2>1
<1>8. CASE Stored(a).kind = "file" /\ Settle(a, Stored(a).result)
  BY <1>5, <1>8
<1>9. CASE task' = [task EXCEPT ![a] = "asking"] /\ UNCHANGED res
  <2>1. task'[a] = "asking" /\ \A b \in run.scope : b # a => task'[b] = task[b]
    BY <1>2, <1>4, <1>9
  <2>2. \A d \in Days, b \in Adapters : InHand(d, b)' = InHand(d, b)
    BY <1>1, <1>9, <2>1 DEF InHand
  <2> QED BY <1>1, <1>3, <2>2, SameFilesCovered
<1> QED BY <1>6, <1>7, <1>8, <1>9 DEF Begin

LEMMA AnswerCovered == \A a : Core /\ Core' /\ Covered /\ Answer(a) => Covered'
<1> SUFFICES ASSUME NEW a, Core, Core', Covered, Answer(a) PROVE Covered'
  OBVIOUS
<1>1. /\ stage \in {"wave 1", "wave 2"} /\ a \in Wave /\ task[a] = "asking"
      /\ UNCHANGED <<env, stage, run, cache>>
  BY DEF Answer
<1>2. a \in run.scope /\ a \in Adapters /\ a \in AllAdapters
  BY <1>1, InWave
<1>3. PICK r : /\ Fitting(a, r) /\ res' = [res EXCEPT ![a] = r]
               /\ task' = [task EXCEPT ![a] = IF r.status = "error" THEN "done" ELSE "writing"]
               /\ Spend(r.spent)
  BY <1>2, ValidatedFit DEF Answer
<1>4. r.spent \in Nat
  BY <1>3 DEF Fitting, Result
<1>5. task \in [run.scope -> {"waiting", "asking", "writing", "done"}] /\ res \in [run.scope -> Result \cup {NoResult}]
      /\ bill \in [Days -> Nat] /\ run.day \in Days /\ IsFiniteSet(Adapters)
  BY <1>1, Typed, RunTyped
<1>6. /\ \A b \in run.scope : b # a => task'[b] = task[b]
      /\ res'[a] = r /\ \A b \in run.scope : b # a => res'[b] = res[b]
  BY <1>2, <1>3, <1>5
<1>7. /\ bill'[run.day] = bill[run.day] + r.spent
      /\ \A d \in Days : d # run.day => bill'[d] = bill[d]
  BY <1>3, <1>5 DEF Spend
<1>8. /\ \A d \in Days : FeeOf(d)' = FeeOf(d)
      /\ \A d \in Days, b \in Adapters : FileSpent(d, b)' = FileSpent(d, b)
  BY <1>1 DEF FeeOf, FileSpent
<1>9. \A d \in Days, b \in Adapters : b # a \/ d # run.day => InHand(d, b)' = InHand(d, b)
  <2> SUFFICES ASSUME NEW d \in Days, NEW b \in Adapters, b # a \/ d # run.day
               PROVE  InHand(d, b)' = InHand(d, b)
    OBVIOUS
  <2>1. CASE d # run.day
    BY <1>1, <2>1 DEF InHand
  <2>2. CASE b # a
    BY <1>1, <1>6, <2>2 DEF InHand
  <2> QED BY <2>1, <2>2
<1>10. \A d \in Days : InHand(d, a)' \in {0, r.spent} \/ d # run.day
  BY <1>1, <1>6 DEF InHand
<1>11. Adapters' = Adapters
  BY <1>1 DEF Adapters
<1> SUFFICES ASSUME NEW d \in Days PROVE FeeOf(d)' + SumOver(Worth(d)', Adapters) <= bill'[d]
  BY <1>11 DEF Covered
<1>12. \A b \in Adapters : Worth(d)[b] \in Nat /\ Worth(d)'[b] \in Nat
  BY <1>11, Amounts, AmountsNext DEF AmountsOK
<1>13. \A b \in Adapters : b # a \/ d # run.day => Worth(d)'[b] = Worth(d)[b]
  BY <1>8, <1>9, <1>11 DEF Worth
<1>14. FeeOf(d) + SumOver(Worth(d), Adapters) <= bill[d] /\ FeeOf(d) \in Nat /\ bill[d] \in Nat
       /\ SumOver(Worth(d), Adapters) \in Nat
  BY <1>5, <1>12, Amounts, SumAdd DEF Covered, AmountsOK
<1>15. CASE d # run.day
  <2>1. SumOver(Worth(d)', Adapters) = SumOver(Worth(d), Adapters)
    BY <1>5, <1>12, <1>13, <1>15, SumEqual
  <2> QED BY <1>7, <1>8, <1>14, <1>15, <2>1
<1>16. CASE d = run.day
  <2>1. SumOver(Worth(d)', Adapters) = SumOver(Worth(d), Adapters) - Worth(d)[a] + Worth(d)'[a]
    BY <1>2, <1>5, <1>12, <1>13, SumChanged
  <2>2. Worth(d)'[a] <= Worth(d)[a] + r.spent
    <3>1. Worth(d)'[a] \in {FileSpent(d, a), InHand(d, a)'}
      BY <1>2, <1>8, <1>11, AmountsNext DEF AmountsOK
    <3>2. FileSpent(d, a) \in Nat /\ FileSpent(d, a) <= Worth(d)[a] /\ Worth(d)[a] \in Nat
      BY <1>2, Amounts DEF AmountsOK
    <3>3. InHand(d, a)' \in {0, r.spent}
      BY <1>10, <1>16
    <3> QED BY <1>4, <3>1, <3>2, <3>3
  <2>3. Worth(d)[a] \in Nat /\ Worth(d)'[a] \in Nat
    BY <1>2, <1>12
  <2> DEFINE before == SumOver(Worth(d), Adapters)
             after == SumOver(Worth(d)', Adapters)
             old == Worth(d)[a]
             new == Worth(d)'[a]
  <2>4. bill'[d] = bill[d] + r.spent /\ FeeOf(d)' = FeeOf(d)
    BY <1>7, <1>8, <1>16
  <2>5. before \in Nat /\ FeeOf(d) + before <= bill[d] /\ FeeOf(d) \in Nat /\ bill[d] \in Nat
        /\ old \in Nat /\ new \in Nat /\ new <= old + r.spent /\ after = before - old + new
    BY <1>14, <2>1, <2>2, <2>3
  <2> HIDE DEF before, after, old, new
  <2>6. FeeOf(d) + after <= bill[d] + r.spent
    BY <1>4, <2>5
  <2> QED BY <2>4, <2>6 DEF after
<1> QED BY <1>15, <1>16

LEMMA WriteCovered == \A a : Core /\ Core' /\ Covered /\ WriteFile(a) => Covered'
<1> SUFFICES ASSUME NEW a, Core, Core', Covered, WriteFile(a) PROVE Covered'
  OBVIOUS
<1> DEFINE file == File(res[a])
           File3 == {NoFile} \cup [kind : {"torn"}, fresh : BOOLEAN] \cup [kind : {"file"}, fresh : BOOLEAN, result : Result]
<1>1. /\ stage \in {"wave 1", "wave 2"} /\ a \in Wave /\ task[a] = "writing"
      /\ UNCHANGED <<env, stage, run, res, bill>>
      /\ cache' = [cache EXCEPT ![run.day][a] = file] /\ task' = [task EXCEPT ![a] = "done"]
  BY DEF WriteFile
<1>2. a \in run.scope /\ a \in Adapters
  BY <1>1, InWave
<1>3. task \in [run.scope -> {"waiting", "asking", "writing", "done"}] /\ run.day \in Days
  BY <1>1, Typed, RunTyped
<1>4. cache \in [Days -> [Adapters -> File3]]
  BY Zenon, Typed
<1>5. file.kind = "file" /\ file.result = res[a]
  BY DEF File
<1> HIDE DEF file, File3
<1>6. /\ cache'[run.day][a] = file
      /\ \A d \in Days, b \in Adapters : d # run.day \/ b # a => cache'[d][b] = cache[d][b]
  BY <1>1, <1>2, <1>3, <1>4
<1>7. task'[a] = "done" /\ \A b \in run.scope : b # a => task'[b] = task[b]
  BY <1>1, <1>2, <1>3
<1>8. \A d \in Days : FeeOf(d)' = FeeOf(d)
  BY <1>1 DEF FeeOf
<1>9. \A d \in Days, b \in Adapters : InHand(d, b)' = InHand(d, b)
  BY <1>1, <1>7 DEF InHand
<1>10. \A d \in Days, b \in Adapters : FileSpent(d, b)' \in {FileSpent(d, b), InHand(d, b)}
  <2> TAKE d \in Days, b \in Adapters
  <2>1. CASE d = run.day /\ b = a
    <3>1. FileSpent(d, b)' = res[a].spent
      BY <1>5, <1>6, <2>1 DEF FileSpent
    <3>2. InHand(d, b) = res[a].spent
      BY <1>1, <1>2, <2>1 DEF InHand
    <3> QED BY <3>1, <3>2
  <2>2. CASE d # run.day \/ b # a
    <3>1. FileSpent(d, b)' = FileSpent(d, b)
      BY <1>6, <2>2 DEF FileSpent
    <3> QED BY <3>1
  <2> QED BY <2>1, <2>2
<1>11. \A d \in Days : FeeOf(d)' + bill[d] <= FeeOf(d) + bill'[d]
  <2> TAKE d \in Days
  <2>1. FeeOf(d) \in Nat /\ bill[d] \in Nat
    BY Amounts DEF AmountsOK
  <2>2. bill'[d] = bill[d]
    BY <1>1
  <2> QED BY <1>8, <2>1, <2>2
<1>12. \A d \in Days, b \in Adapters : FileSpent(d, b)' <= Worth(d)[b] /\ InHand(d, b)' <= Worth(d)[b]
  BY <1>9, <1>10, Amounts DEF AmountsOK
<1> QED BY <1>1, <1>11, <1>12, LesserCovered

LEMMA DiesCovered == Core /\ Core' /\ Covered /\ stage # "idle" /\ Dies => Covered'
<1> SUFFICES ASSUME Core, Core', Covered, stage # "idle", Dies PROVE Covered'
  OBVIOUS
<1> DEFINE File3 == {NoFile} \cup [kind : {"torn"}, fresh : BOOLEAN] \cup [kind : {"file"}, fresh : BOOLEAN, result : Result]
<1>1. PICK hurt \in SUBSET {a \in run.scope : task[a] = "writing"} :
        cache' = [cache EXCEPT ![run.day] = [a \in Adapters |-> IF a \in hurt THEN Torn ELSE cache[run.day][a]]]
  BY DEF Dies
<1>2. env' = env /\ stage' = "idle" /\ bill' = bill
  BY DEF Dies
<1>3. run.day \in Days
  BY RunTyped
<1>4. cache \in [Days -> [Adapters -> File3]]
  BY Zenon, Typed
<1> HIDE DEF File3
<1>5. \A d \in Days, b \in Adapters : cache'[d][b] \in {cache[d][b], Torn}
  BY <1>1, <1>3, <1>4
<1>6. \A d \in Days, b \in Adapters : FileSpent(d, b)' \in {0, FileSpent(d, b)}
  BY <1>5 DEF FileSpent, Torn
<1>7. \A d \in Days, b \in Adapters : FileSpent(d, b)' <= FileSpent(d, b)
  <2> TAKE d \in Days, b \in Adapters
  <2>1. FileSpent(d, b) \in Nat
    BY Amounts DEF AmountsOK
  <2> QED BY <1>6, <2>1
<1> QED BY <1>2, <1>7, OverCovered

LEMMA InitCovered == TraceInit => Covered
<1> HAVE TraceInit
<1>1. Core
  BY CoreInit
<1>2. IsFiniteSet(Adapters)
  BY <1>1, Typed
<1> SUFFICES ASSUME NEW d \in Days PROVE FeeOf(d) + SumOver(Worth(d), Adapters) <= bill[d]
  BY DEF Covered
<1>3. FeeOf(d) = 0 /\ bill[d] = 0 /\ \A a \in Adapters : Worth(d)[a] = 0
  <2>1. \A a \in Adapters : FileSpent(d, a) = 0 /\ InHand(d, a) = 0
    BY DEF TraceInit, FileSpent, InHand, NoFile
  <2> QED BY <2>1 DEF TraceInit, FeeOf, Worth
<1>4. SumOver(Worth(d), Adapters) = SumOver(Worth(d), {})
  BY <1>2, <1>3, SumWithoutZeros
<1> QED BY <1>3, <1>4, SumEmpty

-----------------------------------------------------------------------------
(* The dossier.                                                            *)

\* The two sums of a dossier, as the code forms them, and its slack.
SlackSum == MapThenSumSet(LAMBDA a : Rounded(res[a]), run.scope)
CostSum == MapThenSumSet(LAMBDA a : res[a].cost, run.scope)
AllResults == [a \in run.scope \cup run.skipped |-> IF a \in run.scope THEN res[a] ELSE Stub]
PartSum == MapThenSumSet(LAMBDA a : Attributed(a, AllResults[a]), DOMAIN AllResults)

LEMMA CostSumIs ==
  ASSUME IsFiniteSet(run.scope), NEW f, \A a \in run.scope : f[a] = res[a].cost
  PROVE  CostSum = SumOver(f, run.scope)
<1> DEFINE S == run.scope
           step(s, g) == IF s = {} THEN 0 ELSE res[One(s)].cost + g[s \ {One(s)}]
           it == CHOOSE g : g = [s \in SUBSET S |-> step(s, g)]
<1>1. CostSum = it[S]
  BY DEF CostSum, MapThenSumSet, MapThenFoldSet, One
<1>2. \A g : Sums(f, S, g) <=> g = [s \in SUBSET S |-> step(s, g)]
  <2> TAKE g
  <2>1. \A s \in SUBSET S : Plus(f, g, s) = step(s, g)
    BY OneInside DEF Plus, Tail
  <2> HIDE DEF step
  <2>2. [s \in SUBSET S |-> Plus(f, g, s)] = [s \in SUBSET S |-> step(s, g)]
    BY <2>1
  <2> QED BY <2>2 DEF Sums
<1> HIDE DEF step
<1>3. \E g : g = [s \in SUBSET S |-> step(s, g)]
  BY <1>2, SumsExist
<1>4. Sums(f, S, it)
  BY <1>2, <1>3
<1> HIDE DEF it
<1>5. SumOver(f, S) = it[S]
  BY <1>4, SumPart
<1> QED BY <1>1, <1>5

LEMMA SlackSumIs ==
  ASSUME IsFiniteSet(run.scope), NEW f, \A a \in run.scope : f[a] = Rounded(res[a])
  PROVE  SlackSum = SumOver(f, run.scope)
<1> DEFINE S == run.scope
           step(s, g) == IF s = {} THEN 0 ELSE Rounded(res[One(s)]) + g[s \ {One(s)}]
           it == CHOOSE g : g = [s \in SUBSET S |-> step(s, g)]
<1>1. SlackSum = it[S]
  BY DEF SlackSum, MapThenSumSet, MapThenFoldSet, One
<1>2. \A g : Sums(f, S, g) <=> g = [s \in SUBSET S |-> step(s, g)]
  <2> TAKE g
  <2>1. \A s \in SUBSET S : Plus(f, g, s) = step(s, g)
    BY OneInside DEF Plus, Tail
  <2> HIDE DEF step
  <2>2. [s \in SUBSET S |-> Plus(f, g, s)] = [s \in SUBSET S |-> step(s, g)]
    BY <2>1
  <2> QED BY <2>2 DEF Sums
<1> HIDE DEF step
<1>3. \E g : g = [s \in SUBSET S |-> step(s, g)]
  BY <1>2, SumsExist
<1>4. Sums(f, S, it)
  BY <1>2, <1>3
<1> HIDE DEF it
<1>5. SumOver(f, S) = it[S]
  BY <1>4, SumPart
<1> QED BY <1>1, <1>5

LEMMA PartSumIs ==
  ASSUME IsFiniteSet(DOMAIN AllResults), NEW f, \A a \in DOMAIN AllResults : f[a] = Attributed(a, AllResults[a])
  PROVE  PartSum = SumOver(f, DOMAIN AllResults)
<1> DEFINE S == DOMAIN AllResults
           step(s, g) == IF s = {} THEN 0 ELSE Attributed(One(s), AllResults[One(s)]) + g[s \ {One(s)}]
           it == CHOOSE g : g = [s \in SUBSET S |-> step(s, g)]
<1>1. PartSum = it[S]
  BY DEF PartSum, MapThenSumSet, MapThenFoldSet, One
<1>2. \A g : Sums(f, S, g) <=> g = [s \in SUBSET S |-> step(s, g)]
  <2> TAKE g
  <2>1. \A s \in SUBSET S : Plus(f, g, s) = step(s, g)
    BY OneInside DEF Plus, Tail
  <2> HIDE DEF step
  <2>2. [s \in SUBSET S |-> Plus(f, g, s)] = [s \in SUBSET S |-> step(s, g)]
    BY <2>1
  <2> QED BY <2>2 DEF Sums
<1> HIDE DEF step
<1>3. \E g : g = [s \in SUBSET S |-> step(s, g)]
  BY <1>2, SumsExist
<1>4. Sums(f, S, it)
  BY <1>2, <1>3
<1> HIDE DEF it
<1>5. SumOver(f, S) = it[S]
  BY <1>4, SumPart
<1> QED BY <1>1, <1>5

\* A sum of natural numbers that are within others of a third.
LEMMA SumsWithin ==
  ASSUME NEW S, IsFiniteSet(S), NEW f, NEW g, NEW h,
         \A a \in S : f[a] \in Nat /\ g[a] \in Nat /\ h[a] \in Nat /\ f[a] <= g[a] + h[a]
  PROVE  /\ SumOver(f, S) \in Nat /\ SumOver(g, S) \in Nat /\ SumOver(h, S) \in Nat
         /\ SumOver(f, S) <= SumOver(g, S) + SumOver(h, S)
<1> DEFINE both == [a \in S |-> g[a] + h[a]]
<1>1. \A a \in S : both[a] \in Nat /\ both[a] = g[a] + h[a] /\ f[a] <= both[a]
  OBVIOUS
<1> HIDE DEF both
<1>2. SumOver(f, S) <= SumOver(both, S)
  BY <1>1, SumMonotone
<1>3. SumOver(both, S) = SumOver(g, S) + SumOver(h, S)
  BY <1>1, SumsAddUp
<1>4. SumOver(f, S) \in Nat /\ SumOver(g, S) \in Nat /\ SumOver(h, S) \in Nat
  BY SumAdd
<1> QED BY <1>2, <1>3, <1>4

LEMMA ReportDossier == Core /\ Core' /\ Covered /\ Report => DossierFits'
<1> SUFFICES ASSUME Core, Core', Covered, Report PROVE DossierFits'
  OBVIOUS
<1> DEFINE given == [handed |-> TRUE, day |-> run.day, total |-> Round(run.fee) + CostSum,
                     parts |-> Round(run.fee) + PartSum, slack |-> Slack(run.fee) + SlackSum]
<1>1. stage = "wave 2" /\ Done(run.scope) /\ bill' = bill
  BY DEF Report
<1>2. CASE dossier' = NoDossier
  BY <1>2 DEF DossierFits, NoDossier
<1>3. CASE dossier' = given
  <2> DEFINE cost == [a \in Adapters |-> IF a \in run.scope THEN res[a].cost ELSE 0]
             part == [a \in run.scope \cup run.skipped |-> Attributed(a, AllResults[a])]
             spent == [a \in Adapters |-> IF a \in run.scope THEN res[a].spent ELSE 0]
             slack == [a \in Adapters |-> IF a \in run.scope THEN Rounded(res[a]) ELSE 0]
  <2>1. run.day \in Days /\ run.fee \in Nat /\ bill \in [Days -> Nat] /\ run.scope \in SUBSET Adapters /\ IsFiniteSet(Adapters)
    BY <1>1, RunTyped, Typed
  <2>2. run.skipped \in SUBSET Adapters
    BY <1>1 DEF Core, RunFits
  <2>3. IsFiniteSet(run.scope)
    BY <2>1, FS_Subset
  <2>4. \A a \in run.scope : Fitting(a, res[a]) /\ InHand(run.day, a) = res[a].spent
    BY <1>1 DEF Core, ResultsFit, Done, Fitting, InHand
  <2>5. \A a \in run.scope : res[a].cost \in Nat /\ res[a].spent \in Nat /\ Rounded(res[a]) \in Nat
    BY <2>4, SlackIs DEF Fitting, Result
  <2>6. /\ DOMAIN AllResults = run.scope \cup run.skipped
        /\ \A a \in run.scope : AllResults[a] = res[a]
        /\ \A a \in run.skipped \ run.scope : AllResults[a] = Stub
    BY DEF AllResults
  <2>7. \A a \in run.scope :
          /\ cost[a] = res[a].cost /\ spent[a] = res[a].spent /\ slack[a] = Rounded(res[a])
          /\ part[a] = Attributed(a, res[a])
    BY <2>1, <2>6
  <2>8. \A a \in run.skipped \ run.scope : part[a] = 0
    <3> TAKE a \in run.skipped \ run.scope
    <3>1. a \in AllAdapters
      BY <2>2, Typed
    <3>2. Fitting(a, Stub) /\ Stub.cost = 0 /\ Rounded(Stub) = 0
      BY <3>1, SettlesOK DEF Stub, Plain, Rounded, Slack
    <3>3. Attributed(a, Stub) = 0
      BY <3>2 DEF Fitting
    <3>4. AllResults[a] = Stub
      BY <2>6
    <3> QED BY <3>3, <3>4
  <2>9. \A a \in DOMAIN AllResults : part[a] = Attributed(a, AllResults[a])
    BY <2>6
  <2>10. \A a \in Adapters : spent[a] \in Nat /\ spent[a] <= Worth(run.day)[a] /\ Worth(run.day)[a] \in Nat
    <3> TAKE a \in Adapters
    <3>1. InHand(run.day, a) \in Nat /\ Worth(run.day)[a] \in Nat /\ InHand(run.day, a) <= Worth(run.day)[a]
      BY <2>1, Amounts DEF AmountsOK
    <3> QED BY <2>4, <3>1
  <2>11. \A a \in Adapters \ run.scope : spent[a] = 0
    BY <2>1
  <2> HIDE DEF cost, part, spent, slack
  <2>12. \A a \in run.scope : /\ cost[a] \in Nat /\ spent[a] \in Nat /\ slack[a] \in Nat /\ part[a] \in Nat
                              /\ cost[a] <= spent[a] + slack[a]
                              /\ part[a] <= cost[a] + slack[a] /\ cost[a] <= part[a] + slack[a]
    BY <2>4, <2>5, <2>7 DEF Fitting
  <2>13. CostSum = SumOver(cost, run.scope) /\ SlackSum = SumOver(slack, run.scope)
    BY <2>3, <2>7, CostSumIs, SlackSumIs
  <2>14. PartSum = SumOver(part, run.scope)
    <3>1. IsFiniteSet(DOMAIN AllResults)
      <4>1. DOMAIN AllResults \in SUBSET Adapters
        BY <2>1, <2>2, <2>6
      <4> QED BY <2>1, <4>1, FS_Subset
    <3>2. PartSum = SumOver(part, DOMAIN AllResults)
      BY <2>9, <3>1, PartSumIs
    <3>3. run.scope \in SUBSET DOMAIN AllResults /\ \A a \in DOMAIN AllResults \ run.scope : part[a] = 0
      BY <2>6, <2>8
    <3>4. \A a \in DOMAIN AllResults : part[a] \in Nat
      BY <2>6, <2>8, <2>12
    <3>5. SumOver(part, DOMAIN AllResults) = SumOver(part, run.scope)
      BY <3>1, <3>3, <3>4, SumWithoutZeros
    <3> QED BY <3>2, <3>5
  <2>15. SumOver(spent, run.scope) <= SumOver(Worth(run.day), Adapters) /\ SumOver(Worth(run.day), Adapters) \in Nat
    <3>1. SumOver(spent, Adapters) = SumOver(spent, run.scope)
      BY <2>1, <2>10, <2>11, SumWithoutZeros
    <3> QED BY <2>1, <2>10, <3>1, SumMonotone, SumAdd
  <2>16. run.fee + SumOver(Worth(run.day), Adapters) <= bill[run.day]
    BY <1>1, <2>1 DEF Covered, FeeOf
  <2>17. /\ SumOver(cost, run.scope) \in Nat /\ SumOver(spent, run.scope) \in Nat /\ SumOver(slack, run.scope) \in Nat
         /\ SumOver(cost, run.scope) <= SumOver(spent, run.scope) + SumOver(slack, run.scope)
    BY <2>3, <2>12, SumsWithin
  <2>18. /\ SumOver(part, run.scope) \in Nat
         /\ SumOver(part, run.scope) <= SumOver(cost, run.scope) + SumOver(slack, run.scope)
    BY <2>3, <2>12, SumsWithin
  <2>19. SumOver(cost, run.scope) <= SumOver(part, run.scope) + SumOver(slack, run.scope)
    BY <2>3, <2>12, SumsWithin
  <2> DEFINE c == SumOver(cost, run.scope)
             p == SumOver(part, run.scope)
             s == SumOver(spent, run.scope)
             k == SumOver(slack, run.scope)
             w == SumOver(Worth(run.day), Adapters)
             fee == run.fee
             whole == Round(run.fee)
             half == Slack(run.fee)
             b == bill[run.day]
  <2>20. fee \in Nat /\ whole \in Nat /\ half \in Nat /\ whole <= fee + half /\ b \in Nat
    BY <2>1, RoundFits, SlackIs
  <2>21. /\ c \in Nat /\ p \in Nat /\ s \in Nat /\ k \in Nat /\ w \in Nat
         /\ c <= s + k /\ p <= c + k /\ c <= p + k /\ s <= w /\ fee + w <= b
    BY <2>15, <2>16, <2>17, <2>18, <2>19
  <2>22. given = [handed |-> TRUE, day |-> run.day, total |-> whole + c, parts |-> whole + p, slack |-> half + k]
    BY <2>13, <2>14
  <2>23. b = bill'[run.day]
    BY <1>1
  <2> HIDE DEF c, p, s, k, w, fee, whole, half, b
  <2>24. /\ whole + c \in Nat /\ whole + p \in Nat /\ half + k \in Nat
         /\ whole + c <= b + (half + k)
         /\ whole + p <= (whole + c) + (half + k) /\ whole + c <= (whole + p) + (half + k)
    BY <2>20, <2>21
  <2>25. /\ dossier'.handed = TRUE /\ dossier'.day = run.day /\ dossier'.total = whole + c
         /\ dossier'.parts = whole + p /\ dossier'.slack = half + k
    BY <1>3, <2>22
  <2>26. Days' = Days
    BY DEF Days
  <2> QED BY <2>1, <2>23, <2>24, <2>25, <2>26 DEF DossierFits
<1>4. dossier' = IF run.linkedin = "junk" THEN NoDossier ELSE given
  BY DEF Report, CostSum, PartSum, SlackSum, AllResults
<1> QED BY <1>2, <1>3, <1>4

-----------------------------------------------------------------------------
(* The theorems.                                                           *)
TraceInv == Core /\ Covered /\ DossierFits

LEMMA SameDossier ==
  ASSUME Core, DossierFits, dossier' = dossier, \A d \in Days : bill'[d] \in Nat /\ bill[d] <= bill'[d]
  PROVE  DossierFits'
<1>1. \A d \in Days : bill[d] \in Nat
  BY Typed
<1>2. dossier.handed => /\ dossier.day \in Days /\ dossier.total \in Nat /\ dossier.slack \in Nat
                        /\ dossier.total <= bill[dossier.day] + dossier.slack
  BY DEF DossierFits
<1>3. dossier.handed => dossier.total <= bill'[dossier.day] + dossier.slack
  <2> HAVE dossier.handed
  <2> DEFINE b == bill[dossier.day]
             c == bill'[dossier.day]
  <2>1. /\ b \in Nat /\ c \in Nat /\ b <= c /\ dossier.total \in Nat /\ dossier.slack \in Nat
        /\ dossier.total <= b + dossier.slack
    BY <1>1, <1>2
  <2> HIDE DEF b, c
  <2>2. dossier.total <= c + dossier.slack
    BY <2>1
  <2> QED BY <2>2 DEF c
<1> QED BY <1>2, <1>3 DEF DossierFits

LEMMA StepDossier == Core /\ Core' /\ Covered /\ DossierFits /\ [Next]_trace => DossierFits'
<1> SUFFICES ASSUME Core, Core', Covered, DossierFits, [Next]_trace PROVE DossierFits'
  OBVIOUS
<1>0. \A d \in Days : bill[d] \in Nat
  BY Typed
<1>1. CASE dossier' = dossier /\ bill' = bill
  <2>1. \A d \in Days : bill'[d] \in Nat /\ bill[d] <= bill'[d]
    BY <1>0, <1>1
  <2> QED BY <1>1, <2>1, SameDossier
<1>2. CASE Start
  <2>1. dossier' = NoDossier
    BY <1>2 DEF Start, Invoke
  <2> QED BY <2>1 DEF DossierFits, NoDossier
<1>3. CASE DiscoverAnchors
  <2>1. PICK fee \in Nat : bill' = [bill EXCEPT ![day] = bill[day] + fee]
    <3>1. Fee \in Nat /\ 0 \in Nat
      BY DEF Fee
    <3> QED BY <1>3, <3>1 DEF DiscoverAnchors
  <2>2. dossier' = dossier
    BY <1>3 DEF DiscoverAnchors
  <2>3. bill \in [Days -> Nat] /\ day \in Days
    BY Typed
  <2>4. \A d \in Days : bill'[d] = bill[d] \/ bill'[d] = bill[d] + fee
    BY <2>1, <2>3
  <2>5. \A d \in Days : bill'[d] \in Nat /\ bill[d] <= bill'[d]
    BY <1>0, <2>4
  <2> QED BY <2>2, <2>5, SameDossier
<1>4. ASSUME NEW a, Answer(a) PROVE DossierFits'
  <2>1. stage \in {"wave 1", "wave 2"} /\ a \in Wave /\ dossier' = dossier
    BY <1>4 DEF Answer
  <2>2. a \in AllAdapters /\ run.day \in Days /\ bill \in [Days -> Nat]
    BY <2>1, InWave, RunTyped, Typed
  <2>3. PICK r : Fitting(a, r) /\ Spend(r.spent)
    BY <1>4, <2>2, ValidatedFit DEF Answer
  <2>4. r.spent \in Nat
    BY <2>3 DEF Fitting, Result
  <2>5. \A d \in Days : bill'[d] = bill[d] \/ bill'[d] = bill[d] + r.spent
    BY <2>2, <2>3 DEF Spend
  <2>6. \A d \in Days : bill'[d] \in Nat /\ bill[d] <= bill'[d]
    BY <1>0, <2>4, <2>5
  <2> QED BY <2>1, <2>6, SameDossier
<1>5. ASSUME NEW a, Begin(a) \/ WriteFile(a) \/ Reject(a) PROVE dossier' = dossier /\ bill' = bill
  BY <1>5 DEF Begin, WriteFile, Reject, Dies
<1>6. CASE ClearCache \/ NextWave \/ Crash \/ Midnight \/ Expire \/ UNCHANGED trace
  <2>1. dossier' = dossier /\ bill' = bill
    BY <1>6 DEF ClearCache, NextWave, Crash, Dies, Midnight, Expire, trace
  <2> QED BY <1>1, <2>1
<1> QED BY <1>1, <1>2, <1>3, <1>4, <1>5, <1>6, ReportDossier DEF Next, RunStep

LEMMA StepCovered == Core /\ Core' /\ Covered /\ [Next]_trace => Covered'
<1> SUFFICES ASSUME Core, Core', Covered, [Next]_trace PROVE Covered'
  OBVIOUS
<1>1. CASE RunStep
  <2>1. ASSUME NEW a, Reject(a) PROVE stage # "idle" /\ Dies
    BY <2>1 DEF Reject
  <2> QED BY <1>1, <2>1, AnchorsCovered, WaveCovered, ReportCovered, BeginCovered, AnswerCovered, WriteCovered,
             DiesCovered DEF RunStep
<1>2. CASE Crash
  BY <1>2, DiesCovered DEF Crash
<1>3. CASE UNCHANGED trace
  <2>1. UNCHANGED <<env, stage, run, task, res, cache, bill>>
    BY <1>3 DEF trace
  <2>2. \A d \in Days : FeeOf(d)' = FeeOf(d)
    BY <2>1 DEF FeeOf
  <2>3. \A d \in Days, a \in Adapters : InHand(d, a)' = InHand(d, a)
    BY <2>1 DEF InHand
  <2> QED BY <2>1, <2>2, <2>3, SameFilesCovered
<1> QED BY <1>1, <1>2, <1>3, StartCovered, ClearCovered, MidnightCovered, ExpireCovered DEF Next

\* Every reachable state has the whole invariant: the run in order, its results and files as the
\* adapters give them, the day's spending above what is still in hand, and the dossier within it.
THEOREM TraceInvariant == Spec => []TraceInv
<1>1. TraceInit => TraceInv
  <2> HAVE TraceInit
  <2>1. DossierFits
    BY DEF TraceInit, DossierFits, NoDossier
  <2> QED BY <2>1, CoreInit, InitCovered DEF TraceInv
<1>2. TraceInv /\ [Next]_trace => TraceInv'
  BY StepCore, StepCovered, StepDossier DEF TraceInv
<1> QED BY <1>1, <1>2, PTL DEF Spec

\* The run, the cache and the files keep their shapes, whatever is asked and whenever a run dies.
THEOREM TraceTypes == Spec => []TraceTypeOK
<1>1. TraceInv => TraceTypeOK
  BY DEF TraceInv, Core
<1> QED BY <1>1, TraceInvariant, PTL

\* The costs of a dossier are real, but for what is rounded, for what fails after it was paid
\* for, and for the rows of an actor beyond those kept: each answer's, their total against the
\* spending of its day, and their parts; and nothing kept is paid for twice in a day.
THEOREM CostsAreAccounted == Spec => []CostsAccounted
<1>1. TraceInv => Accounted
  BY DEF TraceInv, Core, ResultsFit, Fitting, Accounted
<1>2. TraceInv => BilledToday /\ PartsAddUp
  BY DEF TraceInv, DossierFits, BilledToday, PartsAddUp
<1>3. TraceInv => PaidOnce
  <2> SUFFICES ASSUME TraceInv, NEW a \in Adapters PROVE paid[a] <= 1
    BY DEF PaidOnce
  <2>1. paid[a] \in {0, 1}
    BY Typed DEF TraceInv
  <2> QED BY <2>1
<1>4. TraceInv => CostsAccounted
  BY <1>1, <1>2, <1>3 DEF CostsAccounted
<1> QED BY <1>4, TraceInvariant, PTL

\* Only seven adapters ever keep an outage as "there is nothing".
THEOREM OutagesKept == Spec => []OutageKeptAsNothing
<1>1. TraceInv => OutageKeptAsNothing
  <2> SUFFICES ASSUME TraceInv, NEW d \in Days, NEW a \in Adapters, cache[d][a].kind = "file",
                      cache[d][a].result.status \in {"empty", "error"}, cache[d][a].result.cut
               PROVE  a \in Hushes
    BY DEF OutageKeptAsNothing
  <2>1. Fitting(a, cache[d][a].result) /\ cache[d][a].result.status # "error"
    BY DEF TraceInv, Core, FilesFit
  <2> QED BY <2>1 DEF Fitting
<1> QED BY <1>1, TraceInvariant, PTL

\* A run rejects itself over a file only where another one died before.
THEOREM RejectionsFollowDeaths == Spec => RejectedOnlyAfterDeath
<1>1. TraceInv => ((\E a \in run.scope : Reject(a)) => run.day \in torn)
  <2> SUFFICES ASSUME TraceInv, NEW a \in run.scope, Reject(a) PROVE run.day \in torn
    OBVIOUS
  <2>1. stage \in {"wave 1", "wave 2"} /\ cache[run.day][a].kind = "torn"
    BY DEF Reject, Stored
  <2>2. Core
    BY DEF TraceInv
  <2>3. a \in Adapters /\ run.day \in Days
    BY <2>1, <2>2, Typed, RunTyped
  <2> QED BY <2>1, <2>2, <2>3 DEF Core, FilesFit
<1> QED BY <1>1, TraceInvariant, PTL DEF RejectedOnlyAfterDeath, Spec

-----------------------------------------------------------------------------
(* The promise.                                                            *)
LEMMA PromisedNames == Core => Adapters \subseteq UNION {e.menu : e \in Settings}
<1> HAVE Core
<1>1. env.menu \in {e.menu : e \in Settings}
  BY Typed
<1> QED BY <1>1 DEF Adapters

LEMMA PromiseStutters ==
  ASSUME run'.scope = run.scope, (stage' # "idle") <=> (stage # "idle"), dossier' = dossier,
         \A a \in run.scope : (task'[a] = "done") <=> (task[a] = "done")
  PROVE  UNCHANGED Promise!vars
<1>1. {a \in run'.scope : task'[a] = "done"} = {a \in run.scope : task[a] = "done"}
  OBVIOUS
<1>2. (stage' # "idle") = (stage # "idle")
  OBVIOUS
<1> QED BY <1>1, <1>2 DEF Promise!vars

LEMMA PromiseSettles ==
  ASSUME Core, NEW a \in Wave, stage \in {"wave 1", "wave 2"}, task[a] # "done", UNCHANGED <<stage, run, dossier>>,
         task' = [task EXCEPT ![a] = "done"]
  PROVE  Promise!Next
<1>1. a \in run.scope /\ a \in Adapters
  BY InWave
<1>2. a \in UNION {e.menu : e \in Settings}
  BY <1>1, PromisedNames
<1>3. a \in Gated => stage = "wave 2" /\ \A b \in run.scope \ Gated : task[b] = "done"
  BY DEF Wave, Core, WavesInOrder, Done
<1>4. task \in [run.scope -> {"waiting", "asking", "writing", "done"}]
  BY Typed
<1>5. \A b \in run.scope : (task'[b] = "done") <=> (task[b] = "done" \/ b = a)
  BY <1>1, <1>4
<1>6. {b \in run'.scope : task'[b] = "done"} = {b \in run.scope : task[b] = "done"} \cup {a}
  BY <1>1, <1>5
<1>7. stage # "idle" /\ (stage' # "idle") = (stage # "idle")
  OBVIOUS
<1>8. a \in run.scope \ {b \in run.scope : task[b] = "done"}
  BY <1>1
<1>9. a \in Gated => run.scope \ Gated \subseteq {b \in run.scope : task[b] = "done"}
  BY <1>3
<1>10. Promise!Answer(a)
  BY <1>6, <1>7, <1>8, <1>9 DEF Promise!Answer
<1> QED BY <1>2, <1>10 DEF Promise!Next

LEMMA PromiseStarts == Core /\ Core' /\ Start => Promise!Next
<1> SUFFICES ASSUME Core, Core', NEW scope \in SUBSET env.menu, NEW linkedin \in {"none", "url", "junk"},
                    NEW skipPaid \in BOOLEAN, NEW useCache \in BOOLEAN, NEW ceiling \in Ceilings,
                    Invoke(scope, linkedin, skipPaid, useCache, ceiling)
             PROVE  Promise!Next
  BY DEF Start
<1>1. stage = "idle" /\ ~dossier'.handed
  BY DEF Invoke, NoDossier
<1>2. env' = env /\ run.scope = {}
  BY <1>1, Typed DEF Invoke, NoRun
<1>3. run'.scope \in SUBSET UNION {e.menu : e \in Settings}
  <2>1. run'.scope \subseteq Adapters
    BY <1>2 DEF Invoke, Adapters
  <2> QED BY <2>1, PromisedNames
<1>4. \A a \in run'.scope : task'[a] # "done"
  BY <1>2 DEF Invoke
<1>5. {a \in run'.scope : task'[a] = "done"} = {}
  BY <1>4
<1>6. dossier'.handed = FALSE
  BY DEF Invoke, NoDossier
<1>7. Promise!Ask
  BY <1>1, <1>3, <1>5, <1>6 DEF Promise!Ask
<1> QED BY <1>7 DEF Promise!Next

LEMMA PromiseEnds == Core /\ Report => Promise!Next
<1> SUFFICES ASSUME Core, Report PROVE Promise!Next
  OBVIOUS
<1>1. stage # "idle" /\ stage' = "idle" /\ run'.scope = {} /\ Done(run.scope)
  BY DEF Report, NoRun
<1>2. {a \in run'.scope : task'[a] = "done"} = {} /\ {a \in run.scope : task[a] = "done"} = run.scope
  BY <1>1 DEF Done
<1>3. dossier'.handed = FALSE \/ dossier'.handed = TRUE
  BY DEF Report, NoDossier
<1>4. Promise!Close
  BY <1>1, <1>2 DEF Promise!Close
<1> QED BY <1>2, <1>3, <1>4 DEF Promise!HandOver, Promise!GiveUp, Promise!Next

LEMMA PromiseDies == Core /\ stage # "idle" /\ Dies => Promise!Next
<1> SUFFICES ASSUME Core, stage # "idle", Dies PROVE Promise!Next
  OBVIOUS
<1>1. stage' = "idle" /\ run'.scope = {} /\ dossier' = dossier
  BY DEF Dies, NoRun
<1>2. {a \in run'.scope : task'[a] = "done"} = {}
  BY <1>1
<1>3. dossier'.handed = FALSE
  BY <1>1 DEF Core, RunFits
<1>4. Promise!Close
  BY <1>1, <1>2 DEF Promise!Close
<1> QED BY <1>3, <1>4 DEF Promise!GiveUp, Promise!Next

LEMMA PromiseBegins == \A a : Core /\ Begin(a) => Promise!Next \/ UNCHANGED Promise!vars
<1> SUFFICES ASSUME NEW a, Core, Begin(a) PROVE Promise!Next \/ UNCHANGED Promise!vars
  OBVIOUS
<1>1. stage \in {"wave 1", "wave 2"} /\ a \in Wave /\ task[a] = "waiting" /\ UNCHANGED <<stage, run, dossier>>
  BY DEF Begin
<1>2. task' = [task EXCEPT ![a] = "done"] \/ task' = [task EXCEPT ![a] = "asking"]
  BY DEF Begin, Settle
<1>3. CASE task' = [task EXCEPT ![a] = "done"]
  BY <1>1, <1>3, PromiseSettles
<1>4. CASE task' = [task EXCEPT ![a] = "asking"]
  <2>1. a \in run.scope /\ task \in [run.scope -> {"waiting", "asking", "writing", "done"}]
    BY <1>1, InWave, Typed
  <2>2. \A b \in run.scope : (task'[b] = "done") <=> (task[b] = "done")
    BY <1>1, <1>4, <2>1
  <2> QED BY <1>1, <2>2, PromiseStutters
<1> QED BY <1>2, <1>3, <1>4

LEMMA PromiseAnswers == \A a : Core /\ Answer(a) => Promise!Next \/ UNCHANGED Promise!vars
<1> SUFFICES ASSUME NEW a, Core, Answer(a) PROVE Promise!Next \/ UNCHANGED Promise!vars
  OBVIOUS
<1>1. stage \in {"wave 1", "wave 2"} /\ a \in Wave /\ task[a] = "asking" /\ UNCHANGED <<stage, run, dossier>>
  BY DEF Answer
<1>2. task' = [task EXCEPT ![a] = "done"] \/ task' = [task EXCEPT ![a] = "writing"]
  BY DEF Answer
<1>3. CASE task' = [task EXCEPT ![a] = "done"]
  BY <1>1, <1>3, PromiseSettles
<1>4. CASE task' = [task EXCEPT ![a] = "writing"]
  <2>1. a \in run.scope /\ task \in [run.scope -> {"waiting", "asking", "writing", "done"}]
    BY <1>1, InWave, Typed
  <2>2. \A b \in run.scope : (task'[b] = "done") <=> (task[b] = "done")
    BY <1>1, <1>4, <2>1
  <2> QED BY <1>1, <2>2, PromiseStutters
<1> QED BY <1>2, <1>3, <1>4

LEMMA PromiseStep == Core /\ Core' /\ [Next]_trace => [Promise!Next]_(Promise!vars)
<1> SUFFICES ASSUME Core, Core', [Next]_trace PROVE Promise!Next \/ UNCHANGED Promise!vars
  OBVIOUS
<1>1. ASSUME UNCHANGED <<run, dossier, task>>, stage # "idle", stage' # "idle" PROVE UNCHANGED Promise!vars
  BY <1>1, PromiseStutters
<1>2. ASSUME UNCHANGED <<run, dossier, task, stage>> PROVE UNCHANGED Promise!vars
  BY <1>2, PromiseStutters
<1>3. CASE DiscoverAnchors
  <2>1. UNCHANGED <<task, dossier>> /\ stage = "anchors" /\ stage' = "wave 1"
    BY <1>3 DEF DiscoverAnchors
  <2>2. run'.scope = run.scope
    BY <1>3, <2>1 DEF DiscoverAnchors, Core, RunFits
  <2> QED BY <2>1, <2>2, PromiseStutters
<1>4. CASE NextWave
  BY <1>1, <1>4 DEF NextWave
<1>5. ASSUME NEW a, WriteFile(a) PROVE Promise!Next
  <2>1. stage \in {"wave 1", "wave 2"} /\ a \in Wave /\ task[a] # "done" /\ UNCHANGED <<stage, run, dossier>>
        /\ task' = [task EXCEPT ![a] = "done"]
    BY <1>5 DEF WriteFile
  <2> QED BY <2>1, PromiseSettles
<1>6. ASSUME NEW a, Reject(a) PROVE Promise!Next
  BY <1>6, PromiseDies DEF Reject
<1>7. CASE Crash
  BY <1>7, PromiseDies DEF Crash
<1>8. CASE ClearCache \/ Midnight \/ Expire \/ UNCHANGED trace
  <2>1. UNCHANGED <<run, dossier, task, stage>>
    BY <1>8 DEF ClearCache, Midnight, Expire, trace
  <2> QED BY <1>2, <2>1
<1> QED BY <1>3, <1>4, <1>5, <1>6, <1>7, <1>8, PromiseStarts, PromiseEnds, PromiseBegins, PromiseAnswers
        DEF Next, RunStep

\* Every run does what TracePromise says of a trace: each adapter answered once, the gated ones
\* after the others, and a dossier for all of them or none.
THEOREM RunsKeepPromise == Spec => KeepsPromise
<1>1. TraceInit => Promise!Init
  BY DEF TraceInit, NoRun, NoDossier, Promise!Init
<1>2. TraceInv /\ TraceInv' /\ [Next]_trace => [Promise!Next]_(Promise!vars)
  BY PromiseStep DEF TraceInv
<1> QED BY <1>1, <1>2, TraceInvariant, PTL DEF Spec, KeepsPromise, Promise!Spec

=============================================================================
