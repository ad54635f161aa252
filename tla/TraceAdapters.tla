---------------------------- MODULE TraceAdapters ----------------------------
(***************************************************************************)
(* The adapters of the trace tool (tools/radar-trace), each as the set of  *)
(* results it can come back with in a context w: the keys configured, the  *)
(* founder and profile given, the anchors found on the company's website.  *)
(* A result carries its status, the cost it reports, the parts of it that  *)
(* went to Apify and to the verifier, the money really spent, whether some *)
(* call of the adapter got no answer (cut), and the one fact a later       *)
(* adapter's gate reads.  Money is in tenths of a paisa, so that what is   *)
(* rounded to whole paise can be told from what is not.                    *)
(***************************************************************************)
EXTENDS Integers, FiniteSets

Statuses == {"ok", "partial", "empty", "error"}

Plain(status, cut) == [status |-> status, cost |-> 0, apify |-> 0, verify |-> 0,
                       spent |-> 0, cut |-> cut, tells |-> "nothing"]

-----------------------------------------------------------------------------
(* Free pages: one that has what is looked for, one that has not, one the  *)
(* server refuses, and no answer at all (or the same 5xx twice).           *)
Page(some, none, refused, down) ==
  {Plain(some, FALSE), Plain(none, FALSE), Plain(refused, FALSE), Plain(down, TRUE)}
\* Pages whose errors are all swallowed: nothing found and nothing heard are the same.
Hushed == {Plain(status, cut) : status \in {"ok", "empty"}, cut \in BOOLEAN}

(* Paid calls. A call that fails may have been charged all the same.       *)
Call(price) ==
  {[got |-> g, cost |-> price, spent |-> price] : g \in {"some", "none"}}
    \cup {[got |-> "down", cost |-> 0, spent |-> s] : s \in {0, price}}
NoCall == [got |-> "some", cost |-> 0, spent |-> 0]
Serper == Call(30)
Brave == Call(500)
ListenNotes == Call(0)
\* An actor is paid by the row; of its rows the client keeps Cap, and counts those it keeps.
Row == 63
Cap == 1
Kept(n) == IF n > Cap THEN Cap ELSE n
Apify == {[got |-> "some", cost |-> Kept(n) * Row, spent |-> n * Row] : n \in 1..(Cap + 1)}
           \cup {[got |-> "none", cost |-> 0, spent |-> 0]}
           \cup {[got |-> "down", cost |-> 0, spent |-> s] : s \in {0, Cap * Row}}
\* The verifier asks at most twice, and its cost is lost when it throws.
Tokens == 27
Verifier(w) ==
  IF "ANTHROPIC_API_KEY" \notin w.keys THEN {NoCall}
  ELSE {[got |-> g, cost |-> n * Tokens, spent |-> n * Tokens] : g \in {"some", "none"}, n \in 1..2}
         \cup {[got |-> "down", cost |-> 0, spent |-> n * Tokens] : n \in 0..2}

\* A price in dollars is rounded to whole paise in the cost of a result, and kept as it is
\* in its part.
Round(x) == ((x + 5) \div 10) * 10
\* What rounding may have moved, where x was paid for.
Slack(x) == IF x > 0 THEN 5 ELSE 0

Failed(c) == [Plain("error", TRUE) EXCEPT !.spent = c.spent]
Found(status, c) == [Plain(status, FALSE) EXCEPT !.cost = c.cost, !.spent = c.spent]
\* Mutant: the verifier's cost is shown but not added.
CheckedForFree(status, c, v) == [Plain(status, v.got = "down") EXCEPT
                                   !.cost = c.cost, !.verify = v.cost, !.spent = c.spent + v.spent]
Checked(status, c, v) == [Plain(status, v.got = "down") EXCEPT
                            !.cost = c.cost + Round(v.cost), !.verify = v.cost, !.spent = c.spent + v.spent]
Scraped(c, p) ==
  [Plain(CASE p.got = "some" -> "ok" [] p.got = "none" -> "empty" [] p.got = "down" -> "error", p.got = "down")
     EXCEPT !.cost = c.cost + Round(p.cost), !.apify = p.cost, !.spent = c.spent + p.spent]

\* A search: what follows none and a failure, and its hits.
Missed(call, none) ==
  {Failed(c) : c \in {k \in call : k.got = "down"}} \cup {Found(none, c) : c \in {k \in call : k.got = "none"}}
Hits(call) == {c \in call : c.got = "some"}
\* What the verifier keeps of the hits; when it fails, all of them.
Verified(call, w) == Missed(call, "empty")
  \cup {Checked(IF v.got = "none" THEN "empty" ELSE "ok", c, v) : c \in Hits(call), v \in Verifier(w)}
\* The posts of a profile known beforehand, or searched for first.
Scrape(known) ==
  IF known THEN {Scraped(NoCall, p) : p \in Apify}
  ELSE Missed(Serper, "empty") \cup {Scraped(c, p) : c \in Hits(Serper), p \in Apify}

-----------------------------------------------------------------------------
(* Hiring, product.                                                        *)
Adzuna == Page("ok", "empty", "error", "error") \* a second 400 is an empty page too
Careers == Page("ok", "empty", "error", "error")
OrgKnown(w) == "github" \in w.anchors
GithubOrg(w) == IF OrgKnown(w) THEN {Plain("ok", FALSE)} ELSE Page("ok", "empty", "error", "error")
GithubEvents(w) == IF OrgKnown(w) THEN Page("ok", "ok", "error", "error") ELSE Page("ok", "empty", "error", "error")
GithubReleases(w) == IF OrgKnown(w) THEN Page("ok", "ok", "error", "error") ELSE Page("ok", "empty", "error", "error")
Changelog == Hushed
Rss == {Plain("empty", FALSE)} \cup {Plain(s, c) : s \in {"ok", "partial", "error"}, c \in BOOLEAN}
Sitemap == Hushed

(* Customers, operations.                                                  *)
LogosCurrent == Hushed
WaybackDiff == Hushed
Detected == {"nothing", "saas"}
TechStack == {[Plain("ok", FALSE) EXCEPT !.tells = t] : t \in Detected}
               \cup Page("empty", "empty", "error", "error")
Crtsh == Page("ok", "empty", "error", "error")
\* Two lookups: one that fails beside one that finds something is a partial answer.
Dns == {Plain("ok", FALSE)} \cup {Plain(s, c) : s \in {"partial", "error"}, c \in BOOLEAN}
HttpHeaders == Page("ok", "ok", "ok", "error")
Pagespeed == Page("ok", "partial", "error", "error") \cup {Plain("empty", TRUE)} \* 429
RobotsTxt == Page("ok", "empty", "empty", "error") \cup {Plain("empty", TRUE)}    \* 5xx
Whois == Page("ok", "ok", "error", "error") \cup {Plain("empty", FALSE)}          \* 404

(* Voice.                                                                  *)
FounderKnown(w) == w.linkedin # "none" \/ "founder" \in w.anchors
FounderLinkedinUrl(w) ==
  CASE FounderKnown(w) -> {Plain("ok", FALSE)}
    [] ~FounderKnown(w) /\ ~w.founder -> {Plain("empty", FALSE)}
    [] OTHER -> Missed(Serper, "ok") \cup {Found("ok", c) : c \in Hits(Serper)}
FounderGithubUrl(w) ==
  IF ~w.founder THEN {Plain("empty", FALSE)}
  ELSE Missed(Serper, "ok") \cup {Checked("ok", c, v) : c \in Hits(Serper), v \in Verifier(w)}
LinkedinPulse(w) == Verified(Serper, w)
PodcastAppearances(w) == Verified(ListenNotes, w)
\* A channel's page and feed: an HTTP error there is an empty list, a throw loses the search's cost.
Channel(c) == {[Found("ok", c) EXCEPT !.cut = cut] : cut \in BOOLEAN} \cup {Failed(c)}
YoutubeChannel(w) ==
  IF "youtube" \in w.anchors THEN Channel(NoCall)
  ELSE Missed(Serper, "empty") \cup UNION {Channel(c) : c \in Hits(Serper)}
LinkedinPosts(w) == IF FounderKnown(w) \/ w.founder THEN Scrape(FounderKnown(w)) ELSE {Plain("empty", FALSE)}

(* Positioning, ads, social media.                                         *)
CrunchbaseSnippet(w) ==
  IF "crunchbase" \in w.anchors THEN {Plain("ok", FALSE)}
  ELSE Missed(Serper, "empty") \cup {Found("ok", c) : c \in Hits(Serper)}
BraveNews(w) == Verified(Brave, w)
SerperNews(w) == Verified(Serper, w)
MetaLibraryUrl == {Plain("ok", FALSE)}
GoogleTransparencyUrl == {Plain("ok", FALSE)}
MetaCreatives == Scrape(TRUE)
GoogleCreatives == Scrape(TRUE)
SocialLinks == Page("ok", "empty", "error", "error")
TwitterPosts(w) == Scrape("twitter" \in w.anchors)
InstagramPosts(w) == Scrape("instagram" \in w.anchors)
FacebookPosts(w) == Scrape("facebook" \in w.anchors)

(* Directories. The parser of the company register says India of everyone. *)
Zaubacorp == {[r EXCEPT !.tells = IF r.status = "ok" THEN "India" ELSE "nothing"] : r \in Page("ok", "empty", "error", "error")}
Ambitionbox == Page("ok", "empty", "error", "error") \* two 404s are an empty page too
CrunchbaseUrl == {Plain("ok", FALSE)}
LinkedinCompany(w) == Scrape("linkedin" \in w.anchors)
G2Capterra == Hushed
GlassdoorApify == Scrape(TRUE)

-----------------------------------------------------------------------------
Outcomes(a, w) ==
  CASE a = "hiring.adzuna" -> Adzuna [] a = "hiring.careers" -> Careers
    [] a = "product.github_org" -> GithubOrg(w) [] a = "product.github_events" -> GithubEvents(w)
    [] a = "product.github_releases" -> GithubReleases(w) [] a = "product.changelog" -> Changelog
    [] a = "product.rss" -> Rss [] a = "product.sitemap" -> Sitemap
    [] a = "customer.logos_current" -> LogosCurrent [] a = "customer.wayback_diff" -> WaybackDiff
    [] a = "operational.tech_stack" -> TechStack [] a = "operational.crtsh" -> Crtsh
    [] a = "operational.dns" -> Dns [] a = "operational.pagespeed" -> Pagespeed
    [] a = "operational.http_headers" -> HttpHeaders [] a = "operational.robots_txt" -> RobotsTxt
    [] a = "operational.whois" -> Whois
    [] a = "voice.founder_linkedin_url" -> FounderLinkedinUrl(w)
    [] a = "voice.founder_github_url" -> FounderGithubUrl(w)
    [] a = "voice.linkedin_pulse" -> LinkedinPulse(w) [] a = "voice.podcast_appearances" -> PodcastAppearances(w)
    [] a = "voice.youtube_channel" -> YoutubeChannel(w) [] a = "voice.linkedin_posts_apify" -> LinkedinPosts(w)
    [] a = "positioning.crunchbase_snippet" -> CrunchbaseSnippet(w)
    [] a = "positioning.brave_news" -> BraveNews(w) [] a = "positioning.serper_news" -> SerperNews(w)
    [] a = "ads.meta_library_url" -> MetaLibraryUrl [] a = "ads.google_transparency_url" -> GoogleTransparencyUrl
    [] a = "ads.meta_creatives_apify" -> MetaCreatives [] a = "ads.google_creatives_apify" -> GoogleCreatives
    [] a = "social.links" -> SocialLinks [] a = "social.twitter_posts_apify" -> TwitterPosts(w)
    [] a = "social.instagram_posts_apify" -> InstagramPosts(w) [] a = "social.facebook_posts_apify" -> FacebookPosts(w)
    [] a = "directories.zaubacorp" -> Zaubacorp [] a = "directories.ambitionbox" -> Ambitionbox
    [] a = "directories.crunchbase_url" -> CrunchbaseUrl
    [] a = "directories.linkedin_company_apify" -> LinkedinCompany(w)
    [] a = "directories.g2_capterra" -> G2Capterra [] a = "directories.glassdoor_apify" -> GlassdoorApify

AllAdapters == {"hiring.adzuna", "hiring.careers", "product.github_org", "product.github_events",
                "product.github_releases", "product.changelog", "product.rss", "product.sitemap",
                "customer.logos_current", "customer.wayback_diff", "operational.tech_stack", "operational.crtsh",
                "operational.dns", "operational.pagespeed", "operational.http_headers", "operational.robots_txt",
                "operational.whois", "voice.founder_linkedin_url", "voice.founder_github_url",
                "voice.linkedin_pulse", "voice.podcast_appearances", "voice.youtube_channel",
                "voice.linkedin_posts_apify", "positioning.crunchbase_snippet", "positioning.brave_news",
                "positioning.serper_news", "ads.meta_library_url", "ads.google_transparency_url",
                "ads.meta_creatives_apify", "ads.google_creatives_apify", "social.links",
                "social.twitter_posts_apify", "social.instagram_posts_apify", "social.facebook_posts_apify",
                "directories.zaubacorp", "directories.ambitionbox", "directories.crunchbase_url",
                "directories.linkedin_company_apify", "directories.g2_capterra", "directories.glassdoor_apify"}

\* The adapters that end in an actor, which --skip-paid leaves out.
Scrapers == {"voice.linkedin_posts_apify", "social.twitter_posts_apify", "social.instagram_posts_apify",
             "social.facebook_posts_apify", "ads.meta_creatives_apify", "ads.google_creatives_apify",
             "directories.linkedin_company_apify", "directories.glassdoor_apify"}
\* Mutant: the company page is left out of them.
ApifySerperPosts == {"voice.linkedin_posts_apify", "social.twitter_posts_apify",
                     "social.instagram_posts_apify", "social.facebook_posts_apify"}
\* Those of them that search first, as the breakdown of the cost lists them.
ApifySerper == {"voice.linkedin_posts_apify", "social.twitter_posts_apify", "social.instagram_posts_apify",
                "social.facebook_posts_apify", "directories.linkedin_company_apify"}
Metered == {"voice.linkedin_pulse", "voice.founder_linkedin_url", "voice.founder_github_url",
            "positioning.crunchbase_snippet", "positioning.serper_news", "voice.youtube_channel",
            "positioning.brave_news", "voice.podcast_appearances", "operational.pagespeed"}
Gated == {"directories.g2_capterra", "directories.glassdoor_apify"}
\* Answers of these are good for six hours; a longer life than the day's never counts.
ShortLived == {"voice.linkedin_posts_apify", "social.twitter_posts_apify",
               "social.instagram_posts_apify", "social.facebook_posts_apify"}

Required(a) ==
  CASE a = "hiring.adzuna" -> {"ADZUNA_APP_ID", "ADZUNA_APP_KEY"}
    [] a \in {"product.github_org", "product.github_events", "product.github_releases"} -> {"GITHUB_TOKEN"}
    [] a = "positioning.brave_news" -> {"BRAVE_API_KEY"}
    [] a = "voice.podcast_appearances" -> {"LISTEN_NOTES_KEY"}
    [] a \in ApifySerper -> {"SERPER_API_KEY", "APIFY_TOKEN"}
    [] a \in Scrapers \ ApifySerper -> {"APIFY_TOKEN"}
    [] a \in Metered \ {"positioning.brave_news", "voice.podcast_appearances", "operational.pagespeed"} -> {"SERPER_API_KEY"}
    [] OTHER -> {}
\* The worst case each adapter declares, in paise.
Estimate(a) ==
  CASE a \in {"social.twitter_posts_apify", "social.instagram_posts_apify", "social.facebook_posts_apify",
              "voice.linkedin_posts_apify", "directories.glassdoor_apify"} -> 10000
    [] a \in {"directories.linkedin_company_apify", "ads.google_creatives_apify"} -> 5000
    [] a = "ads.meta_creatives_apify" -> 1500
    [] a = "positioning.brave_news" -> 100
    [] a \in {"voice.founder_github_url", "voice.linkedin_pulse", "voice.podcast_appearances", "positioning.serper_news"} -> 50
    [] a \in {"voice.founder_linkedin_url", "voice.youtube_channel", "positioning.crunchbase_snippet"} -> 3
    [] OTHER -> 0
=============================================================================
