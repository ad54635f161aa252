------------------------------- MODULE MCTrace -------------------------------
(***************************************************************************)
(* Every one of the forty adapters in some setting, alone or with those it *)
(* shares a wave or a gate with.                                           *)
(***************************************************************************)
EXTENDS Trace

At(menu, keys, founder, sites) == [menu |-> menu, keys |-> keys, founder |-> founder, sites |-> sites]
Free(a) == At({a}, {}, FALSE, {{}})
Apart == {"operational.dns", "hiring.careers", "product.changelog", "product.rss", "product.sitemap",
          "customer.logos_current", "customer.wayback_diff", "operational.crtsh", "operational.pagespeed",
          "operational.http_headers", "operational.robots_txt", "operational.whois", "ads.meta_library_url",
          "ads.google_transparency_url", "social.links", "directories.ambitionbox", "directories.crunchbase_url"}
AllKeys == {"ADZUNA_APP_ID", "ADZUNA_APP_KEY", "GITHUB_TOKEN", "ANTHROPIC_API_KEY", "SERPER_API_KEY",
            "BRAVE_API_KEY", "LISTEN_NOTES_KEY", "APIFY_TOKEN", "GEMINI_API_KEY"}
NoModels == AllKeys \ {"ANTHROPIC_API_KEY", "GEMINI_API_KEY"}
\* One adapter on a website that names what it looks for, or does not.
Anchored(a, anchor) == At({a}, NoModels, TRUE, {{}, {anchor}})
MCSettings ==
  {Free(a) : a \in Apart}
    \cup {At({"hiring.adzuna"}, keys, FALSE, {{}}) : keys \in {{"ADZUNA_APP_ID"}, NoModels}}
    \cup {Anchored(a, "github") : a \in {"product.github_org", "product.github_events", "product.github_releases"}}
    \cup {Anchored("voice.founder_linkedin_url", "founder"), Anchored("voice.linkedin_posts_apify", "founder"),
          Anchored("voice.youtube_channel", "youtube"), Anchored("positioning.crunchbase_snippet", "crunchbase"),
          Anchored("social.twitter_posts_apify", "twitter"), Anchored("social.instagram_posts_apify", "instagram"),
          Anchored("social.facebook_posts_apify", "facebook"), Anchored("directories.linkedin_company_apify", "linkedin")}
    \cup {At({a}, NoModels, FALSE, {{}}) : a \in {"voice.founder_linkedin_url", "voice.founder_github_url",
            "voice.linkedin_posts_apify", "ads.meta_creatives_apify", "ads.google_creatives_apify"}}
    \cup {At({a}, AllKeys \ {"GEMINI_API_KEY"}, TRUE, {{}}) : a \in {"voice.founder_github_url",
            "voice.linkedin_pulse", "positioning.serper_news", "positioning.brave_news"}}
    \cup {At({"voice.podcast_appearances"}, AllKeys, TRUE, {{}}),
          At({"operational.tech_stack", "directories.g2_capterra"}, {}, FALSE, {{}}),
          At({"directories.zaubacorp", "directories.glassdoor_apify"}, NoModels, FALSE, {{}}),
          At({"hiring.careers", "ads.meta_creatives_apify"}, NoModels, FALSE, {{}})}
=============================================================================
