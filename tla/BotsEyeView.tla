----------------------------- MODULE BotsEyeView -----------------------------
(***************************************************************************)
(* What a probe of a page says (gm/audit/bev.py) over what the fetcher     *)
(* (gm/audit/fetch.py) brings back.  A page as the outside world serves it *)
(* at one moment is a record                                               *)
(*   hops     what each request of the redirect chain meets: "ok",         *)
(*            "redirect", "blocked", "error", "down" or "unsafe"           *)
(*   bots     whether every bot user agent is answered with a 2xx          *)
(*   shell    whether the page reads like one that does not exist          *)
(*   soft404  whether unknown paths are redirected to this very page       *)
(*   words    "thin" (under 200), "some" (under 500) or "rich"             *)
(*   spa      whether the page shows the marks of a script framework       *)
(*   gated    whether a thin page is a selector over a full script bundle  *)
(*   schema   whether the served HTML carries structured data              *)
(***************************************************************************)
EXTENDS Integers, Sequences, FiniteSetsExt

CONSTANT MaxRedirects   \* redirects a fetch follows

ASSUME MaxRedirects \in Nat

\* Every request of the chain is checked before it is made; a redirect met
\* after the last one allowed is returned as it is.
Fetch(hops) ==
  LET last == Min({i \in DOMAIN hops : hops[i] # "redirect" \/ i = MaxRedirects + 1
                                         \/ i = Len(hops)})
  IN  hops[last]

Raises(outcome) == outcome \in {"down", "unsafe"}

TransportClass ==
  [down |-> "fetch_failed", unsafe |-> "fetch_failed", redirect |-> "unresolved_redirect",
   blocked |-> "bot_blocked", error |-> "http_error"]

ClassifySsr(outcome, page) ==
  CASE outcome # "ok"      -> TransportClass[outcome]
    [] OTHER -> IF page.shell /\ ~page.soft404 THEN "spa_no_ssr"
                ELSE CASE page.words = "rich" -> "fully_accessible"
                       [] page.words = "some" -> "partial_ssr"
                       [] page.gated          -> "ssr_shell_js_hidden_content"
                       [] page.spa            -> "js_dependent"
                       [] OTHER               -> "minimal_content"

ContentOk == {"fully_accessible", "partial_ssr"}

\* bots_eye_view: the target itself must be safe, or it raises.
View(page) ==
  [class |-> ClassifySsr(Fetch(page.hops), page),
   bots  |-> page.bots,
   raised |-> page.hops[1] = "unsafe"]
=============================================================================
