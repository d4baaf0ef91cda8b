----------------------------- MODULE MCBrowsing -----------------------------
EXTENDS Browsing
CONSTANTS absent

\* A site, its sub-domain over http, and a host with one label.
Url(scheme, host, path) ==
  [scheme |-> scheme, host |-> host, port |-> IF scheme = "https" THEN 443 ELSE 80, path |-> path]
MCUrls == {Url("https", <<"a", "com">>, <<"x", "y">>), Url("http", <<"b", "a", "com">>, <<"x", "">>),
           Url("https", <<"c">>, <<"">>)}

\* Of one name: for the whole site or the host alone, under a path, short-lived, deleted,
\* secure, of a prefix that demands more, and for a domain it must not have.
Plain == [prefix |-> "", name |-> "n", domain |-> absent, path |-> absent,
          secure |-> FALSE, maxAge |-> absent, expires |-> absent]
Site == [Plain EXCEPT !.domain = <<"a", "com">>, !.path = <<"">>]
Held == [Plain EXCEPT !.prefix = "__Host-", !.secure = TRUE, !.path = <<"">>]
MCAnswers == {<<>>, <<Plain>>, <<Site>>, <<[Plain EXCEPT !.domain = <<"c">>]>>, <<[Site EXCEPT !.maxAge = 1, !.expires = 0]>>,
              <<[Site EXCEPT !.secure = TRUE, !.expires = 1]>>,
              <<[Plain EXCEPT !.path = <<"x", "">>], [Plain EXCEPT !.domain = <<"com">>]>>,
              <<[Site EXCEPT !.maxAge = 0], Held, [Held EXCEPT !.path = <<"x", "">>]>>}
=============================================================================
