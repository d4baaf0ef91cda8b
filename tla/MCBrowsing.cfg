\* One caller after another; the caps are one cookie of a domain and two in all.
SPECIFICATION BrowsingSpec
CONSTANTS
  absent = absent
  Absent = absent
  Fetches = {"f1"}
  Urls <- MCUrls
  Answers <- MCAnswers
  Methods = {"POST"}
  Statuses = {200, 301, 307}
  MaxRedirects = 2
  MaxCookies = 2
  MaxPerDomain = 1
  Forever = 9
  MaxTime = 1
  MaxSets = 3
INVARIANT RedirectsSafe
PROPERTY CookiesExact
