CONSTANTS
  ProxyPass = TRUE
  ProxySettings <- MCSettings
  ProxyDefault = TRUE
  ProxyOffers <- MCProxyOffers
  ServerOffers <- MCServerOffers
  FetchRedirect = TRUE
  NtlmAgain = FALSE
  MaxRedirects = 2
SPECIFICATION FairSpec
PROPERTIES RequestReturns
