CONSTANTS
  bump = bump
  Plugin = {core, opt, bump}
  Required = {core}
  App = {opt, bump}
  Title <- MCTitle
  Version <- MCVersion
  MaxRelease = 2
  MaxFault = 1
  MaxKill = 1
SPECIFICATION FairSpec
INVARIANTS ServedIsResolved RequiredIfKnown RenderedIsCurrent
PROPERTIES UserEntriesKept ReconcileSettles
