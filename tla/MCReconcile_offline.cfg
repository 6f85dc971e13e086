CONSTANTS
  bump = bump
  Plugin = {core, opt, bump}
  Required = {core}
  App = {opt, bump}
  Title <- MCTitle
  Version <- MCVersion
  MaxRelease = 2
  MaxFault = 1
  MaxKill = 0
SPECIFICATION Spec
INVARIANTS RequiredServed
