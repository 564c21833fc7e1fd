CONSTANTS
  Requests = {r1, r2}
  Browsers = {b1}
  Names = {n1, n2}
  Passwords = {x}
  Addresses = {a1, a2}
  Tokens = {t1, t2}
  None = None
  MaxAge = 2
  Delay = 1
  MaxTime = 2
SYMMETRY Symmetric
SPECIFICATION Spec
INVARIANTS
  TypeOK
  CookieServed
  LoginSticks
  ActsOnProof
