SPECIFICATION Spec
CONSTANTS
    r1 = r1
    r2 = r2
    service = service
    hand = hand
    other = other
    x = x
    y = y
    z = z
    Replicas = {r1, r2}
    Processes = {service, hand, other}
    Home <- MCHome
    Prefixes = {x, y, z}
    Minted <- MCMinted
    None = None
    Settings <- MCSettings
    MaxTrouble = 1
INVARIANTS
  OneAnswer
  PrefixIsKept
