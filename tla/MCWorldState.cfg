SPECIFICATION Spec
CONSTANTS
  h1 = h1
  h2 = h2
  b1 = b1
  Order <- MCOrder
  BotOrder <- MCBotOrder
  Nobody = Nobody
  Addrs = {1, 2}
  Mtu = 3
  Reserve = 2
  Header = 1
  MaxPosition = 2
  MaxMessages = 1
  MaxQueued = 4
INVARIANTS TypeOK BufferLivesAsLong EverybodyElse
