SPECIFICATION PadsSpec
CONSTANTS
  owner = owner
  guest = guest
  k1 = k1
  k2 = k2
  m1 = m1
  NoKey = NoKey
  NoUser = NoUser
  NoButton = NoButton
  Moving = Moving
  Unsettled = Unsettled
  SlotCount = 2
  Users = {owner, guest}
  Primary = owner
  Rest = "rest"
  MaxEpoch = 4
  MaxToken = 2
  InboxSize = 1
  Samples <- PadSamples
  SlotSamples <- TheSlotSamples
  Keyboards = {k1, k2}
  Mice = {m1}
  Usages <- TheUsages
  VirtualKey <- TheKeys
  Clicks = {"left"}
INVARIANTS ControllersOK HapticsOK PadInputOK UsbInputOK
PROPERTY PadsSettle
