SPECIFICATION Spec
CONSTANTS
    m1 = m1  m2 = m2  m3 = m3
    v1 = v1  v2 = v2  v3 = v3
    f1 = f1  f2 = f2  f3 = f3
    c1 = c1  c2 = c2
    s1 = s1  s2 = s2
    Markets = {m1, m2, m3}
    Variants = {v1, v2, v3}
    Offers = {f1, f2, f3}
    Clients = {c1, c2}
    Slots = {s1, s2}
    Attempts = {a1, a2}
    Asks <- MCAsks
    None = None
    Home <- MCHome
    Cut <- MCCut
    Rows <- MCRows
    Percent <- MCPercent
    FreeDelivery = {f2}
    FeeRate = 5
    GeneralMarkets = {m3}
    CityMarkets = {m1, m2}
    GeneralOffers = {f3}
    CityOffers = {f1, f2}
    OfferMarket <- MCOfferMarket
    UseLimit <- MCUseLimit
    UserLimit <- MCUserLimit
    Prices = {3333, 20999}
    AreaPrices = {2500, 4000}
    FirstPrice <- MCFirstPrice
    FirstRegion <- MCFirstRegion
    FirstBook <- MCFirstBook
    MaxOrders = 2
    MaxChanges = 2
    ShopCost = 2
SYMMETRY MCSymmetry
INVARIANTS TypeOK KeyRaceAnswered OfferLimits DeletedStaysErased QuoteIsCharge
CHECK_DEADLOCK FALSE
