SPECIFICATION Spec
CONSTANTS
    t1 = t1
    t2 = t2
    o1 = o1
    o2 = o2
    Nobody = Nobody
    Missing = Missing
    Texts <- MCTexts
    AsText <- MCAsText
    Threads = {t1}
    Objects = {o1}
    ObjectOf <- MCOneObject
    Packages <- MCTextPackages
    CatalogFiles <- MCTextFiles
PROPERTY
    StaysLoadable
